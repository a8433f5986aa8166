----------------------------- MODULE MCMinistries -----------------------------
(* Ministries on one application: one position, four people of whom two     *)
(* send requests, and two requests at a time.                               *)
EXTENDS Ministries, TLC

CONSTANTS ann, bob, cyd, dan, r1, r2

Members(p, s) == {[user |-> p, role |-> "primary"], [user |-> s, role |-> "secondary"]}

\* Two valid lists with nobody in common, and two without a deputy.
MCMemberLists == {Members(ann, bob), Members(cyd, dan),
                  {[user |-> ann, role |-> "primary"]}, {[user |-> cyd, role |-> "primary"]}}

\* The two pairs of people are alike, and so are the requests.
Symmetric ==
  {p @@ q : p \in Permutations({r1, r2}),
            q \in {ann :> ann @@ bob :> bob @@ cyd :> cyd @@ dan :> dan,
                   ann :> cyd @@ bob :> dan @@ cyd :> ann @@ dan :> bob}}
=============================================================================
