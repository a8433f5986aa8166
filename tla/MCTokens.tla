------------------------------- MODULE MCTokens -------------------------------
(***************************************************************************)
(* One account, one sign-in of either audience, two concurrent requests and *)
(* three refresh tokens: two rotations of one token race each other, a     *)
(* logout and the detection of a reuse.                                    *)
(***************************************************************************)
EXTENDS TokenFamilies, TLC

Symmetric == Permutations(Requests) \cup Permutations(Tokens)

SavedFlags ==
    {[deleted |-> FALSE, active |-> a, verified |-> TRUE, admin |-> TRUE] : a \in BOOLEAN}
=============================================================================
