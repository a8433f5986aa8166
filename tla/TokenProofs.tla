----------------------------- MODULE TokenProofs -----------------------------
(***************************************************************************)
(* Refresh token families for any number of accounts, requests, families,  *)
(* tokens and web apps.                                                    *)
(*                                                                         *)
(* A request carries, unlocked, what its first statement read: the token,  *)
(* its family, the binding, the rows it will revoke.  CoreInv says that    *)
(* this stays meaningful (rows are never deleted and never change family). *)
(* On it rest the statements about replacement, reuse, revocation, the web *)
(* app of an access token and the one live end of a family.                *)
(***************************************************************************)
EXTENDS TokenFamilies, TLAPS, FiniteSetTheorems

-----------------------------------------------------------------------------
(* What is recorded, and what a request carries.                           *)

IssuedTokens == {t \in Tokens : Issued(t)}

\* A delivered token has a row, and the family of a row was signed in.
Recorded ==
    /\ delivered \subseteq IssuedTokens
    /\ \A t \in IssuedTokens : family[tok[t].family] # NoFamilyYet

\* A request in flight carries a delivered token and its family; exactly the
\* rotations that have written carry the id of their new row, each its own,
\* and nobody sees that row.  A revocation has its own token among its rows.
Carried ==
    /\ \A r \in Requests : req[r].at # "idle" =>
          req[r].token \in delivered /\ req[r].family = tok[req[r].token].family
    /\ \A r \in Requests : req[r].new # NoToken <=> req[r].at \in {"bound", "rebound", "written"}
    /\ \A r \in Requests : req[r].new \notin IssuedTokens
    /\ \A r, s \in Requests : r # s /\ req[r].new = req[s].new => req[r].new = NoToken
    /\ \A r \in Requests : req[r].at = "revoke" =>
          req[r].token \in req[r].rows /\ req[r].rows \subseteq RowsOf(req[r].family)

CoreInv == TokenTypeOK /\ Recorded /\ Carried

\* A row that exists has a family of the type; one that does not has none.
LEMMA IssuedHasFamily ==
    ASSUME TokenTypeOK, NEW t \in Tokens
    PROVE  /\ Issued(t) <=> tok[t] \in AuthRefreshToken
           /\ Issued(t) <=> tok[t].family \in Families
           /\ ~Issued(t) => tok[t] = NoRow /\ ~tok[t].revoked /\ tok[t].replaced = NoToken
BY TokenConstants DEF TokenTypeOK, Issued, NoRow, AuthRefreshToken

\* Nothing is recorded initially.
LEMMA InitCore == TokenInit => CoreInv
<1> SUFFICES ASSUME TokenInit PROVE CoreInv
    OBVIOUS
<1>1. TokenTypeOK
    <2>1. users \in [Users -> AuthUser]
        <3>1. ASSUME NEW p \in BOOLEAN
              PROVE  [deleted |-> FALSE, active |-> TRUE, verified |-> TRUE, admin |-> TRUE,
                      profile |-> p, linked |-> FALSE] \in AuthUser
            BY DEF AuthUser
        <3> QED
            BY <3>1, Zenon DEF TokenInit
    <2>2. Idle \in [at : Stage, token : Tokens \cup {NoToken}, family : Families \cup {NoFamily},
                    new : Tokens \cup {NoToken}, app : Apps \cup {NoApp}, bound : Apps \cup {NoApp},
                    rows : SUBSET Tokens, missed : BOOLEAN]
        BY DEF Idle, Stage
    <2> QED
        BY <2>1, <2>2, TokenConstants DEF TokenInit, TokenTypeOK
<1>2. Recorded
    BY DEF TokenInit, Recorded, IssuedTokens, Issued
<1>3. Carried
    BY TokenConstants DEF TokenInit, Carried, Idle, IssuedTokens
<1> QED
    BY <1>1, <1>2, <1>3 DEF CoreInv

-----------------------------------------------------------------------------
(* What a step can do to the rows.                                         *)

\* The row that a login inserts.
NewRow(u, f) == [family |-> f, user |-> u, parent |-> NoToken, replaced |-> NoToken,
                 expires |-> now + TTL, revoked |-> FALSE]

\* A login records a family and a row that were not there, and touches no
\* request in flight.
LEMMA LoginEffects ==
    ASSUME TokenTypeOK, NEW u \in Users, NEW aud, NEW app, StartFamily(u, aud, app)
    PROVE  \E f \in Families, t \in Tokens :
              /\ family[f] = NoFamilyYet /\ ~Issued(t) /\ \A r \in Requests : req[r].new # t
              /\ tok' = [tok EXCEPT ![t] = NewRow(u, f)]
              /\ family' = [family EXCEPT ![f] = [user |-> u, aud |-> aud, app |-> app, at |-> now]]
              /\ binding' = IF aud = "app" THEN [binding EXCEPT ![f] = app] ELSE binding
              /\ minted' = minted \cup {create_access_token(u, f, aud, app)}
              /\ delivered' = delivered \cup {t}
              /\ UNCHANGED <<now, blacklist, req, late, raced, reused>>
BY DEF StartFamily, FreshFamily, FreshToken, Reserved, issue, NewRow

\* Edited accounts are accounts.
LEMMA EditedUsers ==
    ASSUME users \in [Users -> AuthUser], NEW u \in Users,
           NEW a \in BOOLEAN, NEW p \in BOOLEAN, NEW l \in BOOLEAN
    PROVE  /\ [users EXCEPT ![u].profile = p, ![u].linked = l] \in [Users -> AuthUser]
           /\ [users EXCEPT ![u].active = a, ![u].linked = l, ![u].profile = p] \in [Users -> AuthUser]
<1>1. [[users[u] EXCEPT !.profile = p] EXCEPT !.linked = l] \in AuthUser
    BY DEF AuthUser
<1>2. [[[users[u] EXCEPT !.active = a] EXCEPT !.linked = l] EXCEPT !.profile = p] \in AuthUser
    BY DEF AuthUser
<1> QED
    BY <1>1, <1>2

\* The steps of the system, with the logins and the edits of accounts put
\* together.
LEMMA Steps ==
    ASSUME [TokenNext]_tokenVars, TokenTypeOK
    PROVE  \/ /\ \E u \in Users : \/ StartFamily(u, "admin", NoApp)
                                  \/ \E app \in Apps : StartFamily(u, "app", app)
              /\ users' \in [Users -> AuthUser]
           \/ \E r \in Requests, t \in Tokens, app \in Apps : RotateRead(r, t, app)
           \/ \E r \in Requests, t \in Tokens : logout(r, t)
           \/ \E r \in Requests : RotateWrite(r) \/ ReadBinding(r) \/ Rebind(r) \/ FinishRefresh(r)
                           \/ Abort(r) \/ RevokeStart(r) \/ revoke_family(r)
           \/ /\ users' \in [Users -> AuthUser] /\ now' \in 0..MaxTime
              /\ UNCHANGED <<tok, family, binding, blacklist, delivered, minted, req, late, raced, reused>>
<1>0. ASSUME NEW u \in Users, ResolvedMicrosoftUser(u) \/ UNCHANGED users
      PROVE  users' \in [Users -> AuthUser]
    <2>1. [users EXCEPT ![u].profile = TRUE, ![u].linked = TRUE] \in [Users -> AuthUser]
        BY EditedUsers DEF TokenTypeOK
    <2> QED
        BY <1>0, <2>1 DEF ResolvedMicrosoftUser, TokenTypeOK
<1>1. ASSUME NEW u \in Users, NEW app \in Apps,
             microsoft_member_login(u, app) \/ mock_member_login(u, app)
      PROVE  StartFamily(u, "app", app) /\ (ResolvedMicrosoftUser(u) \/ UNCHANGED users)
    BY <1>1 DEF microsoft_member_login, mock_member_login, complete_member_login
<1>2. ASSUME NEW u \in Users, login_with_password(u) \/ microsoft_login(u)
      PROVE  StartFamily(u, "admin", NoApp) /\ (ResolvedMicrosoftUser(u) \/ UNCHANGED users)
    BY <1>2 DEF login_with_password, microsoft_login, complete_admin_login
<1>3. ASSUME NEW u \in Users, NEW flags \in Flags, update_user(u, flags)
      PROVE  users' \in [Users -> AuthUser] /\ now' \in 0..MaxTime
    BY <1>3, TokenConstants DEF update_user, TokenTypeOK, AuthUser
<1>4. ASSUME NEW u \in Users, NEW enabled \in BOOLEAN, _sync_one(u, enabled)
      PROVE  users' \in [Users -> AuthUser] /\ now' \in 0..MaxTime
    <2>1. (users[u].profile \/ ~users[u].linked) \in BOOLEAN
        OBVIOUS
    <2> QED
        BY <1>4, <2>1, EditedUsers DEF _sync_one, TokenTypeOK
<1>5. ASSUME Tick PROVE users' \in [Users -> AuthUser] /\ now' \in 0..MaxTime
    BY <1>5, TokenConstants DEF Tick, TokenTypeOK
<1>6. CASE UNCHANGED tokenVars
    BY <1>6 DEF tokenVars, TokenTypeOK
<1> QED
    BY <1>0, <1>1, <1>2, <1>3, <1>4, <1>5, <1>6 DEF TokenNext, update_user, _sync_one, Tick

-----------------------------------------------------------------------------
(* The inductive step of CoreInv, one lemma per kind of step.              *)

Flight == [at : Stage, token : Tokens \cup {NoToken}, family : Families \cup {NoFamily},
           new : Tokens \cup {NoToken}, app : Apps \cup {NoApp}, bound : Apps \cup {NoApp},
           rows : SUBSET Tokens, missed : BOOLEAN]

\* A login keeps the invariant: its row and its family are new.
LEMMA LoginCore ==
    ASSUME CoreInv, NEW u \in Users, NEW aud \in {"admin", "app"}, NEW app \in Apps \cup {NoApp},
           StartFamily(u, aud, app), users' \in [Users -> AuthUser]
    PROVE  CoreInv'
<1> USE DEF CoreInv
<1>1. PICK f \in Families, t \in Tokens :
              /\ family[f] = NoFamilyYet /\ ~Issued(t) /\ \A r \in Requests : req[r].new # t
              /\ tok' = [tok EXCEPT ![t] = NewRow(u, f)]
              /\ family' = [family EXCEPT ![f] = [user |-> u, aud |-> aud, app |-> app, at |-> now]]
              /\ binding' = IF aud = "app" THEN [binding EXCEPT ![f] = app] ELSE binding
              /\ delivered' = delivered \cup {t}
              /\ UNCHANGED <<now, blacklist, req, late, raced, reused>>
    BY LoginEffects
<1>2. NewRow(u, f) \in AuthRefreshToken /\ NewRow(u, f).family = f
    BY TokenConstants DEF NewRow, AuthRefreshToken, TokenTypeOK
<1>3. [user |-> u, aud |-> aud, app |-> app, at |-> now]
        \in [user : Users, aud : {"admin", "app"}, app : Apps \cup {NoApp}, at : 0..MaxTime]
      /\ [user |-> u, aud |-> aud, app |-> app, at |-> now] # NoFamilyYet
    BY TokenConstants DEF TokenTypeOK, NoFamilyYet
<1>4. TokenTypeOK'
    BY <1>1, <1>2, <1>3 DEF TokenTypeOK
<1>5. IssuedTokens' = IssuedTokens \cup {t} /\ t \notin IssuedTokens
    BY <1>1, <1>2, TokenConstants DEF IssuedTokens, Issued, NoRow, AuthRefreshToken, TokenTypeOK
<1>6. \A s \in IssuedTokens : tok'[s] = tok[s]
    BY <1>1, <1>5 DEF TokenTypeOK, IssuedTokens
<1>7. Recorded'
    <2>1. \A s \in IssuedTokens : tok[s].family \in Families
        BY IssuedHasFamily DEF IssuedTokens
    <2>2. tok'[t].family = f
        BY <1>1, <1>2 DEF TokenTypeOK
    <2>3. family'[f] # NoFamilyYet
        BY <1>1, <1>3 DEF TokenTypeOK
    <2> QED
        BY <1>1, <1>5, <1>6, <2>1, <2>2, <2>3 DEF Recorded, TokenTypeOK
<1>8. Carried'
    <2>1. \A g : RowsOf(g) \subseteq RowsOf(g)'
        BY <1>5, <1>6 DEF RowsOf, IssuedTokens
    <2> QED
        BY <1>1, <1>5, <1>6, <2>1 DEF Carried, Recorded
<1> QED
    BY <1>4, <1>7, <1>8

\* A step that only changes what one request carries keeps the invariant if
\* what it carries is as Carried says.
LEMMA FlightCore ==
    ASSUME CoreInv, NEW r \in Requests, NEW q \in Flight,
           req' = [req EXCEPT ![r] = q],
           UNCHANGED <<now, users, tok, family, delivered>>,
           binding' \in [Families -> Apps \cup {NoApp}], blacklist' \subseteq Families,
           late' \subseteq Tokens, raced' \subseteq Families, reused' \subseteq Tokens,
           q.at # "idle" => q.token \in delivered /\ q.family = tok[q.token].family,
           q.new # NoToken <=> q.at \in {"bound", "rebound", "written"},
           q.new \notin IssuedTokens,
           \A s \in Requests \ {r} : req[s].new = q.new => q.new = NoToken,
           q.at = "revoke" => q.token \in q.rows /\ q.rows \subseteq RowsOf(q.family)
    PROVE  CoreInv'
<1> USE DEF CoreInv
<1>1. TokenTypeOK'
    BY DEF TokenTypeOK, Flight
<1>2. IssuedTokens' = IssuedTokens
    BY DEF IssuedTokens, Issued
<1>3. Recorded'
    BY <1>2 DEF Recorded
<1>4. req'[r] = q /\ \A s \in Requests \ {r} : req'[s] = req[s]
    BY DEF TokenTypeOK
<1>5. \A g : RowsOf(g)' = RowsOf(g)
    BY DEF RowsOf, Issued
<1>6. Carried'
    BY <1>2, <1>4, <1>5 DEF Carried
<1> QED
    BY <1>1, <1>3, <1>6

\* The answer to a request forgets what it carried.
LEMMA ReplyCore ==
    ASSUME CoreInv, NEW r \in Requests, Reply(r),
           UNCHANGED <<now, users, tok, family, delivered, late, raced, reused>>,
           binding' \in [Families -> Apps \cup {NoApp}], blacklist' \subseteq Families
    PROVE  CoreInv'
<1>1. Idle \in Flight /\ Idle.at = "idle" /\ Idle.new = NoToken /\ NoToken \notin IssuedTokens
    BY TokenConstants DEF Idle, Flight, Stage, IssuedTokens
<1> QED
    BY <1>1, FlightCore DEF Reply, CoreInv, TokenTypeOK

\* The first statement of a rotation or a logout carries a delivered token.
LEMMA ReadCore ==
    ASSUME CoreInv, NEW r \in Requests, NEW t \in Tokens,
           \/ \E app \in Apps : RotateRead(r, t, app)
           \/ logout(r, t)
    PROVE  CoreInv'
<1> USE DEF CoreInv
<1>1. t \in delivered /\ tok[t].family \in Families
    BY IssuedHasFamily DEF RotateRead, logout, Recorded, IssuedTokens
<1>2. NoToken \notin IssuedTokens
    BY TokenConstants DEF IssuedTokens
<1>3. ASSUME NEW app \in Apps, RotateRead(r, t, app) PROVE CoreInv'
    <2> DEFINE stage == IF tok[t].replaced # NoToken THEN "reused" ELSE "rotate"
               q == [Idle EXCEPT !.at = stage, !.token = t, !.family = tok[t].family, !.app = app]
    <2>1. q \in Flight /\ q.at = stage /\ q.token = t /\ q.family = tok[t].family /\ q.new = NoToken
        BY <1>1 DEF Idle, Flight, Stage
    <2>2. raced' \subseteq Families
        BY <1>1, <1>3 DEF RotateRead, TokenTypeOK
    <2>3. req' = [req EXCEPT ![r] = q]
        BY <1>3 DEF RotateRead
    <2> HIDE DEF q
    <2> QED
        BY <1>1, <1>2, <1>3, <2>1, <2>2, <2>3, FlightCore DEF RotateRead, TokenTypeOK
<1>4. CASE logout(r, t)
    <2> DEFINE q == [Idle EXCEPT !.at = "logout", !.token = t, !.family = tok[t].family]
    <2>1. q \in Flight /\ q.at = "logout" /\ q.token = t /\ q.family = tok[t].family /\ q.new = NoToken
        BY <1>1 DEF Idle, Flight, Stage
    <2>2. binding' \in [Families -> Apps \cup {NoApp}] /\ blacklist' \subseteq Families
        BY <1>1, <1>4 DEF logout, TokenTypeOK
    <2>3. req' = [req EXCEPT ![r] = q]
        BY <1>4 DEF logout
    <2> HIDE DEF q
    <2> QED
        BY <1>1, <1>2, <1>4, <2>1, <2>2, <2>3, FlightCore DEF logout, TokenTypeOK
<1> QED
    BY <1>3, <1>4

\* The further statements of a request keep the token and the family it read.
LEMMA StatementCore ==
    ASSUME CoreInv, NEW r \in Requests,
           RotateWrite(r) \/ ReadBinding(r) \/ Rebind(r) \/ RevokeStart(r)
    PROVE  CoreInv'
<1> USE DEF CoreInv
<1>1. req \in [Requests -> Flight] /\ req[r] \in Flight
    BY DEF TokenTypeOK, Flight
<1>2. req[r].at # "idle"
    BY DEF RotateWrite, ReadBinding, Rebind, RevokeStart
<1>3. req[r].token \in delivered /\ req[r].family = tok[req[r].token].family /\ req[r].family \in Families
    BY <1>2, IssuedHasFamily DEF Carried, Recorded, IssuedTokens
<1>c. /\ req[r].new # NoToken <=> req[r].at \in {"bound", "rebound", "written"}
      /\ req[r].new \notin IssuedTokens
      /\ \A s \in Requests \ {r} : req[s].new = req[r].new => req[r].new = NoToken
    BY DEF Carried
<1>t. /\ binding \in [Families -> Apps \cup {NoApp}] /\ blacklist \subseteq Families
      /\ late \subseteq Tokens /\ raced \subseteq Families /\ reused \subseteq Tokens
    BY DEF TokenTypeOK
<1>4. CASE RotateWrite(r)
    <2>1. PICK t \in Tokens : /\ FreshToken(t)
                              /\ req' = [req EXCEPT ![r].new = t,
                                   ![r].at = IF family[req[r].family].aud = "app" THEN "bound" ELSE "written"]
        BY <1>4 DEF RotateWrite
    <2> DEFINE q == [[req[r] EXCEPT !.new = t] EXCEPT
                       !.at = IF family[req[r].family].aud = "app" THEN "bound" ELSE "written"]
    <2>2. /\ q \in Flight /\ q.token = req[r].token /\ q.family = req[r].family /\ q.new = t
          /\ q.at \in {"bound", "written"}
        BY <1>1 DEF Flight, Stage
    <2>3. req' = [req EXCEPT ![r] = q]
        BY <1>1, <2>1
    <2>4. t \notin IssuedTokens /\ t # NoToken /\ \A s \in Requests : req[s].new # t
        BY <2>1, TokenConstants DEF FreshToken, IssuedTokens, Reserved
    <2> HIDE DEF q
    <2> QED
        BY <1>3, <1>4, <2>2, <2>3, <2>4, FlightCore DEF RotateWrite, TokenTypeOK
<1>5. CASE ReadBinding(r)
    <2>1. CASE Reply(r)
        BY <1>5, <2>1, ReplyCore DEF ReadBinding, TokenTypeOK
    <2>2. CASE ~Reply(r)
        <3> DEFINE q == [[req[r] EXCEPT !.bound = binding[req[r].family]] EXCEPT !.at = "rebound"]
        <3>1. /\ q \in Flight /\ q.token = req[r].token /\ q.family = req[r].family
              /\ q.new = req[r].new /\ q.at = "rebound"
            BY <1>1, <1>3 DEF Flight, Stage, TokenTypeOK
        <3>2. req' = [req EXCEPT ![r] = q]
            BY <1>1, <1>5, <2>2 DEF ReadBinding
        <3>3. req[r].at = "bound"
            BY <1>5 DEF ReadBinding
        <3>4. UNCHANGED <<now, users, tok, family, delivered, binding, blacklist, late, raced, reused>>
            BY <1>5 DEF ReadBinding
        <3>5. /\ q.token \in delivered /\ q.family = tok[q.token].family
              /\ q.new # NoToken /\ q.at \in {"bound", "rebound", "written"} /\ q.new \notin IssuedTokens
              /\ \A s \in Requests \ {r} : req[s].new # q.new
            BY <1>3, <1>c, <3>1, <3>3
        <3> HIDE DEF q
        <3> QED
            BY <1>t, <3>1, <3>2, <3>4, <3>5, FlightCore
    <2> QED
        BY <2>1, <2>2
<1>6. CASE Rebind(r)
    <2> DEFINE q == [req[r] EXCEPT !.at = "written"]
    <2>1. /\ q \in Flight /\ q.token = req[r].token /\ q.family = req[r].family
          /\ q.new = req[r].new /\ q.at = "written"
        BY <1>1 DEF Flight, Stage
    <2>2. req' = [req EXCEPT ![r] = q] /\ req[r].at = "rebound"
        BY <1>6 DEF Rebind
    <2>3. binding' \in [Families -> Apps \cup {NoApp}]
        BY <1>1, <1>3, <1>6 DEF Rebind, TokenTypeOK, Flight
    <2>4. UNCHANGED <<now, users, tok, family, delivered, blacklist, late, raced, reused>>
        BY <1>6 DEF Rebind
    <2>5. /\ q.token \in delivered /\ q.family = tok[q.token].family
          /\ q.new # NoToken /\ q.at \in {"bound", "rebound", "written"} /\ q.new \notin IssuedTokens
          /\ \A s \in Requests \ {r} : req[s].new # q.new
        BY <1>3, <1>c, <2>1, <2>2
    <2> HIDE DEF q
    <2> QED
        BY <1>t, <2>1, <2>2, <2>3, <2>4, <2>5, FlightCore
<1>7. CASE RevokeStart(r)
    <2> DEFINE q == [[[req[r] EXCEPT !.at = "revoke"] EXCEPT !.rows = RowsOf(req[r].family)]
                        EXCEPT !.missed = (req[r].at = "reused")]
    <2>1. /\ q \in Flight /\ q.token = req[r].token /\ q.family = req[r].family
          /\ q.new = req[r].new /\ q.at = "revoke" /\ q.rows = RowsOf(req[r].family)
        BY <1>1 DEF Flight, Stage, RowsOf
    <2>2. req' = [req EXCEPT ![r] = q] /\ req[r].at \in {"reused", "logout"}
        BY <1>1, <1>7 DEF RevokeStart
    <2>3. UNCHANGED <<now, users, tok, family, delivered, binding, blacklist, late, raced, reused>>
        BY <1>7 DEF RevokeStart
    <2>4. req[r].token \in RowsOf(req[r].family)
        BY <1>3 DEF RowsOf, Recorded, IssuedTokens
    <2>5. /\ q.token \in delivered /\ q.family = tok[q.token].family
          /\ q.new = NoToken /\ q.at \notin {"bound", "rebound", "written"} /\ q.new \notin IssuedTokens
          /\ q.token \in q.rows /\ q.rows \subseteq RowsOf(q.family)
        BY <1>3, <1>c, <2>1, <2>2, <2>4
    <2> HIDE DEF q
    <2> QED
        BY <1>t, <2>1, <2>2, <2>3, <2>5, FlightCore
<1> QED
    BY <1>4, <1>5, <1>6, <1>7

\* The rows of a rotation: the old row is marked, the new one is added, and no
\* other row changes.
LEMMA RotatedRows ==
    ASSUME CoreInv, NEW r \in Requests, req[r].at = "written"
    PROVE  LET n == req[r].new
               t == req[r].token
           IN  /\ n \in Tokens /\ t \in IssuedTokens /\ n \notin IssuedTokens /\ n # NoToken
               /\ Rotated(r) \in [Tokens -> AuthRefreshToken \cup {NoRow}]
               /\ Rotated(r)[n] = [family |-> tok[t].family, user |-> tok[t].user, parent |-> t,
                                   replaced |-> NoToken, expires |-> tok[t].expires, revoked |-> FALSE]
               /\ Rotated(r)[n] \in AuthRefreshToken
               /\ Rotated(r)[t] = [tok[t] EXCEPT !.replaced = n]
               /\ Rotated(r)[t] \in AuthRefreshToken
               /\ \A s \in Tokens \ {n, t} : Rotated(r)[s] = tok[s]
<1> USE DEF CoreInv
<1> DEFINE n == req[r].new
           t == req[r].token
           row == [family |-> tok[t].family, user |-> tok[t].user, parent |-> t,
                   replaced |-> NoToken, expires |-> tok[t].expires, revoked |-> FALSE]
<1>1. n \in Tokens /\ n # NoToken /\ n \notin IssuedTokens /\ t \in IssuedTokens /\ t \in Tokens
    BY DEF TokenTypeOK, Carried, Recorded, IssuedTokens
<1>2. tok[t] \in AuthRefreshToken
    BY <1>1, IssuedHasFamily DEF IssuedTokens
<1>3. row \in AuthRefreshToken
    BY <1>1, <1>2 DEF AuthRefreshToken
<1>4. [tok[t] EXCEPT !.replaced = n] \in AuthRefreshToken
    BY <1>1, <1>2 DEF AuthRefreshToken
<1>5. Rotated(r) = [[tok EXCEPT ![t] = [tok[t] EXCEPT !.replaced = n]] EXCEPT ![n] = row]
    BY DEF Rotated
<1>6. t # n /\ tok \in [Tokens -> AuthRefreshToken \cup {NoRow}]
    BY <1>1 DEF TokenTypeOK
<1> HIDE DEF row, n, t
<1>7. /\ Rotated(r) \in [Tokens -> AuthRefreshToken \cup {NoRow}]
      /\ Rotated(r)[n] = row /\ Rotated(r)[t] = [tok[t] EXCEPT !.replaced = n]
      /\ \A s \in Tokens \ {n, t} : Rotated(r)[s] = tok[s]
    BY <1>1, <1>3, <1>4, <1>5, <1>6
<1> QED
    BY <1>1, <1>3, <1>4, <1>7 DEF row, n, t

\* A row of the type is not the absence of a row.
LEMMA RowIsIssued == \A row \in AuthRefreshToken : row # NoRow
BY TokenConstants DEF AuthRefreshToken, NoRow

\* The end of a refresh: either nothing is kept, or the rows of the rotation
\* appear and the new token is delivered.
LEMMA FinishEffects ==
    ASSUME CoreInv, NEW r \in Requests, FinishRefresh(r)
    PROVE  /\ req[r].at = "written" /\ Reply(r)
           /\ \/ UNCHANGED <<tok, minted, delivered, late>>
              \/ /\ tok' = Rotated(r) /\ delivered' = delivered \cup {req[r].new}
                 /\ IssuedTokens' = IssuedTokens \cup {req[r].new}
                 /\ late' = IF req[r].missed \/ req[r].token \in late THEN late \cup {req[r].new} ELSE late
                 /\ minted' = minted \cup {create_access_token(tok[req[r].token].user, req[r].family,
                                               family[req[r].family].aud, req[r].bound)}
           /\ UNCHANGED <<now, users, family, binding, blacklist, raced, reused>>
<1>1. req[r].at = "written" /\ Reply(r) /\ UNCHANGED <<now, users, family, binding, blacklist, raced, reused>>
    BY DEF FinishRefresh
<1>2. CASE UNCHANGED <<tok, minted, delivered, late>>
    BY <1>1, <1>2
<1>3. CASE ~UNCHANGED <<tok, minted, delivered, late>>
    <2>1. /\ tok' = Rotated(r) /\ delivered' = delivered \cup {req[r].new}
          /\ late' = IF req[r].missed \/ req[r].token \in late THEN late \cup {req[r].new} ELSE late
          /\ minted' = minted \cup {create_access_token(tok[req[r].token].user, req[r].family,
                                        family[req[r].family].aud, req[r].bound)}
        BY <1>3 DEF FinishRefresh, RolledBack
    <2>2. /\ req[r].new \in Tokens /\ req[r].token \in IssuedTokens
          /\ tok'[req[r].new] # NoRow /\ tok'[req[r].token] # NoRow
          /\ \A s \in Tokens \ {req[r].new, req[r].token} : tok'[s] = tok[s]
        BY <1>1, <2>1, RotatedRows, RowIsIssued
    <2>3. IssuedTokens' = IssuedTokens \cup {req[r].new}
        BY <2>2 DEF IssuedTokens, Issued
    <2> QED
        BY <1>1, <2>1, <2>3
<1> QED
    BY <1>2, <1>3

\* What a request carries when it is answered, and what the others carry.
LEMMA Answered ==
    ASSUME TokenTypeOK, NEW r \in Requests, Reply(r)
    PROVE  /\ req' \in [Requests -> Flight]
           /\ req'[r] = Idle /\ Idle.at = "idle" /\ Idle.new = NoToken
           /\ \A s \in Requests \ {r} : req'[s] = req[s]
<1>1. Idle \in Flight /\ Idle.at = "idle" /\ Idle.new = NoToken
    BY DEF Idle, Flight, Stage
<1> QED
    BY <1>1 DEF Reply, TokenTypeOK, Flight

\* The end of a refresh keeps the invariant.
LEMMA FinishCore ==
    ASSUME CoreInv, NEW r \in Requests, FinishRefresh(r)
    PROVE  CoreInv'
<1> USE DEF CoreInv
<1> DEFINE n == req[r].new
           t == req[r].token
<1>1. CASE UNCHANGED <<tok, minted, delivered, late>>
    BY <1>1, FinishEffects, ReplyCore DEF TokenTypeOK
<1>2. CASE ~UNCHANGED <<tok, minted, delivered, late>>
    <2>1. /\ req[r].at = "written" /\ Reply(r)
          /\ tok' = Rotated(r) /\ delivered' = delivered \cup {n}
          /\ IssuedTokens' = IssuedTokens \cup {n}
          /\ late' \subseteq late \cup {n}
          /\ UNCHANGED <<now, users, family, binding, blacklist, raced, reused>>
        BY <1>2, FinishEffects
    <2>2. /\ n \in Tokens /\ t \in IssuedTokens /\ n \notin IssuedTokens /\ n # NoToken
          /\ tok' \in [Tokens -> AuthRefreshToken \cup {NoRow}]
          /\ tok'[n].family = tok[t].family
          /\ \A s \in IssuedTokens : tok'[s].family = tok[s].family
        <3>1. tok[t] \in AuthRefreshToken
            BY <2>1, IssuedHasFamily DEF Carried, Recorded, IssuedTokens
        <3>2. [tok[t] EXCEPT !.replaced = n].family = tok[t].family
            BY <3>1 DEF AuthRefreshToken
        <3>3. /\ n \in Tokens /\ t \in IssuedTokens /\ n \notin IssuedTokens /\ n # NoToken
              /\ tok' \in [Tokens -> AuthRefreshToken \cup {NoRow}]
              /\ tok'[n] = [family |-> tok[t].family, user |-> tok[t].user, parent |-> t,
                            replaced |-> NoToken, expires |-> tok[t].expires, revoked |-> FALSE]
              /\ tok'[t] = [tok[t] EXCEPT !.replaced = n]
              /\ \A s \in Tokens \ {n, t} : tok'[s] = tok[s]
            BY <2>1, RotatedRows
        <3> HIDE DEF n, t
        <3>4. tok'[n].family = tok[t].family
            BY <3>3
        <3>5. tok'[t].family = tok[t].family
            BY <3>2, <3>3
        <3>6. \A s \in IssuedTokens : s \in Tokens /\ s # n
            BY <3>3 DEF IssuedTokens
        <3> QED
            BY <3>3, <3>4, <3>5, <3>6
    <2>3. TokenTypeOK'
        BY <2>1, <2>2, Answered DEF TokenTypeOK, Flight
    <2>4. Recorded'
        BY <2>1, <2>2 DEF Recorded
    <2>5. Carried'
        <3>1. \A s \in Requests \ {r} : req'[s] = req[s] /\ req[s].new # n
            BY <2>1, <2>2, Answered DEF Carried
        <3>2. req'[r].at = "idle" /\ req'[r].new = NoToken /\ NoToken \notin IssuedTokens'
            BY <2>1, <2>2, Answered, TokenConstants DEF IssuedTokens
        <3>3. \A g : RowsOf(g) \subseteq RowsOf(g)'
            BY <2>1, <2>2 DEF RowsOf, IssuedTokens
        <3> QED
            BY <2>1, <2>2, <3>1, <3>2, <3>3 DEF Carried, Recorded
    <2> QED
        BY <2>3, <2>4, <2>5
<1> QED
    BY <1>1, <1>2

\* The end of a revocation: the rows it covers are revoked, no other changes,
\* and every rotation in flight has missed it.
LEMMA RevokeEffects ==
    ASSUME CoreInv, NEW r \in Requests, revoke_family(r)
    PROVE  /\ tok' = Revoked(req[r].rows) /\ tok' \in [Tokens -> AuthRefreshToken \cup {NoRow}]
           /\ IssuedTokens' = IssuedTokens
           /\ \A t \in Tokens : /\ tok'[t].family = tok[t].family
                                /\ tok'[t].replaced = tok[t].replaced
                                /\ tok'[t].revoked <=> tok[t].revoked \/ t \in req[r].rows \cap IssuedTokens
           /\ req'[r] = Idle /\ Idle.at = "idle" /\ Idle.new = NoToken
           /\ req' \in [Requests -> Flight]
           /\ \A s \in Requests \ {r} :
                 /\ req'[s] = IF s \in InFlight(req[r].family) THEN [req[s] EXCEPT !.missed = TRUE] ELSE req[s]
                 /\ req'[s].at = req[s].at /\ req'[s].token = req[s].token
                 /\ req'[s].family = req[s].family /\ req'[s].new = req[s].new
                 /\ req'[s].rows = req[s].rows /\ req'[s].bound = req[s].bound
<1> USE DEF CoreInv
<1>1. req \in [Requests -> Flight]
    BY DEF TokenTypeOK, Flight
<1>2. req[r].at = "revoke" /\ tok' = Revoked(req[r].rows)
      /\ req' = [MissedRevocation(req[r].family) EXCEPT ![r] = Idle]
    BY DEF revoke_family
<1>3. req[r].rows \subseteq IssuedTokens
    BY <1>2 DEF Carried, RowsOf, IssuedTokens
<1>4. \A t \in IssuedTokens : tok[t] \in AuthRefreshToken /\ [tok[t] EXCEPT !.revoked = TRUE] \in AuthRefreshToken
    BY IssuedHasFamily DEF IssuedTokens, AuthRefreshToken
<1>5. \A t \in Tokens : tok'[t] = IF t \in req[r].rows THEN [tok[t] EXCEPT !.revoked = TRUE] ELSE tok[t]
    BY <1>2 DEF Revoked
<1>6. tok' \in [Tokens -> AuthRefreshToken \cup {NoRow}]
    BY <1>2, <1>3, <1>4 DEF Revoked, TokenTypeOK
<1>7. IssuedTokens' = IssuedTokens
    BY <1>3, <1>4, <1>5, RowIsIssued DEF IssuedTokens, Issued
<1>8. \A t \in Tokens : /\ tok'[t].family = tok[t].family
                        /\ tok'[t].replaced = tok[t].replaced
                        /\ tok'[t].revoked <=> tok[t].revoked \/ t \in req[r].rows \cap IssuedTokens
    BY <1>3, <1>4, <1>5 DEF AuthRefreshToken
<1>9. Idle \in Flight /\ Idle.at = "idle" /\ Idle.new = NoToken
    BY DEF Idle, Flight, Stage
<1>10. \A s \in Requests : /\ [req[s] EXCEPT !.missed = TRUE] \in Flight
                           /\ [req[s] EXCEPT !.missed = TRUE].at = req[s].at
                           /\ [req[s] EXCEPT !.missed = TRUE].token = req[s].token
                           /\ [req[s] EXCEPT !.missed = TRUE].family = req[s].family
                           /\ [req[s] EXCEPT !.missed = TRUE].new = req[s].new
                           /\ [req[s] EXCEPT !.missed = TRUE].rows = req[s].rows
                           /\ [req[s] EXCEPT !.missed = TRUE].bound = req[s].bound
    BY <1>1 DEF Flight
<1>11. MissedRevocation(req[r].family) \in [Requests -> Flight]
    BY <1>1, <1>10 DEF MissedRevocation
<1>12. /\ req'[r] = Idle /\ req' \in [Requests -> Flight]
       /\ \A s \in Requests \ {r} :
             req'[s] = IF s \in InFlight(req[r].family) THEN [req[s] EXCEPT !.missed = TRUE] ELSE req[s]
    BY <1>2, <1>9, <1>11 DEF MissedRevocation
<1>13. ASSUME NEW s \in Requests \ {r}
       PROVE  /\ req'[s].at = req[s].at /\ req'[s].token = req[s].token
              /\ req'[s].family = req[s].family /\ req'[s].new = req[s].new
              /\ req'[s].rows = req[s].rows /\ req'[s].bound = req[s].bound
    <2>1. CASE s \in InFlight(req[r].family)
        BY <1>10, <1>12, <2>1
    <2>2. CASE s \notin InFlight(req[r].family)
        BY <1>12, <2>2
    <2> QED
        BY <2>1, <2>2
<1> QED
    BY <1>2, <1>6, <1>7, <1>8, <1>9, <1>12, <1>13, Zenon

\* A revocation keeps the invariant.
LEMMA RevokeCore ==
    ASSUME CoreInv, NEW r \in Requests, revoke_family(r)
    PROVE  CoreInv'
<1> USE DEF CoreInv
<1>1. UNCHANGED <<now, users, family, binding, blacklist, delivered, minted, raced>>
    BY DEF revoke_family
<1>2. late' \subseteq Tokens /\ reused' \subseteq Tokens
    BY DEF revoke_family, TokenTypeOK, RowsOf, Carried, Recorded, IssuedTokens
<1>3. TokenTypeOK'
    BY <1>1, <1>2, RevokeEffects DEF TokenTypeOK, Flight
<1>4. Recorded'
    BY <1>1, RevokeEffects DEF Recorded, IssuedTokens
<1>5. \A g : RowsOf(g)' = RowsOf(g)
    BY RevokeEffects DEF RowsOf, IssuedTokens
<1>6. Carried'
    <2>1. /\ req'[r].at = "idle" /\ req'[r].new = NoToken
          /\ \A s \in Requests \ {r} :
                /\ req'[s].at = req[s].at /\ req'[s].token = req[s].token
                /\ req'[s].family = req[s].family /\ req'[s].new = req[s].new
                /\ req'[s].rows = req[s].rows
          /\ IssuedTokens' = IssuedTokens
          /\ \A t \in Tokens : tok'[t].family = tok[t].family
        BY RevokeEffects
    <2>2. delivered \subseteq Tokens /\ NoToken \notin IssuedTokens
        BY TokenConstants DEF Recorded, IssuedTokens
    <2>3. \A s \in Requests : req'[s].at # "idle" =>
              req'[s].token \in delivered' /\ req'[s].family = tok'[req'[s].token].family
        BY <1>1, <2>1, <2>2 DEF Carried
    <2>4. \A s \in Requests : /\ req'[s].new # NoToken <=> req'[s].at \in {"bound", "rebound", "written"}
                              /\ req'[s].new \notin IssuedTokens'
        BY <2>1, <2>2 DEF Carried
    <2>5. \A s, q \in Requests : s # q /\ req'[s].new = req'[q].new => req'[s].new = NoToken
        BY <2>1 DEF Carried
    <2>6. \A s \in Requests : req'[s].at = "revoke" =>
              req'[s].token \in req'[s].rows /\ req'[s].rows \subseteq RowsOf(req[s].family)'
        BY <1>5, <2>1 DEF Carried
    <2> QED
        BY <2>3, <2>4, <2>5, <2>6 DEF Carried
<1> QED
    BY <1>3, <1>4, <1>6

\* The invariant about rows and requests is inductive.
LEMMA NextCore == CoreInv /\ [TokenNext]_tokenVars => CoreInv'
<1> SUFFICES ASSUME CoreInv, [TokenNext]_tokenVars PROVE CoreInv'
    OBVIOUS
<1>1. ASSUME NEW r \in Requests, Abort(r) PROVE CoreInv'
    BY <1>1, ReplyCore DEF Abort, RolledBack, CoreInv, TokenTypeOK
<1>2. ASSUME users' \in [Users -> AuthUser], now' \in 0..MaxTime,
             UNCHANGED <<tok, family, binding, blacklist, delivered, minted, req, late, raced, reused>>
      PROVE  CoreInv'
    BY <1>2 DEF CoreInv, TokenTypeOK, Recorded, Carried, IssuedTokens, Issued, RowsOf
<1>3. TokenTypeOK
    BY DEF CoreInv
<1> QED
    BY <1>1, <1>2, <1>3, Steps, LoginCore, ReadCore, StatementCore, FinishCore, RevokeCore

-----------------------------------------------------------------------------
(* The steps by what they do to rows and rotations.                        *)

Rotating == {"rotate", "bound", "rebound", "written"}

\* Every rotation of the next state is one of this state, with the same token
\* and family and the same knowledge of a revocation.
RotationsKept ==
    \A r \in Requests : req'[r].at \in Rotating =>
        /\ req[r].at \in Rotating /\ req'[r].token = req[r].token
        /\ req'[r].family = req[r].family /\ req'[r].missed = req[r].missed

\* A login, as a step of any audience.
Login == \E u \in Users, aud \in {"admin", "app"}, app \in Apps \cup {NoApp} :
            StartFamily(u, aud, app) /\ (aud = "admin" => app = NoApp)

\* A step that changes no row, no recorded family and no history.
Quiet == UNCHANGED <<tok, family, delivered, minted, late, raced, reused>> /\ RotationsKept

\* Answering a request, writing the new row id, reading or writing the binding
\* and starting a revocation begin no rotation.
LEMMA QuietRequest ==
    ASSUME CoreInv, NEW r \in Requests,
           \/ RotateWrite(r) \/ ReadBinding(r) \/ Rebind(r) \/ Abort(r) \/ RevokeStart(r)
           \/ \E t \in Tokens : logout(r, t)
    PROVE  Quiet
<1>1. req \in [Requests -> Flight] /\ req[r] \in Flight
    BY DEF CoreInv, TokenTypeOK, Flight
<1>2. UNCHANGED <<tok, family, delivered, minted, late, raced, reused>>
    BY DEF RotateWrite, ReadBinding, Rebind, Abort, RevokeStart, logout, RolledBack
<1>3. \A s \in Requests \ {r} : req'[s] = req[s]
    BY <1>1 DEF RotateWrite, ReadBinding, Rebind, Abort, RevokeStart, logout, Reply
<1>4. \/ req'[r].at \notin Rotating
      \/ /\ req[r].at \in Rotating /\ req'[r].token = req[r].token
         /\ req'[r].family = req[r].family /\ req'[r].missed = req[r].missed
    <2>1. Idle.at \notin Rotating /\ "idle" \notin Rotating /\ "revoke" \notin Rotating /\ "logout" \notin Rotating
        BY DEF Idle, Rotating
    <2>2. CASE RotateWrite(r)
        <3>1. PICK t : req' = [req EXCEPT ![r].new = t,
                                 ![r].at = IF family[req[r].family].aud = "app" THEN "bound" ELSE "written"]
            BY <2>2 DEF RotateWrite
        <3> DEFINE q == [[req[r] EXCEPT !.new = t] EXCEPT !.at =
                            IF family[req[r].family].aud = "app" THEN "bound" ELSE "written"]
        <3>2. req'[r] = q
            BY <1>1, <3>1
        <3>3. q.token = req[r].token /\ q.family = req[r].family /\ q.missed = req[r].missed
            BY <1>1 DEF Flight
        <3>4. req[r].at \in Rotating
            BY <2>2 DEF RotateWrite, Rotating
        <3> HIDE DEF q
        <3> QED
            BY <3>2, <3>3, <3>4
    <2>3. CASE ReadBinding(r)
        BY <1>1, <2>1, <2>3 DEF ReadBinding, Reply, Rotating, Flight
    <2>4. CASE Rebind(r)
        BY <1>1, <2>4 DEF Rebind, Rotating, Flight
    <2>5. CASE Abort(r)
        BY <1>1, <2>1, <2>5 DEF Abort, Reply
    <2>6. CASE RevokeStart(r)
        BY <1>1, <2>1, <2>6 DEF RevokeStart, Flight
    <2>7. CASE \E t \in Tokens : logout(r, t)
        BY <1>1, <2>1, <2>7 DEF logout, Idle
    <2> QED
        BY <2>2, <2>3, <2>4, <2>5, <2>6, <2>7
<1> QED
    BY <1>2, <1>3, <1>4 DEF Quiet, RotationsKept

\* Besides the quiet steps only a login, the start and the end of a rotation
\* and the end of a revocation matter to the rows.
LEMMA RowSteps ==
    ASSUME CoreInv, [TokenNext]_tokenVars
    PROVE  \/ Login
           \/ \E r \in Requests, t \in Tokens, app \in Apps : RotateRead(r, t, app)
           \/ \E r \in Requests : FinishRefresh(r)
           \/ \E r \in Requests : revoke_family(r)
           \/ Quiet
<1>1. TokenTypeOK
    BY DEF CoreInv
<1>2. ASSUME NEW u \in Users,
             StartFamily(u, "admin", NoApp) \/ \E app \in Apps : StartFamily(u, "app", app)
      PROVE  Login
    BY <1>2 DEF Login
<1>3. ASSUME UNCHANGED <<tok, family, binding, blacklist, delivered, minted, req, late, raced, reused>>
      PROVE  Quiet
    BY <1>3 DEF Quiet, RotationsKept
<1> QED
    BY <1>1, <1>2, <1>3, Steps, QuietRequest

\* What a login does to rows: a row in a family that had none is added.
LEMMA LoginRows ==
    ASSUME CoreInv, Login
    PROVE  \E f \in Families, t \in Tokens :
              /\ family[f] = NoFamilyYet /\ t \notin IssuedTokens
              /\ tok'[t].family = f /\ ~tok'[t].revoked /\ tok'[t].replaced = NoToken
              /\ IssuedTokens' = IssuedTokens \cup {t}
              /\ \A s \in Tokens \ {t} : tok'[s] = tok[s]
              /\ \A s \in IssuedTokens : tok[s].family # f
              /\ \A r \in Requests : req[r].at # "idle" => req[r].family # f
              /\ delivered \subseteq delivered'
              /\ UNCHANGED <<req, late, raced, reused>>
<1> USE DEF CoreInv
<1>1. PICK u \in Users, f \in Families, t \in Tokens :
              /\ family[f] = NoFamilyYet /\ ~Issued(t)
              /\ tok' = [tok EXCEPT ![t] = NewRow(u, f)]
              /\ delivered' = delivered \cup {t}
              /\ UNCHANGED <<now, blacklist, req, late, raced, reused>>
    BY LoginEffects DEF Login
<1>2. /\ NewRow(u, f) \in AuthRefreshToken /\ NewRow(u, f).family = f
      /\ ~NewRow(u, f).revoked /\ NewRow(u, f).replaced = NoToken
    BY TokenConstants DEF NewRow, AuthRefreshToken, TokenTypeOK
<1>3. tok'[t] = NewRow(u, f) /\ \A s \in Tokens \ {t} : tok'[s] = tok[s]
    BY <1>1 DEF TokenTypeOK
<1>4. IssuedTokens' = IssuedTokens \cup {t} /\ t \notin IssuedTokens
    BY <1>1, <1>2, <1>3, RowIsIssued DEF IssuedTokens, Issued
<1>5. \A s \in IssuedTokens : tok[s].family # f
    BY <1>1 DEF Recorded
<1>6. \A r \in Requests : req[r].at # "idle" => req[r].family # f
    BY <1>5 DEF Carried, Recorded
<1> QED
    BY <1>1, <1>2, <1>3, <1>4, <1>5, <1>6

\* What the end of a refresh does to rows, if it keeps anything.
LEMMA FinishRows ==
    ASSUME CoreInv, NEW r \in Requests, FinishRefresh(r)
    PROVE  LET n == req[r].new
               t == req[r].token
           IN  /\ req[r].at = "written" /\ RotationsKept /\ req'[r].at = "idle"
               /\ UNCHANGED <<raced, reused, family, binding>>
               /\ \/ UNCHANGED <<tok, delivered, late, minted>>
                  \/ /\ n \in Tokens \ IssuedTokens /\ t \in IssuedTokens /\ n # NoToken
                     /\ IssuedTokens' = IssuedTokens \cup {n}
                     /\ delivered' = delivered \cup {n}
                     /\ late \subseteq late' /\ (req[r].missed \/ t \in late => n \in late')
                     /\ tok'[n].family = req[r].family /\ ~tok'[n].revoked /\ tok'[n].replaced = NoToken
                     /\ tok'[t].replaced = n
                     /\ \A s \in IssuedTokens : tok'[s].family = tok[s].family /\ tok'[s].revoked = tok[s].revoked
                     /\ \A s \in Tokens \ {n, t} : tok'[s] = tok[s]
<1> USE DEF CoreInv
<1> DEFINE n == req[r].new
           t == req[r].token
<1>1. /\ req[r].at = "written" /\ Reply(r) /\ UNCHANGED <<raced, reused, family, binding>>
    BY FinishEffects
<1>2. RotationsKept /\ req'[r].at = "idle"
    BY <1>1, Answered DEF RotationsKept, Rotating
<1>3. ASSUME ~UNCHANGED <<tok, delivered, late, minted>>
      PROVE  /\ n \in Tokens \ IssuedTokens /\ t \in IssuedTokens /\ n # NoToken
             /\ IssuedTokens' = IssuedTokens \cup {n}
             /\ delivered' = delivered \cup {n}
             /\ late \subseteq late' /\ (req[r].missed \/ t \in late => n \in late')
             /\ tok'[n].family = req[r].family /\ ~tok'[n].revoked /\ tok'[n].replaced = NoToken
             /\ tok'[t].replaced = n
             /\ \A s \in IssuedTokens : tok'[s].family = tok[s].family /\ tok'[s].revoked = tok[s].revoked
             /\ \A s \in Tokens \ {n, t} : tok'[s] = tok[s]
    <2>1. /\ tok' = Rotated(r) /\ delivered' = delivered \cup {n} /\ IssuedTokens' = IssuedTokens \cup {n}
          /\ late' = IF req[r].missed \/ t \in late THEN late \cup {n} ELSE late
        BY <1>3, FinishEffects
    <2>2. /\ n \in Tokens /\ t \in IssuedTokens /\ n \notin IssuedTokens /\ n # NoToken
          /\ tok'[n] = [family |-> tok[t].family, user |-> tok[t].user, parent |-> t,
                        replaced |-> NoToken, expires |-> tok[t].expires, revoked |-> FALSE]
          /\ tok'[t] = [tok[t] EXCEPT !.replaced = n]
          /\ \A s \in Tokens \ {n, t} : tok'[s] = tok[s]
        BY <1>1, <2>1, RotatedRows
    <2>3. tok[t] \in AuthRefreshToken
        BY <2>2, IssuedHasFamily DEF IssuedTokens
    <2>4. /\ [tok[t] EXCEPT !.replaced = n].family = tok[t].family
          /\ [tok[t] EXCEPT !.replaced = n].revoked = tok[t].revoked
          /\ [tok[t] EXCEPT !.replaced = n].replaced = n
        BY <2>3 DEF AuthRefreshToken
    <2>5. tok[t].family = req[r].family
        BY <1>1 DEF Carried
    <2> HIDE DEF n, t
    <2>6. tok'[n].family = tok[t].family /\ ~tok'[n].revoked /\ tok'[n].replaced = NoToken
        BY <2>2
    <2>7. tok'[t].family = tok[t].family /\ tok'[t].revoked = tok[t].revoked /\ tok'[t].replaced = n
        BY <2>2, <2>4
    <2>8. \A s \in IssuedTokens : s \in Tokens /\ s # n
        BY <2>2 DEF IssuedTokens
    <2>9. \A s \in IssuedTokens : tok'[s].family = tok[s].family /\ tok'[s].revoked = tok[s].revoked
        BY <2>2, <2>7, <2>8
    <2>10. late \subseteq late' /\ (req[r].missed \/ t \in late => n \in late')
        BY <2>1
    <2> QED
        BY <2>1, <2>2, <2>5, <2>6, <2>7, <2>9, <2>10
<1> HIDE DEF n, t
<1> QED
    BY <1>1, <1>2, <1>3 DEF n, t

-----------------------------------------------------------------------------
(* A replaced token has a successor that a client holds.                   *)

\* No step replaces a token without delivering its successor.
LEMMA NextReplaced == CoreInv /\ ReplacedTokenHasHolder /\ [TokenNext]_tokenVars => ReplacedTokenHasHolder'
<1> SUFFICES ASSUME CoreInv, ReplacedTokenHasHolder, [TokenNext]_tokenVars PROVE ReplacedTokenHasHolder'
    OBVIOUS
<1>0. \A t \in IssuedTokens : tok[t].replaced # NoToken =>
          tok[t].replaced \in delivered /\ tok[t].replaced \in IssuedTokens
    BY DEF ReplacedTokenHasHolder, IssuedTokens, CoreInv, Recorded
<1> SUFFICES \A t \in IssuedTokens' : tok'[t].replaced # NoToken =>
                 tok'[t].replaced \in delivered' /\ tok'[t].replaced \in IssuedTokens'
    BY DEF ReplacedTokenHasHolder, IssuedTokens
<1>1. CASE Login
    BY <1>0, <1>1, LoginRows DEF IssuedTokens
<1>2. ASSUME NEW r \in Requests, FinishRefresh(r)
      PROVE  \A t \in IssuedTokens' : tok'[t].replaced # NoToken =>
                 tok'[t].replaced \in delivered' /\ tok'[t].replaced \in IssuedTokens'
    <2>1. CASE UNCHANGED <<tok, delivered, late, minted>>
        BY <1>0, <2>1 DEF IssuedTokens, Issued
    <2>2. CASE ~UNCHANGED <<tok, delivered, late, minted>>
        BY <1>0, <1>2, <2>2, FinishRows DEF IssuedTokens
    <2> QED
        BY <2>1, <2>2
<1>3. ASSUME NEW r \in Requests, revoke_family(r)
      PROVE  \A t \in IssuedTokens' : tok'[t].replaced # NoToken =>
                 tok'[t].replaced \in delivered' /\ tok'[t].replaced \in IssuedTokens'
    <2>1. delivered' = delivered
        BY <1>3 DEF revoke_family
    <2>2. IssuedTokens' = IssuedTokens /\ \A t \in Tokens : tok'[t].replaced = tok[t].replaced
        BY <1>3, RevokeEffects
    <2> QED
        BY <1>0, <2>1, <2>2 DEF IssuedTokens
<1>4. ASSUME UNCHANGED <<tok, delivered>>
      PROVE  \A t \in IssuedTokens' : tok'[t].replaced # NoToken =>
                 tok'[t].replaced \in delivered' /\ tok'[t].replaced \in IssuedTokens'
    BY <1>0, <1>4 DEF IssuedTokens, Issued
<1>5. ASSUME NEW r \in Requests, NEW t \in Tokens, NEW app \in Apps, RotateRead(r, t, app)
      PROVE  UNCHANGED <<tok, delivered>>
    BY <1>5 DEF RotateRead
<1> QED
    BY <1>1, <1>2, <1>3, <1>4, <1>5, RowSteps DEF Quiet

-----------------------------------------------------------------------------
(* A token answered "reused" is revoked for good.                          *)

\* No step revives a revoked row.
LEMMA NextReused == CoreInv /\ ReuseIsRevoked /\ [TokenNext]_tokenVars => ReuseIsRevoked'
<1> SUFFICES ASSUME CoreInv, ReuseIsRevoked, [TokenNext]_tokenVars PROVE ReuseIsRevoked'
    OBVIOUS
<1>0. \A t \in reused : t \in IssuedTokens /\ t \in Tokens /\ tok[t].revoked
    BY IssuedHasFamily DEF ReuseIsRevoked, IssuedTokens, CoreInv, TokenTypeOK
<1>1. CASE Login
    BY <1>0, <1>1, LoginRows DEF ReuseIsRevoked
<1>2. ASSUME NEW r \in Requests, FinishRefresh(r) PROVE ReuseIsRevoked'
    <2>1. reused' = reused /\ \A s \in IssuedTokens : tok'[s].revoked = tok[s].revoked
        BY <1>2, FinishRows
    <2> QED
        BY <1>0, <2>1 DEF ReuseIsRevoked
<1>3. ASSUME NEW r \in Requests, revoke_family(r) PROVE ReuseIsRevoked'
    <2>1. reused' \subseteq reused \cup {req[r].token} /\ req[r].at = "revoke"
        BY <1>3 DEF revoke_family
    <2>2. req[r].token \in req[r].rows \cap IssuedTokens /\ req[r].token \in Tokens
        BY <2>1 DEF CoreInv, Carried, RowsOf, IssuedTokens
    <2>3. \A t \in Tokens : tok'[t].revoked <=> tok[t].revoked \/ t \in req[r].rows \cap IssuedTokens
        BY <1>3, RevokeEffects
    <2> QED
        BY <1>0, <2>1, <2>2, <2>3 DEF ReuseIsRevoked
<1>4. ASSUME UNCHANGED <<tok, reused>> PROVE ReuseIsRevoked'
    BY <1>4 DEF ReuseIsRevoked
<1>5. ASSUME NEW r \in Requests, NEW t \in Tokens, NEW app \in Apps, RotateRead(r, t, app)
      PROVE  UNCHANGED <<tok, reused>>
    BY <1>5 DEF RotateRead
<1> QED
    BY <1>1, <1>2, <1>3, <1>4, <1>5, RowSteps DEF Quiet

-----------------------------------------------------------------------------
(* A revocation reaches the family.                                        *)

\* A rotation in flight in a family that has a revoked row missed the
\* revocation, or goes on from a token that had missed one.
RotationKnows ==
    \A r \in Requests : req[r].at \in Rotating =>
        \A s \in IssuedTokens : tok[s].family = req[r].family /\ tok[s].revoked =>
            req[r].missed \/ req[r].token \in late

\* The property, over the rows that exist.
ReachesIssued ==
    \A s, t \in IssuedTokens : tok[s].family = tok[t].family /\ tok[s].revoked /\ ~tok[t].revoked => t \in late

RevocationInv == RotationKnows /\ ReachesIssued

\* Logins keep it: the new row is alone in its family.
LEMMA LoginRevocation == ASSUME CoreInv, RevocationInv, Login PROVE RevocationInv'
<1>1. PICK f \in Families, t \in Tokens :
              /\ t \notin IssuedTokens /\ tok'[t].family = f /\ ~tok'[t].revoked
              /\ IssuedTokens' = IssuedTokens \cup {t}
              /\ \A s \in Tokens \ {t} : tok'[s] = tok[s]
              /\ \A s \in IssuedTokens : tok[s].family # f
              /\ UNCHANGED <<req, late>>
    BY LoginRows
<1>2. \A s \in IssuedTokens : tok'[s] = tok[s]
    BY <1>1 DEF IssuedTokens
<1>3. RotationKnows'
    BY <1>1, <1>2 DEF RevocationInv, RotationKnows
<1>4. ReachesIssued'
    BY <1>1, <1>2 DEF RevocationInv, ReachesIssued
<1> QED
    BY <1>3, <1>4 DEF RevocationInv

\* The start of a rotation keeps it: its token is not revoked, so it is late if
\* its family has a revoked row.
LEMMA ReadRevocation ==
    ASSUME CoreInv, RevocationInv, NEW r \in Requests, NEW t \in Tokens, NEW app \in Apps, RotateRead(r, t, app)
    PROVE  RevocationInv'
<1>1. t \in IssuedTokens /\ ~tok[t].revoked /\ UNCHANGED <<tok, late>>
    BY DEF RotateRead, Usable, CoreInv, Recorded
<1>2. IssuedTokens' = IssuedTokens
    BY <1>1 DEF IssuedTokens, Issued
<1>3. ReachesIssued'
    BY <1>1, <1>2 DEF RevocationInv, ReachesIssued
<1>4. req'[r].token = t /\ req'[r].family = tok[t].family /\ \A s \in Requests \ {r} : req'[s] = req[s]
    BY DEF RotateRead, CoreInv, TokenTypeOK, Idle
<1>5. RotationKnows'
    BY <1>1, <1>2, <1>4 DEF RevocationInv, RotationKnows, ReachesIssued
<1> QED
    BY <1>3, <1>5 DEF RevocationInv

\* The end of a refresh keeps it: the row of a rotation that missed a
\* revocation is late.
LEMMA FinishRevocation ==
    ASSUME CoreInv, RevocationInv, NEW r \in Requests, FinishRefresh(r)
    PROVE  RevocationInv'
<1> DEFINE n == req[r].new
<1>1. RotationsKept /\ req[r].at \in Rotating
    BY FinishRows DEF Rotating
<1>2. CASE UNCHANGED <<tok, delivered, late, minted>>
    BY <1>1, <1>2 DEF RevocationInv, RotationKnows, ReachesIssued, RotationsKept, IssuedTokens, Issued
<1>3. CASE ~UNCHANGED <<tok, delivered, late, minted>>
    <2>1. /\ n \notin IssuedTokens /\ IssuedTokens' = IssuedTokens \cup {n}
          /\ late \subseteq late' /\ (req[r].missed \/ req[r].token \in late => n \in late')
          /\ tok'[n].family = req[r].family /\ ~tok'[n].revoked
          /\ \A s \in IssuedTokens : tok'[s].family = tok[s].family /\ tok'[s].revoked = tok[s].revoked
        BY <1>3, FinishRows
    <2> HIDE DEF n
    <2>2. RotationKnows'
        BY <1>1, <2>1 DEF RevocationInv, RotationKnows, RotationsKept
    <2>3. ReachesIssued'
        BY <1>1, <2>1 DEF RevocationInv, RotationKnows, ReachesIssued
    <2> QED
        BY <2>2, <2>3 DEF RevocationInv
<1> QED
    BY <1>2, <1>3

\* The end of a revocation keeps it: rows of the family that it does not cover
\* become late, rotations in flight have missed it.
LEMMA RevokeRevocation ==
    ASSUME CoreInv, RevocationInv, NEW r \in Requests, revoke_family(r)
    PROVE  RevocationInv'
<1> DEFINE f == req[r].family
<1>1. /\ req[r].at = "revoke" /\ late' = late \cup (RowsOf(f) \ req[r].rows)
    BY DEF revoke_family
<1>2. req[r].rows \subseteq RowsOf(f)
    BY <1>1 DEF CoreInv, Carried
<1>3. /\ IssuedTokens' = IssuedTokens
      /\ \A t \in Tokens : /\ tok'[t].family = tok[t].family
                           /\ tok'[t].revoked <=> tok[t].revoked \/ t \in req[r].rows \cap IssuedTokens
      /\ req'[r] = Idle /\ Idle.at = "idle"
      /\ \A s \in Requests \ {r} :
            /\ req'[s] = IF s \in InFlight(req[r].family) THEN [req[s] EXCEPT !.missed = TRUE] ELSE req[s]
            /\ req'[s].at = req[s].at /\ req'[s].token = req[s].token /\ req'[s].family = req[s].family
    BY RevokeEffects
<1>4. \A t : t \in RowsOf(f) <=> t \in IssuedTokens /\ tok[t].family = f
    BY DEF RowsOf, IssuedTokens
<1>5. \A t \in IssuedTokens : t \in Tokens
    BY DEF IssuedTokens
<1>6. ReachesIssued'
    BY <1>1, <1>2, <1>3, <1>4, <1>5 DEF RevocationInv, ReachesIssued
<1>7. ASSUME NEW q \in Requests, req'[q].at \in Rotating, NEW s \in IssuedTokens,
             tok'[s].family = req'[q].family, tok'[s].revoked
      PROVE  req'[q].missed \/ req'[q].token \in late'
    <2>1. q # r /\ req[q].at \in Rotating /\ req'[q].token = req[q].token /\ req'[q].family = req[q].family
        BY <1>3, <1>7 DEF Rotating
    <2>2. CASE req[q].family = f
        <3>1. q \in InFlight(f)
            BY <2>1, <2>2 DEF InFlight, Rotating
        <3>2. [req[q] EXCEPT !.missed = TRUE].missed
            BY DEF CoreInv, TokenTypeOK
        <3> QED
            BY <1>3, <2>1, <3>1, <3>2
    <2>3. CASE req[q].family # f
        <3>1. q \notin InFlight(f)
            BY <2>3 DEF InFlight
        <3>2. req'[q] = req[q]
            BY <1>3, <2>1, <3>1
        <3>3. tok[s].family = req[q].family /\ tok[s].revoked
            BY <1>2, <1>3, <1>4, <1>5, <1>7, <2>1, <2>3
        <3> QED
            BY <1>1, <2>1, <3>2, <3>3 DEF RevocationInv, RotationKnows
    <2> QED
        BY <2>2, <2>3
<1>8. RotationKnows'
    BY <1>3, <1>7 DEF RotationKnows
<1> QED
    BY <1>6, <1>8 DEF RevocationInv

\* The invariant about revocation is inductive.
LEMMA NextRevocation == CoreInv /\ RevocationInv /\ [TokenNext]_tokenVars => RevocationInv'
<1> SUFFICES ASSUME CoreInv, RevocationInv, [TokenNext]_tokenVars PROVE RevocationInv'
    OBVIOUS
<1>1. ASSUME Quiet PROVE RevocationInv'
    BY <1>1 DEF Quiet, RotationsKept, RevocationInv, RotationKnows, ReachesIssued, IssuedTokens, Issued
<1> QED
    BY <1>1, RowSteps, LoginRevocation, ReadRevocation, FinishRevocation, RevokeRevocation

-----------------------------------------------------------------------------
(* One live end per family.                                                *)

LiveRows(f) == {t \in IssuedTokens : tok[t].family = f /\ ~tok[t].revoked /\ tok[t].replaced = NoToken}

RotationsOf(f) == {r \in Requests : req[r].at \in Rotating /\ req[r].family = f}

\* In a family whose rotations never overlapped there is at most one live row,
\* at most one rotation, and a live row is the one the rotation replaces.
OneEnd ==
    \A f \in Families \ raced :
        /\ \A s, t \in LiveRows(f) : s = t
        /\ \A r, q \in RotationsOf(f) : r = q
        /\ \A r \in RotationsOf(f), t \in LiveRows(f) : t = req[r].token

\* A step that adds no live row and no rotation keeps it.
LEMMA FewerEnds ==
    ASSUME OneEnd, raced' = raced,
           \A f \in Families \ raced : LiveRows(f)' \subseteq LiveRows(f),
           \A r \in Requests : req'[r].at \in Rotating =>
               req[r].at \in Rotating /\ req'[r].token = req[r].token /\ req'[r].family = req[r].family
    PROVE  OneEnd'
<1>1. ASSUME NEW f \in Families \ raced
      PROVE  RotationsOf(f)' \subseteq RotationsOf(f) /\ \A r \in RotationsOf(f)' : req'[r].token = req[r].token
    BY DEF RotationsOf
<1> QED
    BY <1>1 DEF OneEnd

\* Logins keep it: the live row of the new family has no rotation.
LEMMA LoginEnds == ASSUME CoreInv, OneEnd, Login PROVE OneEnd'
<1>1. PICK f \in Families, t \in Tokens :
              /\ t \notin IssuedTokens /\ tok'[t].family = f
              /\ IssuedTokens' = IssuedTokens \cup {t}
              /\ \A s \in Tokens \ {t} : tok'[s] = tok[s]
              /\ \A s \in IssuedTokens : tok[s].family # f
              /\ \A r \in Requests : req[r].at # "idle" => req[r].family # f
              /\ UNCHANGED <<req, raced>>
    BY LoginRows
<1>2. \A s \in IssuedTokens : tok'[s] = tok[s]
    BY <1>1 DEF IssuedTokens
<1>3. \A g \in Families \ {f} : LiveRows(g)' = LiveRows(g)
    BY <1>1, <1>2 DEF LiveRows
<1>4. LiveRows(f)' \subseteq {t}
    BY <1>1, <1>2 DEF LiveRows
<1>5. RotationsOf(f)' = {} /\ \A g : RotationsOf(g)' = RotationsOf(g)
    BY <1>1 DEF RotationsOf, Rotating
<1> QED
    BY <1>1, <1>3, <1>4, <1>5 DEF OneEnd

\* The start of a rotation keeps it: the second one of a family is what makes
\* the family raced, and the token of the first is its live row.
LEMMA ReadEnds ==
    ASSUME CoreInv, OneEnd, NEW r \in Requests, NEW t \in Tokens, NEW app \in Apps, RotateRead(r, t, app)
    PROVE  OneEnd'
<1>1. t \in IssuedTokens /\ ~tok[t].revoked /\ UNCHANGED tok /\ req[r].at = "idle"
    BY DEF RotateRead, Usable, CoreInv, Recorded
<1>2. \A f : LiveRows(f)' = LiveRows(f)
    BY <1>1 DEF LiveRows, IssuedTokens, Issued
<1>3. req'[r].token = t /\ req'[r].family = tok[t].family /\ \A s \in Requests \ {r} : req'[s] = req[s]
    BY DEF RotateRead, CoreInv, TokenTypeOK, Idle
<1>4. CASE tok[t].replaced # NoToken
    <2>1. raced' = raced /\ req'[r].at \notin Rotating
        BY <1>4 DEF RotateRead, CoreInv, TokenTypeOK, Idle, Rotating
    <2> QED
        BY <1>2, <1>3, <2>1, FewerEnds
<1>5. CASE tok[t].replaced = NoToken
    <2>0. PICK f : f = tok[t].family
        OBVIOUS
    <2>1. raced' = IF InFlight(f) # {} THEN raced \cup {f} ELSE raced
        BY <1>5, <2>0 DEF RotateRead
    <2>2. InFlight(f) = RotationsOf(f)
        BY DEF InFlight, RotationsOf, Rotating
    <2>3. t \in LiveRows(f)
        BY <1>1, <1>5, <2>0 DEF LiveRows
    <2>4. \A g \in Families \ {f} : RotationsOf(g)' \subseteq RotationsOf(g)
        BY <1>3, <2>0 DEF RotationsOf
    <2>5. RotationsOf(f)' \subseteq RotationsOf(f) \cup {r}
        BY <1>3 DEF RotationsOf
    <2>6. \A g : r \notin RotationsOf(g)
        BY <1>1 DEF RotationsOf, Rotating
    <2>7. ASSUME NEW g \in Families \ raced'
          PROVE  /\ \A a, b \in LiveRows(g)' : a = b
                 /\ \A a, b \in RotationsOf(g)' : a = b
                 /\ \A a \in RotationsOf(g)', b \in LiveRows(g)' : b = req'[a].token
        <3>1. g \in Families \ raced
            BY <2>1
        <3>2. CASE g # f
            <4>1. \A a \in RotationsOf(g)' : a \in RotationsOf(g) /\ a # r /\ a \in Requests
                BY <2>4, <2>6, <3>2 DEF RotationsOf
            <4> QED
                BY <1>2, <1>3, <3>1, <4>1 DEF OneEnd
        <3>3. CASE g = f
            <4>1. RotationsOf(f) = {}
                BY <2>1, <2>2, <3>3
            <4> QED
                BY <1>2, <1>3, <2>3, <2>5, <3>1, <3>3, <4>1 DEF OneEnd
        <3> QED
            BY <3>2, <3>3
    <2> QED
        BY <2>7 DEF OneEnd
<1> QED
    BY <1>4, <1>5

\* The end of a refresh keeps it: the row that becomes live takes the place of
\* the one that was.
LEMMA FinishEnds ==
    ASSUME CoreInv, OneEnd, NEW r \in Requests, FinishRefresh(r)
    PROVE  OneEnd'
<1> DEFINE n == req[r].new
           t == req[r].token
<1>0. PICK f : f = req[r].family
    OBVIOUS
<1>1. RotationsKept /\ req[r].at \in Rotating /\ req'[r].at \notin Rotating /\ raced' = raced
    BY FinishRows DEF Rotating
<1>2. CASE UNCHANGED <<tok, delivered, late, minted>>
    <2>1. \A g : LiveRows(g)' = LiveRows(g)
        BY <1>2 DEF LiveRows, IssuedTokens, Issued
    <2> QED
        BY <1>1, <2>1, FewerEnds DEF RotationsKept
<1>3. CASE ~UNCHANGED <<tok, delivered, late, minted>>
    <2>1. /\ n \in Tokens \ IssuedTokens /\ t \in IssuedTokens /\ n # NoToken
          /\ IssuedTokens' = IssuedTokens \cup {n}
          /\ tok'[n].family = f /\ tok'[t].replaced = n
          /\ \A s \in Tokens \ {n, t} : tok'[s] = tok[s]
        BY <1>0, <1>3, FinishRows
    <2>2. r \in RotationsOf(f)
        BY <1>0, <1>1 DEF RotationsOf
    <2> HIDE DEF n, t
    <2>3. \A s \in IssuedTokens \ {t} : tok'[s] = tok[s]
        BY <2>1 DEF IssuedTokens
    <2>4. \A g \in Families \ {f} : LiveRows(g)' \subseteq LiveRows(g)
        BY <2>1, <2>3 DEF LiveRows
    <2>5. LiveRows(f)' \subseteq (LiveRows(f) \ {t}) \cup {n}
        BY <2>1, <2>3 DEF LiveRows
    <2>6. \A g : /\ RotationsOf(g)' \subseteq RotationsOf(g) \ {r}
                 /\ \A q \in RotationsOf(g)' : req'[q].token = req[q].token
        BY <1>1 DEF RotationsOf, RotationsKept
    <2>7. ASSUME NEW g \in Families \ raced'
          PROVE  /\ \A a, b \in LiveRows(g)' : a = b
                 /\ \A a, b \in RotationsOf(g)' : a = b
                 /\ \A a \in RotationsOf(g)', b \in LiveRows(g)' : b = req'[a].token
        <3>1. CASE g # f
            <4>1. LiveRows(g)' \subseteq LiveRows(g)
                BY <2>4, <3>1
            <4> QED
                BY <1>1, <2>6, <4>1 DEF OneEnd
        <3>2. CASE g = f
            <4>1. /\ \A a \in RotationsOf(f) : a = r
                  /\ \A b \in LiveRows(f) : b = t
                BY <1>1, <2>2, <3>2 DEF OneEnd, t
            <4>2. RotationsOf(f)' = {} /\ LiveRows(f)' \subseteq {n}
                BY <2>5, <2>6, <4>1
            <4> QED
                BY <3>2, <4>2
        <3> QED
            BY <3>1, <3>2
    <2> QED
        BY <2>7 DEF OneEnd
<1> QED
    BY <1>2, <1>3

\* The invariant about live rows is inductive.
LEMMA NextEnds == CoreInv /\ OneEnd /\ [TokenNext]_tokenVars => OneEnd'
<1> SUFFICES ASSUME CoreInv, OneEnd, [TokenNext]_tokenVars PROVE OneEnd'
    OBVIOUS
<1>1. ASSUME Quiet PROVE OneEnd'
    <2>1. \A g : LiveRows(g)' = LiveRows(g)
        BY <1>1 DEF Quiet, LiveRows, IssuedTokens, Issued
    <2> QED
        BY <1>1, <2>1, FewerEnds DEF Quiet, RotationsKept
<1>2. ASSUME NEW r \in Requests, revoke_family(r) PROVE OneEnd'
    <2>1. /\ IssuedTokens' = IssuedTokens
          /\ \A t \in Tokens : /\ tok'[t].family = tok[t].family /\ tok'[t].replaced = tok[t].replaced
                               /\ tok[t].revoked => tok'[t].revoked
          /\ req'[r].at = "idle"
          /\ \A s \in Requests \ {r} :
                req'[s].at = req[s].at /\ req'[s].token = req[s].token /\ req'[s].family = req[s].family
        BY <1>2, RevokeEffects
    <2>2. \A g : LiveRows(g)' \subseteq LiveRows(g)
        BY <2>1 DEF LiveRows, IssuedTokens
    <2>3. raced' = raced
        BY <1>2 DEF revoke_family
    <2>4. \A s \in Requests : req'[s].at \in Rotating =>
              req[s].at \in Rotating /\ req'[s].token = req[s].token /\ req'[s].family = req[s].family
        BY <2>1 DEF Rotating
    <2> QED
        BY <2>2, <2>3, <2>4, FewerEnds
<1> QED
    BY <1>1, <1>2, RowSteps, LoginEnds, ReadEnds, FinishEnds

-----------------------------------------------------------------------------
(* The web app of an access token.                                         *)

\* A family without web app is an administrator's; the binding is missing or
\* the family's app; a rotation has read nothing yet or exactly that; access
\* tokens are of families that were signed in.
AppIsKept ==
    /\ \A f \in Families : family[f].aud # "app" => family[f].app = NoApp
    /\ \A f \in Families : binding[f] \in {NoApp, family[f].app}
    /\ \A r \in Requests : req[r].at \in {"rotate", "bound"} => req[r].bound = NoApp
    /\ \A r \in Requests : req[r].at \in {"rebound", "written"} => req[r].bound = family[req[r].family].app
    /\ \A a \in minted : a.family \in Families /\ family[a.family] # NoFamilyYet
    /\ AccessTokenKeepsApp

\* Logins keep it: what they record is of a family nobody has used.
LEMMA LoginApp == ASSUME CoreInv, AppIsKept, Login PROVE AppIsKept'
<1> USE DEF CoreInv
<1>1. PICK u \in Users, aud \in {"admin", "app"}, app \in Apps \cup {NoApp} :
          StartFamily(u, aud, app) /\ (aud = "admin" => app = NoApp)
    BY DEF Login
<1>2. PICK f \in Families :
              /\ family[f] = NoFamilyYet
              /\ family' = [family EXCEPT ![f] = [user |-> u, aud |-> aud, app |-> app, at |-> now]]
              /\ binding' = IF aud = "app" THEN [binding EXCEPT ![f] = app] ELSE binding
              /\ minted' = minted \cup {create_access_token(u, f, aud, app)}
              /\ UNCHANGED req
    BY <1>1, LoginEffects
<1>3. /\ family'[f].aud = aud /\ family'[f].app = app /\ family'[f] # NoFamilyYet
      /\ \A g \in Families \ {f} : family'[g] = family[g]
    BY <1>2, TokenConstants DEF TokenTypeOK, NoFamilyYet
<1>4. /\ binding'[f] \in {NoApp, app}
      /\ \A g \in Families \ {f} : binding'[g] = binding[g]
    <2>1. binding[f] = NoApp
        BY <1>2 DEF AppIsKept, NoFamilyYet
    <2> QED
        BY <1>2, <2>1 DEF TokenTypeOK
<1>5. \A r \in Requests : req[r].at # "idle" => req[r].family \in Families \ {f}
    BY <1>2, IssuedHasFamily DEF Carried, Recorded, IssuedTokens
<1>6. LET a == create_access_token(u, f, aud, app) IN a.family = f /\ a.aud = aud /\ a.azp = app
    BY DEF create_access_token
<1>7. \A a \in minted : a.family \in Families \ {f}
    BY <1>2 DEF AppIsKept
<1>8. \A g \in Families : family'[g].aud # "app" => family'[g].app = NoApp
    BY <1>1, <1>3 DEF AppIsKept
<1>9. \A g \in Families : binding'[g] \in {NoApp, family'[g].app}
    BY <1>3, <1>4 DEF AppIsKept
<1>10. /\ \A r \in Requests : req'[r].at \in {"rotate", "bound"} => req'[r].bound = NoApp
       /\ \A r \in Requests : req'[r].at \in {"rebound", "written"} => req'[r].bound = family'[req'[r].family].app
    BY <1>2, <1>3, <1>5 DEF AppIsKept
<1>11. \A a \in minted' : /\ a.family \in Families /\ family'[a.family] # NoFamilyYet
                          /\ a.aud = family'[a.family].aud /\ a.azp = family'[a.family].app
    BY <1>2, <1>3, <1>6, <1>7 DEF AppIsKept, AccessTokenKeepsApp
<1> QED
    BY <1>8, <1>9, <1>10, <1>11 DEF AppIsKept, AccessTokenKeepsApp

\* A step that records no family and mints nothing keeps it, if the requests
\* and bindings are as it says.
LEMMA RequestApp ==
    ASSUME AppIsKept, UNCHANGED <<family, minted>>,
           \A f \in Families : binding'[f] \in {NoApp, family[f].app},
           \A r \in Requests :
              /\ req'[r].at \in {"rotate", "bound"} => req'[r].bound = NoApp
              /\ req'[r].at \in {"rebound", "written"} => req'[r].bound = family[req'[r].family].app
    PROVE  AppIsKept'
BY DEF AppIsKept, AccessTokenKeepsApp

\* The steps of a request before its end keep it: the binding that is read is
\* the family's app, and what is written back is what was read.
LEMMA StatementApp ==
    ASSUME CoreInv, AppIsKept, NEW r \in Requests,
           \/ RotateWrite(r) \/ ReadBinding(r) \/ Rebind(r) \/ Abort(r) \/ RevokeStart(r)
           \/ \E t \in Tokens : logout(r, t) \/ \E app \in Apps : RotateRead(r, t, app)
    PROVE  AppIsKept'
<1>1. req \in [Requests -> Flight] /\ req[r] \in Flight /\ binding \in [Families -> Apps \cup {NoApp}]
    BY DEF CoreInv, TokenTypeOK, Flight
<1>2. UNCHANGED <<family, minted>>
    BY DEF RotateWrite, ReadBinding, Rebind, Abort, RevokeStart, logout, RotateRead
<1>3. \A s \in Requests \ {r} : req'[s] = req[s]
    BY <1>1 DEF RotateWrite, ReadBinding, Rebind, Abort, RevokeStart, logout, RotateRead, Reply
<1>4. req[r].at # "idle" => req[r].family \in Families
    BY IssuedHasFamily DEF CoreInv, Carried, Recorded, IssuedTokens
<1>5. \A f \in Families : binding'[f] \in {NoApp, family[f].app}
    <2>1. CASE Rebind(r)
        BY <1>1, <1>4, <2>1 DEF Rebind, AppIsKept
    <2>2. CASE \E t \in Tokens : logout(r, t)
        BY <1>1, <2>2 DEF logout, AppIsKept
    <2>3. CASE UNCHANGED binding
        BY <2>3 DEF AppIsKept
    <2> QED
        BY <2>1, <2>2, <2>3 DEF RotateWrite, ReadBinding, Abort, RevokeStart, RotateRead
<1>6. /\ req'[r].at \in {"rotate", "bound"} => req'[r].bound = NoApp
      /\ req'[r].at \in {"rebound", "written"} => req'[r].bound = family[req'[r].family].app
    <2>1. CASE RotateWrite(r)
        <3>1. PICK t : req' = [req EXCEPT ![r].new = t,
                                 ![r].at = IF family[req[r].family].aud = "app" THEN "bound" ELSE "written"]
            BY <2>1 DEF RotateWrite
        <3> DEFINE st == IF family[req[r].family].aud = "app" THEN "bound" ELSE "written"
                   q == [[req[r] EXCEPT !.new = t] EXCEPT !.at = st]
        <3>2. req'[r] = q
            BY <1>1, <3>1
        <3>3. q.family = req[r].family /\ q.bound = req[r].bound /\ q.at = st
            BY <1>1 DEF Flight
        <3>4. req[r].at = "rotate"
            BY <2>1 DEF RotateWrite
        <3>5. req[r].bound = NoApp /\ (st # "bound" => family[req[r].family].app = NoApp)
            BY <1>4, <3>4 DEF AppIsKept
        <3> HIDE DEF q
        <3> QED
            BY <3>2, <3>3, <3>5
    <2>2. CASE ReadBinding(r) /\ binding[req[r].family] # NoApp /\ binding[req[r].family] = req[r].app
        <3> DEFINE q == [[req[r] EXCEPT !.bound = binding[req[r].family]] EXCEPT !.at = "rebound"]
        <3>1. req'[r] = q
            BY <1>1, <2>2 DEF ReadBinding
        <3>2. q.family = req[r].family /\ q.bound = binding[req[r].family] /\ q.at = "rebound"
            BY <1>1 DEF Flight
        <3>3. binding[req[r].family] = family[req[r].family].app
            BY <1>4, <2>2 DEF ReadBinding, AppIsKept
        <3> HIDE DEF q
        <3> QED
            BY <3>1, <3>2, <3>3
    <2>3. CASE Rebind(r)
        <3> DEFINE q == [req[r] EXCEPT !.at = "written"]
        <3>1. req'[r] = q /\ req[r].at = "rebound"
            BY <1>1, <2>3 DEF Rebind
        <3>2. q.family = req[r].family /\ q.bound = req[r].bound /\ q.at = "written"
            BY <1>1 DEF Flight
        <3> HIDE DEF q
        <3> QED
            BY <3>1, <3>2 DEF AppIsKept
    <2>4. CASE Reply(r)
        BY <1>1, <2>4 DEF Reply, Idle
    <2>5. CASE RevokeStart(r)
        BY <1>1, <2>5 DEF RevokeStart, Flight
    <2>6. CASE \E t \in Tokens : logout(r, t)
        <3>1. PICK t \in Tokens : logout(r, t)
            BY <2>6
        <3> DEFINE q == [Idle EXCEPT !.at = "logout", !.token = t, !.family = tok[t].family]
        <3>2. req'[r] = q
            BY <1>1, <3>1 DEF logout
        <3>3. q.at = "logout"
            BY DEF Idle
        <3> HIDE DEF q
        <3> QED
            BY <3>2, <3>3
    <2>7. CASE \E t \in Tokens, app \in Apps : RotateRead(r, t, app)
        <3>1. PICK t \in Tokens, app \in Apps : RotateRead(r, t, app)
            BY <2>7
        <3> DEFINE st == IF tok[t].replaced # NoToken THEN "reused" ELSE "rotate"
                   q == [Idle EXCEPT !.at = st, !.token = t, !.family = tok[t].family, !.app = app]
        <3>2. req'[r] = q
            BY <1>1, <3>1 DEF RotateRead
        <3>3. q.bound = NoApp /\ q.at = st
            BY DEF Idle
        <3> HIDE DEF q
        <3> QED
            BY <3>2, <3>3
    <2> QED
        BY <2>1, <2>2, <2>3, <2>4, <2>5, <2>6, <2>7 DEF ReadBinding, Abort
<1>7. ASSUME NEW s \in Requests
      PROVE  /\ req'[s].at \in {"rotate", "bound"} => req'[s].bound = NoApp
             /\ req'[s].at \in {"rebound", "written"} => req'[s].bound = family[req'[s].family].app
    BY <1>3, <1>6 DEF AppIsKept
<1> QED
    BY <1>2, <1>5, <1>7, RequestApp

\* The invariant about web apps is inductive.
LEMMA NextApp == CoreInv /\ AppIsKept /\ [TokenNext]_tokenVars => AppIsKept'
<1> SUFFICES ASSUME CoreInv, AppIsKept, [TokenNext]_tokenVars PROVE AppIsKept'
    OBVIOUS
<1>1. ASSUME NEW r \in Requests, FinishRefresh(r) PROVE AppIsKept'
    <2> DEFINE f == req[r].family
               a == create_access_token(tok[req[r].token].user, f, family[f].aud, req[r].bound)
    <2>1. /\ req[r].at = "written" /\ Reply(r) /\ UNCHANGED <<family, binding>>
          /\ minted' \subseteq minted \cup {a}
        BY <1>1, FinishEffects
    <2>2. a.family = f /\ a.aud = family[f].aud /\ a.azp = req[r].bound
        BY DEF create_access_token
    <2>3. f \in Families /\ family[f] # NoFamilyYet /\ req[r].bound = family[f].app
        BY <2>1, IssuedHasFamily DEF CoreInv, Carried, Recorded, IssuedTokens, AppIsKept
    <2>4. /\ req'[r].at = "idle" /\ \A s \in Requests \ {r} : req'[s] = req[s]
        BY <2>1, Answered DEF CoreInv
    <2> HIDE DEF f, a
    <2> QED
        BY <2>1, <2>2, <2>3, <2>4 DEF AppIsKept, AccessTokenKeepsApp
<1>2. ASSUME NEW r \in Requests, revoke_family(r) PROVE AppIsKept'
    <2>1. UNCHANGED <<family, binding, minted>>
        BY <1>2 DEF revoke_family
    <2>2. /\ req'[r].at = "idle"
          /\ \A s \in Requests \ {r} :
                req'[s].at = req[s].at /\ req'[s].family = req[s].family /\ req'[s].bound = req[s].bound
        BY <1>2, RevokeEffects
    <2> QED
        BY <2>1, <2>2, RequestApp DEF AppIsKept
<1>3. ASSUME UNCHANGED <<family, binding, minted, req>> PROVE AppIsKept'
    BY <1>3 DEF AppIsKept, AccessTokenKeepsApp
<1>4. ASSUME NEW u \in Users,
             StartFamily(u, "admin", NoApp) \/ \E app \in Apps : StartFamily(u, "app", app)
      PROVE  Login
    BY <1>4 DEF Login
<1>5. TokenTypeOK
    BY DEF CoreInv
<1> QED
    BY <1>1, <1>2, <1>3, <1>4, <1>5, Steps, LoginApp, StatementApp

-----------------------------------------------------------------------------
(* The theorems.                                                           *)

\* The tables, the keys in Redis and the requests in flight keep their types,
\* and what a request read stays meaningful while it is in flight.
THEOREM TokensAreTyped == TokenSpec => []TokenTypeOK
<1>1. CoreInv => TokenTypeOK
    BY DEF CoreInv
<1> QED
    BY InitCore, NextCore, <1>1, PTL DEF TokenSpec

\* A refresh that ends in an error never uses up the token it was given,
\* whatever the interleaving: a replaced token has a successor that has a row
\* and that a client received.  rotate, refresh_token, refresh_member_token.
THEOREM NoTokenIsLost == TokenSpec => []ReplacedTokenHasHolder
<1>1. TokenInit => ReplacedTokenHasHolder
    BY DEF TokenInit, ReplacedTokenHasHolder, Issued
<1> QED
    BY <1>1, InitCore, NextCore, NextReplaced, PTL DEF TokenSpec

\* A token that was answered "Refresh token reused." stays revoked: the commit
\* of revoke_family comes before the 401 that rolls the session back.
THEOREM ReuseIsFinal == TokenSpec => []ReuseIsRevoked
<1>1. TokenInit => ReuseIsRevoked
    BY DEF TokenInit, ReuseIsRevoked
<1> QED
    BY <1>1, InitCore, NextCore, NextReused, PTL DEF TokenSpec

\* Logout and detected reuse revoke the whole family, but for the rows of
\* rotations that overlapped the revocation and their descendants.
THEOREM RevocationIsComplete == TokenSpec => []RevocationReachesFamily
<1>1. TokenInit => RevocationInv
    BY DEF TokenInit, RevocationInv, RotationKnows, ReachesIssued, IssuedTokens, Issued
<1>2. RevocationInv => RevocationReachesFamily
    BY DEF RevocationInv, ReachesIssued, RevocationReachesFamily, IssuedTokens
<1> QED
    BY <1>1, <1>2, InitCore, NextCore, NextRevocation, PTL DEF TokenSpec

\* Without overlapping rotations a family never has two usable tokens, however
\* many requests present however old tokens.
THEOREM FamilyHasOneEnd == TokenSpec => []OneLiveTokenPerFamily
<1>1. TokenInit => OneEnd
    BY DEF TokenInit, OneEnd, LiveRows, RotationsOf, Rotating, Idle, IssuedTokens, Issued
<1>2. OneEnd => OneLiveTokenPerFamily
    <2> SUFFICES ASSUME OneEnd, NEW f \in Families \ raced
                 PROVE  Cardinality({t \in RowsOf(f) : Live(t)}) <= 1
        BY DEF OneLiveTokenPerFamily
    <2> DEFINE L == {t \in RowsOf(f) : Live(t)}
    <2>1. \A s, t \in L : s = t
        BY DEF OneEnd, LiveRows, RowsOf, Live, IssuedTokens
    <2> HIDE DEF L
    <2>2. ASSUME L = {} PROVE Cardinality(L) <= 1
        BY <2>2, FS_EmptySet
    <2>3. ASSUME \E t : t \in L PROVE Cardinality(L) <= 1
        <3>1. PICK t : L = {t}
            BY <2>1, <2>3
        <3>2. Cardinality({t}) = 1
            BY FS_Singleton
        <3> QED
            BY <3>1, <3>2
    <2>4. Cardinality(L) <= 1
        BY <2>2, <2>3
    <2> QED
        BY <2>4 DEF L
<1> QED
    BY <1>1, <1>2, InitCore, NextCore, NextEnds, PTL DEF TokenSpec

\* An access token always names the audience and the web app of the login that
\* started its family, although the app is read from Redis without a lock,
\* while logouts delete the key and refreshes write it back.
THEOREM AppIsOfTheLogin == TokenSpec => []AccessTokenKeepsApp
<1>1. TokenInit => AppIsKept
    BY DEF TokenInit, AppIsKept, AccessTokenKeepsApp, NoFamilyYet, Idle
<1>2. AppIsKept => AccessTokenKeepsApp
    BY DEF AppIsKept
<1> QED
    BY <1>1, <1>2, InitCore, NextCore, NextApp, PTL DEF TokenSpec

=============================================================================
