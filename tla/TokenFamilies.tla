--------------------------- MODULE TokenFamilies ---------------------------
(***************************************************************************)
(* Sign-in and the life of a refresh token family: the four logins, the    *)
(* rotation of a refresh token with its reuse detection, the member web    *)
(* app binding kept in Redis, both logouts and the revocation of a family, *)
(* with the account edits and the directory sync that decide who may sign  *)
(* in.                                                                     *)
(*                                                                         *)
(* The rows of auth.refresh_token are transactional: a request's insert    *)
(* and its mark on the old row appear at its commit and vanish when an     *)
(* exception handler rolls the session back.  The binding is a Redis key   *)
(* and is visible at once.  revoke_family commits on its own, so that the  *)
(* answer 401, which rolls back, does not undo it.                         *)
(***************************************************************************)
EXTENDS Naturals, FiniteSets

CONSTANTS
    Requests,       \* request slots of the workers
    Users,          \* accounts
    Families,       \* family ids, as many as the logins the instance allows
    Tokens,         \* refresh token ids, likewise
    Apps,           \* member web apps (app codes)
    Flags,          \* the account states an administrator may save
    MaxTime,        \* bound of the clock, in units of a token's lifetime
    TTL,            \* REFRESH_TOKEN_EXPIRE_DAYS in those units
    NoApp, NoToken, NoFamily, NoUser

ASSUME TokenConstants ==
    /\ TTL \in Nat /\ MaxTime \in Nat
    /\ NoApp \notin Apps /\ NoToken \notin Tokens
    /\ NoFamily \notin Families /\ NoUser \notin Users
    /\ Flags \subseteq [deleted : BOOLEAN, active : BOOLEAN, verified : BOOLEAN, admin : BOOLEAN]

VARIABLES
    now,        \* the clock
    users,      \* auth.user with the parts of its profile and links that logins read
    tok,        \* auth.refresh_token, the committed rows
    family,     \* what a login recorded of a family: user, audience, app and time
    binding,    \* Redis: member_refresh_app:<family>
    blacklist,  \* Redis: families whose access token was put on the blacklist
    delivered,  \* the refresh tokens some client holds
    minted,     \* the access tokens handed out
    req,        \* the requests in flight
    late, raced, reused  \* history: see the properties

tokenVars == <<now, users, tok, family, binding, blacklist, delivered, minted, req, late, raced, reused>>

AuthUser == [deleted : BOOLEAN, active : BOOLEAN, verified : BOOLEAN, admin : BOOLEAN,
             profile : BOOLEAN, linked : BOOLEAN]
AuthRefreshToken == [family : Families, user : Users, parent : Tokens \cup {NoToken},
                     replaced : Tokens \cup {NoToken}, expires : Nat, revoked : BOOLEAN]
NoRow == [family |-> NoFamily, user |-> NoUser, parent |-> NoToken, replaced |-> NoToken,
          expires |-> 0, revoked |-> FALSE]
NoFamilyYet == [user |-> NoUser, aud |-> "none", app |-> NoApp, at |-> 0]
Stage == {"idle", "rotate", "reused", "bound", "rebound", "written", "logout", "revoke"}
Idle == [at |-> "idle", token |-> NoToken, family |-> NoFamily, new |-> NoToken, app |-> NoApp,
         bound |-> NoApp, rows |-> {}, missed |-> FALSE]

Issued(t) == tok[t] # NoRow
RowsOf(f) == {t \in Tokens : Issued(t) /\ tok[t].family = f}
Reserved == {req[r].new : r \in Requests}
FreshToken(t) == t \in Tokens /\ ~Issued(t) /\ t \notin Reserved
FreshFamily(f) == f \in Families /\ family[f] = NoFamilyYet
InFlight(f) == {r \in Requests : req[r].family = f /\ req[r].at \in {"rotate", "bound", "rebound", "written"}}

TokenInit ==
    /\ now = 0
    /\ users \in [Users -> {[deleted |-> FALSE, active |-> TRUE, verified |-> TRUE, admin |-> TRUE,
                             profile |-> p, linked |-> FALSE] : p \in BOOLEAN}]
    /\ tok = [t \in Tokens |-> NoRow]
    /\ family = [f \in Families |-> NoFamilyYet]
    /\ binding = [f \in Families |-> NoApp]
    /\ blacklist = {} /\ delivered = {} /\ minted = {}
    /\ req = [r \in Requests |-> Idle]
    /\ late = {} /\ raced = {} /\ reused = {}

----------------------------------------------------------------------------
(* The account rows as the reads of the user repository return them.       *)

get_sensitive_by_email(u) == ~users[u].deleted /\ users[u].profile
get_sensitive_by_email_without_profile(u) == ~users[u].deleted
get_sensitive_by_id(u) == ~users[u].deleted /\ users[u].profile
MayUseAdmin(u) == users[u].admin /\ users[u].verified /\ users[u].active
MayUseApp(u) == users[u].verified /\ users[u].active

----------------------------------------------------------------------------
(* Sign-in: one new family, one refresh token row, one access token.       *)

issue(u, f, t) ==
    tok' = [tok EXCEPT ![t] = [family |-> f, user |-> u, parent |-> NoToken, replaced |-> NoToken,
                               expires |-> now + TTL, revoked |-> FALSE]]

create_access_token(u, f, aud, azp) == [user |-> u, family |-> f, aud |-> aud, azp |-> azp]

StartFamily(u, aud, app) ==
    \E f \in Families, t \in Tokens :
        /\ FreshFamily(f) /\ FreshToken(t)
        /\ issue(u, f, t)
        /\ family' = [family EXCEPT ![f] = [user |-> u, aud |-> aud, app |-> app, at |-> now]]
        /\ binding' = IF aud = "app" THEN [binding EXCEPT ![f] = app] ELSE binding
        /\ minted' = minted \cup {create_access_token(u, f, aud, app)}
        /\ delivered' = delivered \cup {t}
        /\ UNCHANGED <<now, blacklist, req, late, raced, reused>>

complete_admin_login(u) == MayUseAdmin(u) /\ StartFamily(u, "admin", NoApp)
complete_member_login(u, app) == MayUseApp(u) /\ StartFamily(u, "app", app)

\* login_without_validate, the development login, has the same guard and the same effect.
login_with_password(u) ==
    /\ get_sensitive_by_email(u)
    /\ complete_admin_login(u)
    /\ UNCHANGED users

\* _resolve_microsoft_user: an account without a profile is given one, and the
\* Microsoft identity is linked, before the login itself is decided.
ResolvedMicrosoftUser(u) ==
    /\ get_sensitive_by_email_without_profile(u)
    /\ users' = [users EXCEPT ![u].profile = TRUE, ![u].linked = TRUE]

microsoft_login(u) == ResolvedMicrosoftUser(u) /\ complete_admin_login(u)
microsoft_member_login(u, app) == ResolvedMicrosoftUser(u) /\ complete_member_login(u, app)

\* The mock login of the testing accounts; its switches (environment, secret,
\* suffix) decide only whether the action exists at all.
mock_member_login(u, app) ==
    /\ get_sensitive_by_email(u)
    /\ complete_member_login(u, app)
    /\ UNCHANGED users

----------------------------------------------------------------------------
(* Rotation.  RotateRead is the select of rotate(); what it found is        *)
(* carried, unlocked, to the write.                                         *)

Reply(r) == req' = [req EXCEPT ![r] = Idle]

MissedRevocation(f) == [r \in Requests |-> IF r \in InFlight(f) THEN [req[r] EXCEPT !.missed = TRUE] ELSE req[r]]

\* Mutant: a revoked token is as good as any.
UsableRevoked(row) == now <= row.expires

\* rotate, the checks: an unknown, revoked or expired token is answered 401 and
\* changes nothing; a token that was already replaced dooms its family.
Usable(row) == ~row.revoked /\ now <= row.expires

\* Mutant: a token that was replaced is rotated again.
RotateReadTwice(r, t, app) ==
    /\ req[r].at = "idle" /\ t \in delivered
    /\ Usable(tok[t])
    /\ req' = [req EXCEPT ![r] = [Idle EXCEPT !.at = "rotate", !.token = t, !.family = tok[t].family,
                                             !.app = app]]
    /\ raced' = IF InFlight(tok[t].family) # {} THEN raced \cup {tok[t].family} ELSE raced
    /\ UNCHANGED <<now, users, tok, family, binding, blacklist, delivered, minted, late, reused>>

RotateRead(r, t, app) ==
    /\ req[r].at = "idle" /\ t \in delivered
    /\ Usable(tok[t])
    /\ LET f == tok[t].family
           stage == IF tok[t].replaced # NoToken THEN "reused" ELSE "rotate"
       IN  /\ req' = [req EXCEPT ![r] = [Idle EXCEPT !.at = stage, !.token = t, !.family = f, !.app = app]]
           /\ raced' = IF stage = "rotate" /\ InFlight(f) # {} THEN raced \cup {f} ELSE raced
    /\ UNCHANGED <<now, users, tok, family, binding, blacklist, delivered, minted, late, reused>>

\* rotate, the writes: the row of the device, then the new row, then the mark on
\* the old one.  The device row serialises the writers of one family until
\* their commit.  The new row inherits the expiry of the old one.
RotateWrite(r) ==
    /\ req[r].at = "rotate"
    /\ \A other \in Requests \ {r} : ~(req[other].new # NoToken /\ req[other].family = req[r].family)
    /\ \E t \in Tokens :
        /\ FreshToken(t)
        /\ req' = [req EXCEPT ![r].new = t,
                              ![r].at = IF family[req[r].family].aud = "app" THEN "bound" ELSE "written"]
    /\ UNCHANGED <<now, users, tok, family, binding, blacklist, delivered, minted, late, raced, reused>>

\* Mutant: the app of the request is taken for the app of the family.
ReadBindingTrusting(r) ==
    /\ req[r].at = "bound"
    /\ IF binding[req[r].family] # NoApp
       THEN req' = [req EXCEPT ![r].bound = req[r].app, ![r].at = "rebound"]
       ELSE Reply(r)
    /\ UNCHANGED <<now, users, tok, family, binding, blacklist, delivered, minted, late, raced, reused>>

\* refresh_member_token, the binding: missing is 401, another app's is 403, and
\* both answers roll the rotation back.
ReadBinding(r) ==
    /\ req[r].at = "bound"
    /\ IF binding[req[r].family] # NoApp /\ binding[req[r].family] = req[r].app
       THEN req' = [req EXCEPT ![r].bound = binding[req[r].family], ![r].at = "rebound"]
       ELSE Reply(r)
    /\ UNCHANGED <<now, users, tok, family, binding, blacklist, delivered, minted, late, raced, reused>>

Rebind(r) ==
    /\ req[r].at = "rebound"
    /\ binding' = [binding EXCEPT ![req[r].family] = req[r].bound]
    /\ req' = [req EXCEPT ![r].at = "written"]
    /\ UNCHANGED <<now, users, tok, family, blacklist, delivered, minted, late, raced, reused>>

\* The rows of a rotation, as its commit makes them visible.
Rotated(r) ==
    LET old == tok[req[r].token]
    IN  [tok EXCEPT ![req[r].token].replaced = req[r].new,
                    ![req[r].new] = [family |-> old.family, user |-> old.user, parent |-> req[r].token,
                                     replaced |-> NoToken, expires |-> old.expires, revoked |-> FALSE]]

\* Mutant: an answered error is committed like any other answer.
RolledBackNever(r) == IF req[r].new = NoToken THEN tok ELSE Rotated(r)

\* What an exception handler leaves of the transaction of a request.
RolledBack(r) == tok

\* refresh_token and refresh_member_token, the end: the account is read again;
\* if it may no longer sign in, the answer is 401 and nothing is kept.
FinishRefresh(r) ==
    LET f == req[r].family
        u == tok[req[r].token].user
        aud == family[f].aud
        allowed == get_sensitive_by_id(u) /\ IF aud = "admin" THEN MayUseAdmin(u) ELSE MayUseApp(u)
    IN  /\ req[r].at = "written"
        /\ Reply(r)
        /\ IF allowed
           THEN /\ tok' = Rotated(r)
                /\ minted' = minted \cup {create_access_token(u, f, aud, req[r].bound)}
                /\ delivered' = delivered \cup {req[r].new}
                /\ late' = IF req[r].missed \/ req[r].token \in late THEN late \cup {req[r].new} ELSE late
           ELSE /\ tok' = RolledBack(r)
                /\ UNCHANGED <<minted, delivered, late>>
        /\ UNCHANGED <<now, users, family, binding, blacklist, raced, reused>>

\* A worker that dies, or a client that goes away, ends a request anywhere: the
\* transaction is rolled back, Redis keeps what was written.
Abort(r) ==
    /\ req[r].at # "idle"
    /\ Reply(r)
    /\ tok' = RolledBack(r)
    /\ UNCHANGED <<now, users, family, binding, blacklist, delivered, minted, late, raced, reused>>

----------------------------------------------------------------------------
(* Revocation.                                                              *)

\* logout and logout_member, up to the lookup of the refresh token: the access
\* token goes to the blacklist, a member's binding is cleared.
logout(r, t) ==
    /\ req[r].at = "idle" /\ t \in delivered
    /\ LET f == tok[t].family
       IN  /\ req' = [req EXCEPT ![r] = [Idle EXCEPT !.at = "logout", !.token = t, !.family = f]]
           /\ blacklist' = blacklist \cup {f}
           /\ binding' = IF family[f].aud = "app" THEN [binding EXCEPT ![f] = NoApp] ELSE binding
    /\ UNCHANGED <<now, users, tok, family, delivered, minted, late, raced, reused>>

\* revoke_family, the UPDATE: it covers the rows committed when the statement
\* starts, and may then wait for the row another rotation is marking.
RevokeStart(r) ==
    /\ req[r].at \in {"reused", "logout"}
    /\ req' = [req EXCEPT ![r].at = "revoke", ![r].rows = RowsOf(req[r].family),
                          ![r].missed = (req[r].at = "reused")]
    /\ UNCHANGED <<now, users, tok, family, binding, blacklist, delivered, minted, late, raced, reused>>

\* Mutant: the revocation is not committed and goes with the rollback of the 401.
RevokedUncommitted(rows) == tok

Revoked(rows) == [t \in Tokens |-> IF t \in rows THEN [tok[t] EXCEPT !.revoked = TRUE] ELSE tok[t]]

\* revoke_family, the end: its own commit comes before the answer.
revoke_family(r) ==
    LET f == req[r].family
    IN  /\ req[r].at = "revoke"
        /\ \A other \in Requests \ {r} : ~(req[other].new # NoToken /\ req[other].token \in req[r].rows)
        /\ tok' = Revoked(req[r].rows)
        /\ late' = late \cup (RowsOf(f) \ req[r].rows)
        /\ req' = [MissedRevocation(f) EXCEPT ![r] = Idle]
        /\ reused' = IF req[r].missed THEN reused \cup {req[r].token} ELSE reused
        /\ UNCHANGED <<now, users, family, binding, blacklist, delivered, minted, raced>>

----------------------------------------------------------------------------
(* The accounts.                                                            *)

\* update_user, delete_user and restore_users of the administrators.
update_user(u, flags) ==
    /\ users' = [users EXCEPT ![u] = [deleted |-> flags.deleted, active |-> flags.active,
                                      verified |-> flags.verified, admin |-> flags.admin,
                                      profile |-> @.profile, linked |-> @.linked]]
    /\ UNCHANGED <<now, tok, family, binding, blacklist, delivered, minted, req, late, raced, reused>>

\* MicrosoftUserSyncService._sync_one for an account that exists: found by its
\* link or by its address, given a profile, linked, and set active or not.
_sync_one(u, enabled) ==
    /\ users[u].linked \/ get_sensitive_by_email_without_profile(u)
    /\ users' = [users EXCEPT ![u].active = enabled, ![u].linked = TRUE,
                              ![u].profile = users[u].profile \/ ~users[u].linked]
    /\ UNCHANGED <<now, tok, family, binding, blacklist, delivered, minted, req, late, raced, reused>>

Tick ==
    /\ now < MaxTime
    /\ now' = now + 1
    /\ UNCHANGED <<users, tok, family, binding, blacklist, delivered, minted, req, late, raced, reused>>

TokenNext ==
    \/ \E u \in Users : login_with_password(u) \/ microsoft_login(u)
    \/ \E u \in Users, app \in Apps : microsoft_member_login(u, app) \/ mock_member_login(u, app)
    \/ \E r \in Requests, t \in Tokens, app \in Apps : RotateRead(r, t, app)
    \/ \E r \in Requests, t \in Tokens : logout(r, t)
    \/ \E r \in Requests : RotateWrite(r) \/ ReadBinding(r) \/ Rebind(r) \/ FinishRefresh(r)
                           \/ Abort(r) \/ RevokeStart(r) \/ revoke_family(r)
    \/ \E u \in Users, flags \in Flags : update_user(u, flags)
    \/ \E u \in Users, enabled \in BOOLEAN : _sync_one(u, enabled)
    \/ Tick

TokenSpec == TokenInit /\ [][TokenNext]_tokenVars

----------------------------------------------------------------------------
(* Properties.                                                              *)

TokenTypeOK ==
    /\ now \in 0..MaxTime
    /\ users \in [Users -> AuthUser]
    /\ tok \in [Tokens -> AuthRefreshToken \cup {NoRow}]
    /\ family \in [Families -> [user : Users, aud : {"admin", "app"}, app : Apps \cup {NoApp}, at : 0..MaxTime]
                               \cup {NoFamilyYet}]
    /\ binding \in [Families -> Apps \cup {NoApp}]
    /\ blacklist \subseteq Families /\ delivered \subseteq Tokens
    /\ late \subseteq Tokens /\ raced \subseteq Families /\ reused \subseteq Tokens
    /\ req \in [Requests -> [at : Stage, token : Tokens \cup {NoToken}, family : Families \cup {NoFamily},
                             new : Tokens \cup {NoToken}, app : Apps \cup {NoApp}, bound : Apps \cup {NoApp},
                             rows : SUBSET Tokens, missed : BOOLEAN]]

Live(t) == Issued(t) /\ ~tok[t].revoked /\ tok[t].replaced = NoToken

\* Reuse detection keeps one usable end per family: a family has two live tokens
\* only if two rotations of it overlapped (the second read before the first one
\* committed).  refresh_token_provider.rotate.
OneLiveTokenPerFamily ==
    \A f \in Families \ raced : Cardinality({t \in RowsOf(f) : Live(t)}) <= 1

\* A logout or a detected reuse reaches the whole family: the only rows of a
\* revoked family that stay unrevoked belong to a rotation that overlapped the
\* revocation, or descend from such a row.  refresh_token_provider.revoke_family.
RevocationReachesFamily ==
    \A s, t \in Tokens :
        /\ Issued(s) /\ Issued(t) /\ tok[s].family = tok[t].family
        /\ tok[s].revoked /\ ~tok[t].revoked
        => t \in late

\* A refresh that ends in an error does not use up the token it was given: a
\* replaced token always has a successor that a client received.  The 403 of a
\* wrong web app and the 401 of a disabled account come after the rotation was
\* written, and only the rollback of the exception handler undoes it.
ReplacedTokenHasHolder ==
    \A t \in Tokens : Issued(t) /\ tok[t].replaced # NoToken
        => tok[t].replaced \in delivered /\ Issued(tok[t].replaced)

\* A token that was answered "Refresh token reused." is dead for good, although
\* that answer is a 401 whose handler rolls the session back.
ReuseIsRevoked == \A t \in reused : tok[t].revoked

\* A member's access token carries the web app that signed the family in,
\* whatever app presented the refresh token and whatever logout did to the Redis
\* key meanwhile.
AccessTokenKeepsApp ==
    \A a \in minted : a.aud = family[a.family].aud /\ a.azp = family[a.family].app
=============================================================================
