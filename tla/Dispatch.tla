-------------------------------- MODULE Dispatch --------------------------------
(***************************************************************************)
(* A request on its way through the service: the authentication middleware *)
(* looks up the configuration it enforces before the framework has chosen  *)
(* the endpoint, each by its own search of the route table.                *)
(***************************************************************************)
EXTENDS Routes

VARIABLES incoming,   \* application, method and path, or Nobody
          enforced,  \* the route whose AuthConfig the middleware enforces
          handled    \* the route whose endpoint runs

dispatchVars == <<incoming, enforced, handled>>

Nobody == [app |-> "none", route |-> 0, method |-> "none", path |-> <<>>]

\* A request for a route, with an id for each path parameter.
RequestFor(app, i) ==
  LET r == Application(app)[i] IN
  [app |-> app, route |-> i, method |-> r.method,
   path |-> [j \in DOMAIN r.path |-> IF r.path[j] = "*" THEN "id" ELSE r.path[j]]]

DispatchInit == incoming = Nobody /\ enforced = 0 /\ handled = 0

Arrive(app, i) ==
  /\ incoming = Nobody
  /\ incoming' = RequestFor(app, i)
  /\ UNCHANGED <<enforced, handled>>

\* AuthMiddleware.dispatch
Enforce ==
  /\ incoming # Nobody /\ enforced = 0
  /\ enforced' = _get_auth_config_from_route(incoming.app, incoming.method, incoming.path)
  /\ UNCHANGED <<incoming, handled>>

\* call_next, external: the framework runs the endpoint of the first match.
Handle ==
  /\ enforced # 0 /\ handled = 0
  /\ handled' = Dispatched(incoming.app, incoming.method, incoming.path)
  /\ UNCHANGED <<incoming, enforced>>

Answer ==
  /\ handled # 0
  /\ incoming' = Nobody /\ enforced' = 0 /\ handled' = 0

DispatchNext ==
  \/ \E app \in {"admin", "api"} : \E i \in DOMAIN Application(app) : Arrive(app, i)
  \/ Enforce \/ Handle \/ Answer

DispatchSpec == DispatchInit /\ [][DispatchNext]_dispatchVars

-----------------------------------------------------------------------------
(* Properties.                                                             *)

\* Declared after a PUT on a path parameter that takes the word "restore" for
\* an id: their requests run the update endpoint.
Shadowed == {"restore_rooms", "restore_ministries", "restore_positions"}

\* What a signed-in administrator may change without a permission code.
SelfService == {"admin_local_login", "admin_login", "admin_microsoft_login", "admin_refresh_token", "admin_logout",
                "update_current_user", "update_current_user_preferred_locale"}

\* What is to be said of the route tables alone: the order of the routes lets
\* every request reach its own, and the decorators name a code.
ASSUME RouteTablesAssumption ==
  /\ \A app \in {"admin", "api"} :
       /\ Len(Application(app)) \in Nat /\ DOMAIN Application(app) = 1 .. Len(Application(app))
       /\ \A i \in DOMAIN Application(app) :
            LET r == RequestFor(app, i) IN
            Application(app)[i].endpoint \notin Shadowed => Dispatched(app, r.method, r.path) = i
  /\ \A i \in DOMAIN Application("admin") :
       LET r == Application("admin")[i] IN
       r.method # "GET" /\ r.endpoint \notin SelfService
         => r.config.codes # {} /\ r.config.is_admin /\ r.config.require_auth

\* Every request runs the endpoint it was declared for, under that endpoint's
\* own AuthConfig, except for the three shadowed ones; and no request that
\* changes data in the admin application runs without a permission code checked
\* on an admin token, except a user's own session and profile
\* (AuthRouter, _get_auth_config_from_route, the order of the route tables).
OwnEndpointOwnConfig ==
  handled # 0 =>
    LET table == Application(incoming.app)
        ran == table[handled] IN
    /\ table[incoming.route].endpoint \notin Shadowed => handled = incoming.route
    /\ table[enforced].config = ran.config
    /\ (incoming.app = "admin" /\ incoming.method # "GET" /\ ran.endpoint \notin SelfService)
         => (table[enforced].config.codes # {} /\ table[enforced].config.is_admin /\ table[enforced].config.require_auth)
=============================================================================
