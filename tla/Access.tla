------------------------------- MODULE Access -------------------------------
(***************************************************************************)
(* Who may do what: the roles a person's groups are mapped to, the session *)
(* that carries them, API tokens, the break-glass account, and the routes  *)
(* that ask for a permission (api/access.py; auth/permissions.py;          *)
(* auth/store.py; auth/breakglass.py; the routes of api/app.py).           *)
(*                                                                         *)
(* Authority is read at three moments: the roles when a person signs in,   *)
(* the session when a request comes, and neither again when its handler    *)
(* acts.  Whoever manages roles may change them in between.  What a        *)
(* handler does beyond access itself is of the other modules; here it is a *)
(* deed with a name.                                                       *)
(***************************************************************************)
EXTENDS Naturals

CONSTANTS
    Mapped,      \* roles that are mapped to a group of the person, and unmapped
    Tokened,     \* sets of permissions a token is asked for with
    Request,     \* requests under way at the same time
    Life,        \* SESSION_HOURS
    Emergency,   \* BREAK_GLASS_HOURS
    Days,        \* days a token lives
    Pause,       \* bound: from the look-up of the roles to the session
    Delay,       \* bound: from authorisation to what the handler does
    MaxTime      \* bound

VARIABLES
    clock,
    mapping,     \* role_mappings: the roles mapped to a group of the person
    held,        \* the last moment each role was mapped
    found,       \* the roles a sign-in under way has looked up, and when
    session,     \* one each of the person and of the break-glass account
    token,       \* an API token
    request,
    deed         \* the last thing done: by whom, whether the page asked for it, and how long
                 \* ago a role that permits it was mapped

vars == <<clock, mapping, held, found, session, token, request, deed>>

-----------------------------------------------------------------------------
(* Permissions (auth/permissions.py).                                      *)

RolePermissions ==
    [viewer |-> {"incidents.read"},
     operator |-> {"incidents.read", "system.read", "metrics.read", "runs.operate", "actions.stop"},
     approver |-> {"incidents.read", "actions.approve"},
     sop_author |-> {"incidents.read", "sops.author"},
     sop_approver |-> {"incidents.read", "sops.approve"},
     tenant_admin |-> {"incidents.read", "system.read", "metrics.read", "tokens.manage",
                       "roles.manage", "connectors.manage", "actions.stop", "policy.manage"},
     auditor |-> {"incidents.read", "audit.read"}]
PermissionsFor(roles) == UNION {RolePermissions[r] : r \in roles}
Permissions == PermissionsFor(DOMAIN RolePermissions)

\* Mutant: a token may carry whatever there is.
AnyPermission == Permissions

\* What a machine token may carry.
TokenPermissions == {"incidents.read", "system.read", "metrics.read", "audit.read"}

-----------------------------------------------------------------------------
(* Routes (api/app.py): the method, the permission or "authenticated", and *)
(* what it does; nothing, for one that only reads.                         *)

Get(needs) == [method |-> "GET", needs |-> needs, does |-> "nothing"]
Route(method, needs, does) == [method |-> method, needs |-> needs, does |-> does]
Post(needs, does) == Route("POST", needs, does)
Put(needs, does) == Route("PUT", needs, does)
Delete(needs, does) == Route("DELETE", needs, does)

\* Status, metrics, and the dashboard's numbers, incidents and stream.
OperationsRoutes == {Get("system.read"), Get("metrics.read"), Get("incidents.read")}
\* /api/me and the log-out.
OwnRoutes == {Get("authenticated"), Post("authenticated", "log_out")}
AdministrationRoutes ==
    {Get("tokens.manage"), Post("tokens.manage", "create_token"),
     Delete("tokens.manage", "revoke_token"),
     Get("roles.manage"), Put("roles.manage", "grant_role"), Delete("roles.manage", "remove_role")}
SopRoutes ==
    {Get("incidents.read"),
     Post("sops.author", "draft"), Put("sops.author", "edit"), Delete("sops.author", "discard"),
     Post("sops.author", "submit"), Post("sops.author", "sync_knowledge"),
     Post("sops.approve", "approve_version"), Post("sops.approve", "request_changes"),
     Post("sops.approve", "publish"), Post("sops.approve", "retire")}
ConnectorRoutes ==
    {Get("system.read"), Put("connectors.manage", "set_connection"),
     Delete("connectors.manage", "remove_connection"), Post("connectors.manage", "test_connection")}
RunnerRoutes ==
    {Get("system.read"), Post("connectors.manage", "enrol_runner"),
     Delete("connectors.manage", "revoke_runner")}
ActionRoutes ==
    {Get("incidents.read"), Post("actions.approve", "approve_action"),
     Post("actions.approve", "reject_action")}
PolicyRoutes ==
    {Get("system.read"), Put("policy.manage", "set_policy"),
     Post("actions.stop", "engage_kill_switch"), Post("policy.manage", "release_kill_switch")}
ModelRoutes ==
    {Get("system.read"), Put("policy.manage", "set_model_policy"), Get("audit.read")}
AuditRoutes == {Get("audit.read"), Get("system.read")}

Routes == OperationsRoutes \cup OwnRoutes \cup AdministrationRoutes \cup SopRoutes
          \cup ConnectorRoutes \cup RunnerRoutes \cup ActionRoutes \cup PolicyRoutes
          \cup ModelRoutes \cup AuditRoutes

\* What is done elsewhere than in this module needs no name of its own.
Here == {"nothing", "log_out", "create_token", "revoke_token", "grant_role", "remove_role"}
Does(route) == IF route.does \in Here THEN route.does ELSE "something_else"
Deeds == Here \cup {"something_else"}

-----------------------------------------------------------------------------
Person == {"person", "break-glass"}
Caller == Person \cup {"token"}
NoSession == [at |-> "none", roles |-> {}, expires |-> 0]
NoToken == [at |-> "none", permissions |-> {}, expires |-> 0]
NotSigningIn == [roles |-> {}, at |-> 0]
NoRequest == [at |-> "none", by |-> "person", needs |-> "authenticated", does |-> "nothing",
              began |-> 0, asked |-> TRUE]
NoDeed == [by |-> "person", does |-> "nothing", asked |-> TRUE, unmapped |-> 0]

TypeOK ==
    /\ clock \in 1..MaxTime
    /\ mapping \subseteq Mapped
    /\ held \in [Mapped -> 0..MaxTime]
    /\ found \in [roles: SUBSET Mapped, at: 0..MaxTime]
    /\ session \in [Person -> [at: {"none", "open", "revoked"},
                               roles: SUBSET (Mapped \cup {"tenant_admin"}),
                               expires: 0..(MaxTime + Life)]]
    /\ token \in [at: {"none", "valid", "revoked"}, permissions: SUBSET Permissions,
                  expires: 0..(MaxTime + Days)]
    /\ request \in [Request -> [at: {"none", "authorized"}, by: Caller,
                                needs: Permissions \cup {"authenticated"}, does: Deeds,
                                began: 0..MaxTime, asked: BOOLEAN]]
    /\ deed \in [by: Caller, does: Deeds, asked: BOOLEAN, unmapped: 0..MaxTime]

Init ==
    /\ clock = 1
    /\ mapping \in SUBSET Mapped
    /\ held = [r \in Mapped |-> IF r \in mapping THEN 1 ELSE 0]
    /\ found = NotSigningIn
    /\ session = [p \in Person |-> NoSession]
    /\ token = NoToken
    /\ request = [q \in Request |-> NoRequest]
    /\ deed = NoDeed

Tick ==
    /\ clock < MaxTime
    /\ found # NotSigningIn => clock - found.at < Pause
    /\ \A q \in Request : request[q].at = "authorized" => clock - request[q].began < Delay
    /\ clock' = clock + 1
    /\ held' = [r \in Mapped |-> IF r \in mapping THEN clock' ELSE held[r]]
    /\ deed' = NoDeed
    /\ UNCHANGED <<mapping, found, session, token, request>>

-----------------------------------------------------------------------------
(* Signing in (establish_session, break_glass).                            *)

\* roles_for_groups, in a transaction of its own; nobody signs in without a role.
LookUp ==
    /\ found = NotSigningIn /\ session["person"].at = "none"
    /\ mapping # {}
    /\ found' = [roles |-> mapping, at |-> clock]
    /\ deed' = NoDeed
    /\ UNCHANGED <<clock, mapping, held, session, token, request>>

Open(p, roles, hours) ==
    session' = [session EXCEPT ![p] = [at |-> "open", roles |-> roles, expires |-> clock + hours]]

\* The session keeps the roles of the look-up until it ends.
Establish ==
    /\ found # NotSigningIn
    /\ Open("person", found.roles, Life)
    /\ found' = NotSigningIn
    /\ deed' = NoDeed
    /\ UNCHANGED <<clock, mapping, held, token, request>>

\* The break-glass account administers the tenant for an hour, and no group is asked.
BreakGlass ==
    /\ session["break-glass"].at = "none"
    /\ Open("break-glass", {"tenant_admin"}, Emergency)
    /\ deed' = NoDeed
    /\ UNCHANGED <<clock, mapping, held, found, token, request>>

-----------------------------------------------------------------------------
(* A request (authorize, then the handler).                                *)

\* The credential is looked up by its hash: authenticate, load_session, load_api_token.
Authenticated(c) ==
    IF c = "token" THEN token.at = "valid" /\ token.expires > clock
    ELSE session[c].at = "open" /\ session[c].expires > clock
Holds(c) == IF c = "token" THEN token.permissions ELSE PermissionsFor(session[c].roles)
Permits(c, needs) == needs = "authenticated" \/ needs \in Holds(c)

\* Mutant: using a session renews it.
Renewed(c) == IF c = "token" THEN session ELSE [session EXCEPT ![c].expires = clock + Life]

\* load_session writes the moment of the last use and nothing else.
Used(c) == session

\* `asked`: the page sent the session's own token with the request.
Authorize(c, q, route, asked) ==
    /\ request[q].at = "none"
    /\ Authenticated(c)
    /\ session' = Used(c)
    /\ Permits(c, route.needs)
    /\ (c \in Person /\ route.method # "GET") => asked
    /\ request' = [request EXCEPT ![q] =
                      [at |-> "authorized", by |-> c, needs |-> route.needs, does |-> Does(route),
                       began |-> clock, asked |-> asked]]
    /\ deed' = NoDeed
    /\ UNCHANGED <<clock, mapping, held, found, token>>

\* How long ago a role that permits this was mapped to a group of the person.
Unmapped(needs) ==
    LET permitting == {r \in Mapped : needs \in RolePermissions[r]} IN
    CHOOSE ago \in 0..MaxTime :
        /\ \E r \in permitting : clock - held[r] = ago
        /\ \A r \in permitting : clock - held[r] >= ago
Note(r) ==
    deed' = [by |-> r.by, does |-> r.does, asked |-> r.asked,
             unmapped |-> IF r.by = "person" /\ r.needs # "authenticated"
                          THEN Unmapped(r.needs) ELSE 0]

\* set_role_mapping: sessions that carry the role keep it.
Map(r) ==
    /\ r.does \in {"grant_role", "remove_role"}
    /\ \E role \in Mapped :
          /\ mapping' = IF r.does = "grant_role" THEN mapping \cup {role} ELSE mapping \ {role}
          /\ held' = IF role \in mapping \cup mapping' THEN [held EXCEPT ![role] = clock] ELSE held
    /\ UNCHANGED <<session, token>>

CreateToken(r) ==
    /\ r.does = "create_token"
    /\ token.at = "none"
    /\ \E permissions \in Tokened :
          token' = IF permissions \subseteq TokenPermissions
                   THEN [at |-> "valid", permissions |-> permissions, expires |-> clock + Days]
                   ELSE token
    /\ UNCHANGED <<mapping, held, session>>

RevokeToken(r) ==
    /\ r.does = "revoke_token"
    /\ token' = IF token.at = "valid" THEN [token EXCEPT !.at = "revoked"] ELSE token
    /\ UNCHANGED <<mapping, held, session>>

\* revoke_session: a token has no session, and its log-out does nothing.
LogOut(r) ==
    /\ r.does = "log_out"
    /\ session' = IF r.by \in Person THEN [session EXCEPT ![r.by].at = "revoked"] ELSE session
    /\ UNCHANGED <<mapping, held, token>>

\* What changes nothing here.
Other(r) ==
    /\ r.does \in {"nothing", "something_else"}
    /\ UNCHANGED <<mapping, held, session, token>>

Handle(q) ==
    /\ request[q].at = "authorized"
    /\ LET r == request[q] IN
          /\ Map(r) \/ CreateToken(r) \/ RevokeToken(r) \/ LogOut(r) \/ Other(r)
          /\ IF r.does = "log_out" /\ r.by = "token" THEN deed' = NoDeed ELSE Note(r)
    /\ request' = [request EXCEPT ![q] = NoRequest]
    /\ UNCHANGED <<clock, found>>

Next ==
    \/ Tick \/ LookUp \/ Establish \/ BreakGlass
    \/ \E c \in Caller, q \in Request, route \in Routes, asked \in BOOLEAN :
          Authorize(c, q, route, asked)
    \/ \E q \in Request : Handle(q)

Spec == Init /\ [][Next]_vars

-----------------------------------------------------------------------------
\* What a person does, a role lets them do that was mapped to one of their groups no longer ago
\* than a sign-in, a session and a request last: authority that is taken away runs out.
AuthorityRunsOut == deed.unmapped < Pause + Life + Delay

\* A token changes nothing, whatever it was created with and whichever route it finds.
TokensOnlyRead == deed.by = "token" => deed.does = "nothing"

\* A page that is not the dashboard's makes nobody's browser change anything.
OnlyWhatThePageAsked == deed.does # "nothing" /\ deed.by \in Person => deed.asked
=============================================================================
