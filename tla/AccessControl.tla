---------------------------- MODULE AccessControl ----------------------------
(* Who a request acts for (auth.py, the dependencies of api/videos.py, key *)
(* management of api/admin.py, audit.py).  A mutating request resolves its *)
(* key twice, for the role and then for the tenant, and each time asks     *)
(* first whether keys are asked for at all: four reads of ms_api_keys,     *)
(* between which keys are minted and revoked.                              *)
EXTENDS Naturals, FiniteSets

CONSTANTS
    Callers,      \* requests, each made once
    Keys,         \* keys that may be minted
    Users,        \* tenants
    KeyUser,      \* user_id of a key's row
    KeyRole,      \* role of a key's row
    DefaultUser   \* DEFAULT_USER_ID

ASSUME KeysAssumption ==
    /\ KeyUser \in [Keys -> Users]
    /\ KeyRole \in [Keys -> {"admin", "viewer"}]
    /\ DefaultUser \in Users

CONSTANTS Master, NoToken
ASSUME TokensAssumption ==
    /\ Master \notin Keys /\ NoToken \notin Keys /\ NoToken # Master

VARIABLES
    master,   \* ADMIN_TOKEN is set
    keys,     \* ms_api_keys: per key, "none", "valid" or "revoked"
    calls,    \* per caller: the request and where it is
    log,      \* ms_audit: who did what
    opened,   \* history: callers during whose request the app was open
    stale     \* history: callers whose key was revoked when they began

accessVars == <<master, keys, calls, log, opened, stale>>

Ops == {"read", "write", "mint"}
Tokens == Keys \union {Master, NoToken}
Stages == {"idle", "role_active", "role_key", "tenant_active", "tenant_key",
           "act", "done", "refused"}

AccessTypeOK ==
    /\ master \in BOOLEAN
    /\ keys \in [Keys -> {"none", "valid", "revoked"}]
    /\ calls \in [Callers -> [at : Stages, op : Ops, token : Tokens,
                              header : Users, uid : Users]]
    /\ log \subseteq [uid : Users, caller : Callers]
    /\ opened \subseteq Callers /\ stale \subseteq Callers

AccessInit ==
    /\ master \in BOOLEAN
    /\ keys \in [Keys -> {"none", "valid"}]
    /\ calls = [c \in Callers |->
                  [at |-> "idle", op |-> "read", token |-> NoToken,
                   header |-> DefaultUser, uid |-> DefaultUser]]
    /\ log = {} /\ opened = {} /\ stale = {}

(* auth_active                                                             *)
Active == master \/ \E k \in Keys : keys[k] = "valid"

Now(c, new) == calls' = [calls EXCEPT ![c] = new]
GoTo(c, stage) == Now(c, [calls[c] EXCEPT !.at = stage])
InFlight == {c \in Callers : calls[c].at \notin {"idle", "done", "refused"}}

(* A request comes with a token that somebody has, or with none that is in *)
(* the table.  An invalid X-User-Id is refused.                            *)
Arrive(c) ==
    /\ calls[c].at = "idle"
    /\ \E op \in Ops, header \in Users :
       \E token \in {NoToken} \union {k \in Keys : keys[k] # "none"}
                     \union {t \in {Master} : master} :
         /\ Now(c, [at |-> IF op = "read" THEN "tenant_active"
                           ELSE "role_active",
                    op |-> op, token |-> token, header |-> header,
                    uid |-> DefaultUser])
         /\ stale' = IF token \in Keys /\ keys[token] = "revoked"
                     THEN stale \union {c} ELSE stale
    /\ opened' = IF Active THEN opened ELSE opened \union {c}
    /\ UNCHANGED <<master, keys, log>>

(* Mutant: revoked keys count.                                             *)
IdentityOfAny(token) ==
    IF token = Master THEN {[uid |-> DefaultUser, role |-> "admin"]}
    ELSE IF token = NoToken THEN {}
    ELSE {[uid |-> KeyUser[k], role |-> KeyRole[k]] :
            k \in {x \in {token} : keys[x] # "none"}}

(* resolve: the master token, or the row of a key that is not revoked.     *)
Identity(token) ==
    IF token = Master THEN {[uid |-> DefaultUser, role |-> "admin"]}
    ELSE IF token = NoToken THEN {}
    ELSE {[uid |-> KeyUser[k], role |-> KeyRole[k]] :
            k \in {x \in {token} : keys[x] = "valid"}}

(* require_auth: check_admin, 401 without a valid key, 403 without the     *)
(* admin role; while auth is inactive everybody is an admin.               *)
RoleActive(c) ==
    /\ calls[c].at = "role_active"
    /\ GoTo(c, IF Active THEN "role_key" ELSE "tenant_active")
    /\ UNCHANGED <<master, keys, log, opened, stale>>

RoleKey(c) ==
    /\ calls[c].at = "role_key"
    /\ GoTo(c, IF \E who \in Identity(calls[c].token) : who.role = "admin"
             THEN "tenant_active" ELSE "refused")
    /\ UNCHANGED <<master, keys, log, opened, stale>>

(* user_id: resolve_identity; the header counts while auth is inactive.    *)
TenantActive(c) ==
    /\ calls[c].at = "tenant_active"
    /\ IF Active THEN GoTo(c, "tenant_key")
       ELSE Now(c, [calls[c] EXCEPT !.at = "act", !.uid = calls[c].header])
    /\ UNCHANGED <<master, keys, log, opened, stale>>

TenantKey(c) ==
    /\ calls[c].at = "tenant_key"
    /\ \/ /\ Identity(calls[c].token) = {}
          /\ GoTo(c, "refused")
       \/ \E who \in Identity(calls[c].token) :
            Now(c, [calls[c] EXCEPT !.at = "act", !.uid = who.uid])
    /\ UNCHANGED <<master, keys, log, opened, stale>>

(* audit.record: a failed insert is swallowed.                             *)
Record(c) ==
    log' \in {log, log \union {[uid |-> calls[c].uid, caller |-> c]}}

(* auth.mint_key                                                           *)
Mint ==
    \E k \in Keys :
        /\ keys[k] = "none"
        /\ keys' = [keys EXCEPT ![k] = "valid"]

(* The endpoint: a query, a mutation, or create_key.                       *)
Act(c) ==
    /\ calls[c].at = "act"
    /\ GoTo(c, "done")
    /\ \/ calls[c].op = "read" /\ UNCHANGED <<keys, log>>
       \/ calls[c].op = "write" /\ Record(c) /\ UNCHANGED keys
       \/ calls[c].op = "mint" /\ Mint /\ Record(c)
    /\ UNCHANGED <<master, opened, stale>>

(* revoke_key, which no endpoint calls.  When it was the last key, and     *)
(* there is no master token, the app is open again for those in flight.    *)
Revoke(k) ==
    /\ keys[k] = "valid"
    /\ keys' = [keys EXCEPT ![k] = "revoked"]
    /\ UNCHANGED <<master, calls, log, stale>>
    /\ opened' = IF Active' THEN opened ELSE opened \union InFlight
-----------------------------------------------------------------------------
AccessNext ==
    \/ \E c \in Callers :
         \/ Arrive(c) \/ RoleActive(c) \/ RoleKey(c)
         \/ TenantActive(c) \/ TenantKey(c) \/ Act(c)
    \/ \E k \in Keys : Revoke(k)

AccessSpec == AccessInit /\ [][AccessNext]_accessVars
-----------------------------------------------------------------------------
(* auth.py: `The KEY determines the tenant', `fails CLOSED'.  A request    *)
(* during which auth was active acts for the tenant of its own key, writes *)
(* only with the admin role, and not with a key revoked before it came,    *)
(* whatever was minted and revoked between its reads of the table.  What   *)
(* the audit log names is a mutation of that tenant.                       *)
ActsAsItsKey ==
    \A c \in Callers :
        LET call == calls[c] IN
        /\ call.at \in {"act", "done"} /\ c \notin opened =>
             /\ c \notin stale /\ call.token # NoToken
             /\ call.uid = IF call.token = Master THEN DefaultUser
                           ELSE KeyUser[call.token]
             /\ call.op # "read" =>
                  call.token = Master \/ KeyRole[call.token] = "admin"
        /\ \A entry \in log :
             entry.caller = c =>
                 call.at = "done" /\ call.op # "read" /\ entry.uid = call.uid
=============================================================================
