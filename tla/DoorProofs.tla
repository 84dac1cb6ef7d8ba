----------------------------- MODULE DoorProofs -----------------------------
(* Proofs about who may do what: AccessControl, for any requests and keys, *)
(* and Registration, for any tenants, uploads, films and runs, and any     *)
(* ways in which users may behave.                                         *)
EXTENDS AccessControl, Registration, TLAPS

(* AccessControl: whom a request acts for.                                 *)

CallRecord == [at : Stages, op : Ops, token : Tokens, header : Users,
               uid : Users]

(* What resolve yields: the admin of the master token, or the row of a     *)
(* valid key.                                                              *)
LEMMA IdentityOf ==
    ASSUME NEW token \in Tokens, NEW who \in Identity(token)
    PROVE  \/ token = Master /\ who = [uid |-> DefaultUser, role |-> "admin"]
           \/ /\ token \in Keys /\ keys[token] = "valid"
              /\ who = [uid |-> KeyUser[token], role |-> KeyRole[token]]
BY TokensAssumption DEF Identity, Tokens

(* The request of c is now `new', the others are as they were.             *)
LEMMA NowType ==
    ASSUME AccessTypeOK, NEW c \in Callers, NEW new \in CallRecord, Now(c, new)
    PROVE  /\ calls' \in [Callers -> CallRecord] /\ calls'[c] = new
           /\ \A d \in Callers \ {c} : calls'[d] = calls[d]
BY DEF AccessTypeOK, CallRecord, Now

LEMMA GoToType ==
    ASSUME AccessTypeOK, NEW c \in Callers, NEW stage \in Stages,
           GoTo(c, stage)
    PROVE  /\ calls' \in [Callers -> CallRecord]
           /\ calls'[c] = [calls[c] EXCEPT !.at = stage]
           /\ \A d \in Callers \ {c} : calls'[d] = calls[d]
<1>1. [calls[c] EXCEPT !.at = stage] \in CallRecord
  BY DEF AccessTypeOK, CallRecord
<1> QED  BY <1>1, NowType DEF GoTo

(* AccessTypeOK, for any requests, keys and tenants.                       *)
THEOREM AccessTypeCorrect == AccessSpec => []AccessTypeOK
<1>1. AccessInit => AccessTypeOK
  BY KeysAssumption DEF AccessInit, AccessTypeOK, Stages, Ops, Tokens
<1>2. AccessTypeOK /\ [AccessNext]_accessVars => AccessTypeOK'
  <2> SUFFICES ASSUME AccessTypeOK, [AccessNext]_accessVars
               PROVE  AccessTypeOK'
    OBVIOUS
  <2>1. ASSUME NEW c \in Callers, Arrive(c) PROVE AccessTypeOK'
    <3>1. PICK new \in CallRecord : Now(c, new)
      BY <2>1, KeysAssumption DEF Arrive, CallRecord, Tokens, Stages
    <3>2. calls' \in [Callers -> CallRecord]
      BY <3>1, NowType
    <3> QED  BY <2>1, <3>2 DEF Arrive, AccessTypeOK, CallRecord
  <2>2. ASSUME NEW c \in Callers, RoleActive(c) \/ RoleKey(c)
        PROVE  AccessTypeOK'
    <3>1. PICK stage \in Stages : GoTo(c, stage)
      BY <2>2 DEF RoleActive, RoleKey, Stages
    <3>2. calls' \in [Callers -> CallRecord]
      BY <3>1, GoToType
    <3> QED  BY <2>2, <3>2 DEF RoleActive, RoleKey, AccessTypeOK, CallRecord
  <2>3. ASSUME NEW c \in Callers, TenantActive(c) \/ TenantKey(c)
        PROVE  AccessTypeOK'
    <3>1. \/ \E stage \in Stages : GoTo(c, stage)
          \/ \E uid \in Users :
               Now(c, [calls[c] EXCEPT !.at = "act", !.uid = uid])
      <4>1. calls[c].header \in Users /\ calls[c].token \in Tokens
        BY DEF AccessTypeOK
      <4>2. \A who \in Identity(calls[c].token) : who.uid \in Users
        BY <4>1, IdentityOf, KeysAssumption
      <4> QED  BY <2>3, <4>1, <4>2 DEF TenantActive, TenantKey, Stages
    <3>2. \A uid \in Users :
            [calls[c] EXCEPT !.at = "act", !.uid = uid] \in CallRecord
      BY DEF AccessTypeOK, CallRecord, Stages
    <3>3. calls' \in [Callers -> CallRecord]
      BY <3>1, <3>2, GoToType, NowType
    <3> QED
      BY <2>3, <3>3 DEF TenantActive, TenantKey, AccessTypeOK, CallRecord
  <2>4. ASSUME NEW c \in Callers, Act(c) PROVE AccessTypeOK'
    <3>1. calls' \in [Callers -> CallRecord]
      BY <2>4, GoToType DEF Act, Stages
    <3>2. keys' \in [Keys -> {"none", "valid", "revoked"}]
      BY <2>4 DEF Act, Mint, AccessTypeOK
    <3>3. log' \subseteq [uid : Users, caller : Callers]
      BY <2>4 DEF Act, Record, AccessTypeOK
    <3> QED  BY <2>4, <3>1, <3>2, <3>3 DEF Act, AccessTypeOK, CallRecord
  <2>5. ASSUME NEW k \in Keys, Revoke(k) PROVE AccessTypeOK'
    BY <2>5 DEF Revoke, AccessTypeOK, InFlight
  <2>6. CASE UNCHANGED accessVars
    BY <2>6 DEF accessVars, AccessTypeOK
  <2> QED  BY <2>1, <2>2, <2>3, <2>4, <2>5, <2>6 DEF AccessNext
<1> QED  BY <1>1, <1>2, PTL DEF AccessSpec
-----------------------------------------------------------------------------
(* ActsAsItsKey is not inductive.  What makes it so: auth has been active  *)
(* during each request that is not in `opened', a key revoked stays so,    *)
(* and what the first resolve has found is remembered by where it led.     *)
ActiveDuring == \A c \in InFlight : c \in opened \/ Active

StaleIsRevoked ==
    \A c \in stale : /\ calls[c].at # "idle" /\ calls[c].token \in Keys
                     /\ keys[calls[c].token] = "revoked"

AdminWrites ==
    \A c \in Callers :
        /\ c \notin opened /\ calls[c].op # "read"
        /\ calls[c].at \in {"tenant_active", "tenant_key", "act", "done"}
        => \/ calls[c].token = Master
           \/ /\ calls[c].token \in Keys
              /\ KeyRole[calls[c].token] = "admin"

TenantOfKey ==
    \A c \in Callers :
        c \notin opened /\ calls[c].at \in {"act", "done"} =>
            /\ c \notin stale
            /\ \/ calls[c].token = Master /\ calls[c].uid = DefaultUser
               \/ /\ calls[c].token \in Keys
                  /\ calls[c].uid = KeyUser[calls[c].token]

LogOfDone ==
    \A entry \in log :
        /\ calls[entry.caller].at = "done" /\ calls[entry.caller].op # "read"
        /\ entry.uid = calls[entry.caller].uid

AccessInv == /\ AccessTypeOK /\ ActiveDuring /\ StaleIsRevoked
             /\ AdminWrites /\ TenantOfKey /\ LogOfDone

LEMMA AccessStepInv ==
    AccessInv /\ AccessTypeOK' /\ [AccessNext]_accessVars => AccessInv'
<1> SUFFICES ASSUME AccessInv, AccessTypeOK', [AccessNext]_accessVars
             PROVE  AccessInv'
  OBVIOUS
<1>0. AccessTypeOK
  BY DEF AccessInv
<1> DEFINE Unmoved(c) == \A d \in Callers \ {c} : calls'[d] = calls[d]
<1>1. ASSUME NEW c \in Callers, Arrive(c) PROVE AccessInv'
  <2>1. /\ Unmoved(c) /\ calls[c].at = "idle"
        /\ calls'[c].at \in {"tenant_active", "role_active"}
        /\ calls'[c].at = "tenant_active" => calls'[c].op = "read"
        /\ IF calls'[c].token \in Keys /\ keys[calls'[c].token] = "revoked"
           THEN stale' = stale \union {c} ELSE stale' = stale
    BY <1>0, <1>1 DEF Arrive, Now, AccessTypeOK
  <2>2. ActiveDuring'
    BY <1>1, <2>1 DEF Arrive, ActiveDuring, InFlight, Active, AccessInv
  <2>3. StaleIsRevoked'
    BY <1>0, <1>1, <2>1 DEF Arrive, StaleIsRevoked, AccessInv, AccessTypeOK
  <2>4. AdminWrites'
    BY <1>1, <2>1 DEF Arrive, AdminWrites, AccessInv
  <2>5. TenantOfKey'
    BY <1>1, <2>1 DEF Arrive, TenantOfKey, AccessInv
  <2>6. LogOfDone'
    BY <1>0, <1>1, <2>1 DEF Arrive, LogOfDone, AccessInv, AccessTypeOK
  <2> QED  BY <2>2, <2>3, <2>4, <2>5, <2>6 DEF AccessInv
<1>2. ASSUME NEW c \in Callers, RoleActive(c) PROVE AccessInv'
  <2>1. /\ Unmoved(c) /\ calls[c].at = "role_active"
        /\ calls'[c].at = IF Active THEN "role_key" ELSE "tenant_active"
        /\ calls'[c].op = calls[c].op /\ calls'[c].token = calls[c].token
    BY <1>0, <1>2 DEF RoleActive, GoTo, Now, AccessTypeOK
  <2>2. c \in opened \/ Active
    BY <2>1 DEF AccessInv, ActiveDuring, InFlight
  <2>3. ActiveDuring'
    BY <1>2, <2>1, <2>2
       DEF RoleActive, ActiveDuring, InFlight, Active, AccessInv
  <2>4. StaleIsRevoked'
    BY <1>0, <1>2, <2>1 DEF RoleActive, StaleIsRevoked, AccessInv, AccessTypeOK
  <2>5. AdminWrites'
    BY <1>2, <2>1, <2>2 DEF RoleActive, AdminWrites, AccessInv
  <2>6. TenantOfKey'
    BY <1>2, <2>1 DEF RoleActive, TenantOfKey, AccessInv
  <2>7. LogOfDone'
    BY <1>0, <1>2, <2>1 DEF RoleActive, LogOfDone, AccessInv, AccessTypeOK
  <2> QED  BY <2>3, <2>4, <2>5, <2>6, <2>7 DEF AccessInv
<1>3. ASSUME NEW c \in Callers, RoleKey(c) PROVE AccessInv'
  <2>1. /\ Unmoved(c) /\ calls[c].at = "role_key"
        /\ calls'[c].at =
             IF \E who \in Identity(calls[c].token) : who.role = "admin"
             THEN "tenant_active" ELSE "refused"
        /\ calls'[c].op = calls[c].op /\ calls'[c].token = calls[c].token
    BY <1>0, <1>3 DEF RoleKey, GoTo, Now, AccessTypeOK
  <2>2. calls'[c].at = "tenant_active" =>
          \/ calls[c].token = Master
          \/ calls[c].token \in Keys /\ KeyRole[calls[c].token] = "admin"
    BY <1>0, <2>1, IdentityOf DEF AccessTypeOK
  <2>3. ActiveDuring'
    BY <1>3, <2>1 DEF RoleKey, ActiveDuring, InFlight, Active, AccessInv
  <2>4. StaleIsRevoked'
    BY <1>0, <1>3, <2>1 DEF RoleKey, StaleIsRevoked, AccessInv, AccessTypeOK
  <2>5. AdminWrites'
    BY <1>3, <2>1, <2>2 DEF RoleKey, AdminWrites, AccessInv
  <2>6. TenantOfKey'
    BY <1>3, <2>1 DEF RoleKey, TenantOfKey, AccessInv
  <2>7. LogOfDone'
    BY <1>0, <1>3, <2>1 DEF RoleKey, LogOfDone, AccessInv, AccessTypeOK
  <2> QED  BY <2>3, <2>4, <2>5, <2>6, <2>7 DEF AccessInv
<1>4. ASSUME NEW c \in Callers, TenantActive(c) \/ TenantKey(c)
      PROVE  AccessInv'
  <2>1. /\ Unmoved(c) /\ calls[c].at \in {"tenant_active", "tenant_key"}
        /\ calls'[c].at \in {"tenant_key", "act", "refused"}
        /\ calls'[c].op = calls[c].op /\ calls'[c].token = calls[c].token
    <3>1. ASSUME NEW stage, GoTo(c, stage)
          PROVE  /\ Unmoved(c) /\ calls'[c].at = stage
                 /\ calls'[c].op = calls[c].op
                 /\ calls'[c].token = calls[c].token
      BY <1>0, <3>1 DEF GoTo, Now, AccessTypeOK
    <3>2. ASSUME NEW uid,
                 Now(c, [calls[c] EXCEPT !.at = "act", !.uid = uid])
          PROVE  /\ Unmoved(c) /\ calls'[c].at = "act"
                 /\ calls'[c].op = calls[c].op
                 /\ calls'[c].token = calls[c].token
      BY <1>0, <3>2 DEF Now, AccessTypeOK
    <3> QED  BY <1>4, <3>1, <3>2 DEF TenantActive, TenantKey
  <2>2. UNCHANGED <<master, keys, log, opened, stale>>
    BY <1>4 DEF TenantActive, TenantKey
  <2>3. c \in opened \/ Active
    BY <2>1 DEF AccessInv, ActiveDuring, InFlight
  <2>4. c \notin opened /\ calls'[c].at = "act" =>
          \E who \in Identity(calls[c].token) : calls'[c].uid = who.uid
    BY <1>0, <1>4, <2>3 DEF TenantActive, TenantKey, GoTo, Now, AccessTypeOK
  <2>5. c \notin opened /\ calls'[c].at = "act" =>
          \/ calls[c].token = Master /\ calls'[c].uid = DefaultUser
          \/ /\ calls[c].token \in Keys /\ keys[calls[c].token] = "valid"
             /\ calls'[c].uid = KeyUser[calls[c].token]
    BY <1>0, <2>4, IdentityOf DEF AccessTypeOK
  <2>6. ActiveDuring'
    BY <2>2, <2>1, <2>3 DEF ActiveDuring, InFlight, Active, AccessInv
  <2>7. StaleIsRevoked'
    BY <1>0, <2>2, <2>1 DEF StaleIsRevoked, AccessInv, AccessTypeOK
  <2>8. AdminWrites'
    BY <2>2, <2>1 DEF AdminWrites, AccessInv
  <2>9. TenantOfKey'
    BY <2>2, <2>1, <2>5, TokensAssumption
       DEF TenantOfKey, StaleIsRevoked, AccessInv
  <2>10. LogOfDone'
    BY <1>0, <2>2, <2>1 DEF LogOfDone, AccessInv, AccessTypeOK
  <2> QED  BY <2>6, <2>7, <2>8, <2>9, <2>10 DEF AccessInv
<1>5. ASSUME NEW c \in Callers, Act(c) PROVE AccessInv'
  <2>1. /\ Unmoved(c) /\ calls[c].at = "act" /\ calls'[c].at = "done"
        /\ calls'[c].op = calls[c].op /\ calls'[c].token = calls[c].token
        /\ calls'[c].uid = calls[c].uid
    BY <1>0, <1>5 DEF Act, GoTo, Now, AccessTypeOK
  <2>2. \A k \in Keys : keys[k] # "none" => keys'[k] = keys[k]
    BY <1>0, <1>5 DEF Act, Mint, AccessTypeOK
  <2>3. \A entry \in log' :
          entry \in log \/ /\ entry = [uid |-> calls[c].uid, caller |-> c]
                           /\ calls[c].op # "read"
    BY <1>5 DEF Act, Record
  <2>4. ActiveDuring'
    BY <1>5, <2>1, <2>2 DEF Act, ActiveDuring, InFlight, Active, AccessInv
  <2>5. StaleIsRevoked'
    BY <1>0, <1>5, <2>1, <2>2
       DEF Act, StaleIsRevoked, AccessInv, AccessTypeOK
  <2>6. AdminWrites'
    BY <1>5, <2>1 DEF Act, AdminWrites, AccessInv
  <2>7. TenantOfKey'
    BY <1>5, <2>1 DEF Act, TenantOfKey, AccessInv
  <2>8. LogOfDone'
    BY <1>0, <2>1, <2>3 DEF LogOfDone, AccessInv, AccessTypeOK
  <2> QED  BY <2>4, <2>5, <2>6, <2>7, <2>8 DEF AccessInv
<1>6. ASSUME NEW k \in Keys, Revoke(k) PROVE AccessInv'
  <2>1. /\ calls' = calls /\ stale' = stale /\ log' = log
        /\ opened \subseteq opened'
        /\ \A x \in Keys : keys[x] = "revoked" => keys'[x] = "revoked"
    BY <1>0, <1>6 DEF Revoke, AccessTypeOK
  <2>2. ActiveDuring'
    BY <1>6, <2>1 DEF Revoke, ActiveDuring, InFlight, AccessInv
  <2>3. StaleIsRevoked'
    BY <2>1 DEF StaleIsRevoked, AccessInv
  <2>4. AdminWrites' /\ TenantOfKey' /\ LogOfDone'
    BY <2>1 DEF AdminWrites, TenantOfKey, LogOfDone, AccessInv
  <2> QED  BY <2>2, <2>3, <2>4 DEF AccessInv
<1>7. CASE UNCHANGED accessVars
  BY <1>7 DEF accessVars, AccessInv, ActiveDuring, StaleIsRevoked, AdminWrites,
              TenantOfKey, LogOfDone, InFlight, Active
<1> QED  BY <1>1, <1>2, <1>3, <1>4, <1>5, <1>6, <1>7 DEF AccessNext

(* `The KEY determines the tenant', `fails CLOSED': for any requests, and  *)
(* whatever keys are minted and revoked between their reads of the table.  *)
THEOREM ActsAsItsKeyHolds == AccessSpec => []ActsAsItsKey
<1>1. AccessInit /\ AccessTypeOK => AccessInv
  BY DEF AccessInit, AccessInv, ActiveDuring, StaleIsRevoked, AdminWrites,
         TenantOfKey, LogOfDone, InFlight
<1>2. AccessInv => ActsAsItsKey
  <2> SUFFICES ASSUME AccessInv, NEW c \in Callers
               PROVE
        /\ calls[c].at \in {"act", "done"} /\ c \notin opened =>
             /\ c \notin stale /\ calls[c].token # NoToken
             /\ calls[c].uid = IF calls[c].token = Master THEN DefaultUser
                               ELSE KeyUser[calls[c].token]
             /\ calls[c].op # "read" =>
                  \/ calls[c].token = Master
                  \/ KeyRole[calls[c].token] = "admin"
        /\ \A entry \in log :
             entry.caller = c =>
                 /\ calls[c].at = "done" /\ calls[c].op # "read"
                 /\ entry.uid = calls[c].uid
    BY DEF ActsAsItsKey
  <2> QED
    BY TokensAssumption DEF AccessInv, TenantOfKey, AdminWrites, LogOfDone
<1> QED
  BY <1>1, <1>2, AccessStepInv, AccessTypeCorrect, PTL DEF AccessSpec

-----------------------------------------------------------------------------

(* Registration: whose a source is.                                        *)

RowRecord == [user : Owners \union {Anyone},
              status : {"absent", "pending", "queued", "fetching"}
                         \union Finished]
TaskRecord == [id : Ids \union {Anyone}, user : Owners \union {Anyone},
               stage : {"free", "fetch", "index"}]

(* StartTask takes a free slot, and keeps the type of the slots.           *)
LEMMA StartTaskType ==
    ASSUME DoorTypeOK, NEW i \in Ids, NEW o \in Owners \union {Anyone},
           StartTask(i, o)
    PROVE  /\ task' \in [Tasks -> TaskRecord]
           /\ \E t \in Tasks :
                /\ task[t].stage = "free"
                /\ task'[t] = [id |-> i, user |-> o, stage |-> "fetch"]
                /\ \A v \in Tasks \ {t} : task'[v] = task[v]
BY DEF DoorTypeOK, StartTask, TaskRecord

LEMMA LeaveOrEnqueueType ==
    ASSUME DoorTypeOK, NEW i \in Ids, NEW o \in Owners,
           LeaveOrEnqueue(o, i)
    PROVE  task' \in [Tasks -> TaskRecord]
<1>1. CASE fair
  BY <1>1 DEF LeaveOrEnqueue, DoorTypeOK, TaskRecord
<1>2. CASE ~fair
  BY <1>2, StartTaskType DEF LeaveOrEnqueue
<1> QED BY <1>1, <1>2

LEMMA UpsertType ==
    ASSUME DoorTypeOK, NEW i \in Ids, NEW o \in Owners, UpsertPending(o, i)
    PROVE  row' \in [Ids -> RowRecord]
BY DEF DoorTypeOK, UpsertPending, RowRecord

LEMMA SetRowType ==
    ASSUME DoorTypeOK, NEW i \in Ids,
           NEW s \in {"queued", "fetching"} \union Finished, SetRow(i, s)
    PROVE  row' \in [Ids -> RowRecord]
BY DEF DoorTypeOK, SetRow, RowRecord, Finished, Present
-----------------------------------------------------------------------------
(* The types, and that a slot without a run has no id: inductive.          *)
SlotsOK == \A t \in Tasks : task[t].stage = "free" <=> task[t].id = Anyone
DoorInv == DoorTypeOK /\ SlotsOK

LEMMA DoorInitInv == DoorInit => DoorInv
BY RegistrationAssumption
   DEF DoorInit, DoorInv, DoorTypeOK, SlotsOK, NoRow, NoTask, Ids, Finished

LEMMA StartTaskSlots ==
    ASSUME DoorInv, NEW i \in Ids, NEW o \in Owners \union {Anyone},
           StartTask(i, o)
    PROVE  SlotsOK'
<1>1. DoorTypeOK /\ i # Anyone
  BY RegistrationAssumption DEF DoorInv, Ids
<1>2. PICK t \in Tasks :
        /\ task[t].stage = "free"
        /\ task'[t] = [id |-> i, user |-> o, stage |-> "fetch"]
        /\ \A v \in Tasks \ {t} : task'[v] = task[v]
  BY <1>1, StartTaskType
<1> QED  BY <1>1, <1>2 DEF SlotsOK, DoorInv

LEMMA LeaveOrEnqueueSlots ==
    ASSUME DoorInv, NEW i \in Ids, NEW o \in Owners, LeaveOrEnqueue(o, i)
    PROVE  SlotsOK'
<1>1. CASE fair
  BY <1>1 DEF LeaveOrEnqueue, SlotsOK, DoorInv
<1>2. CASE ~fair
  BY <1>2, StartTaskSlots DEF LeaveOrEnqueue
<1> QED  BY <1>1, <1>2

LEMMA DoorStepInv == DoorInv /\ [DoorNext]_doorVars => DoorInv'
<1> SUFFICES ASSUME DoorInv, [DoorNext]_doorVars PROVE DoorInv'
  OBVIOUS
<1> USE DEF fixedVars
<1>0. DoorTypeOK /\ SlotsOK /\ Uploads \subseteq Ids /\ Films \subseteq Ids
  BY DEF DoorInv, Ids
<1>1. ASSUME NEW o \in Owners, NEW u \in Uploads, Presign(o, u)
      PROVE  DoorInv'
  BY <1>0, <1>1 DEF Presign, DoorInv, DoorTypeOK, SlotsOK
<1>2. ASSUME NEW o \in Owners, NEW u \in Uploads, HeadObject(o, u)
      PROVE  DoorInv'
  BY <1>0, <1>2 DEF HeadObject, DeleteKey, DoorInv, DoorTypeOK, SlotsOK
<1>3. ASSUME NEW o \in Owners, NEW u \in Uploads, RegisterUpload(o, u)
      PROVE  DoorInv'
  <2>1. task' \in [Tasks -> TaskRecord] /\ row' \in [Ids -> RowRecord]
    BY <1>0, <1>3, LeaveOrEnqueueType, UpsertType DEF RegisterUpload
  <2>2. SlotsOK'
    BY <1>0, <1>3, LeaveOrEnqueueSlots DEF RegisterUpload
  <2> QED  BY <1>0, <1>3, <2>1, <2>2
           DEF RegisterUpload, DoorInv, DoorTypeOK, RowRecord, TaskRecord
<1>4. ASSUME NEW o \in Owners, NEW f \in Films, RegisterFilm(o, f)
      PROVE  DoorInv'
  <2>1. task' \in [Tasks -> TaskRecord] /\ row' \in [Ids -> RowRecord]
    BY <1>0, <1>4, LeaveOrEnqueueType, UpsertType DEF RegisterFilm
  <2>2. SlotsOK'
    BY <1>0, <1>4, LeaveOrEnqueueSlots DEF RegisterFilm
  <2> QED  BY <1>0, <1>4, <2>1, <2>2
           DEF RegisterFilm, DoorInv, DoorTypeOK, RowRecord, TaskRecord
<1>5. ASSUME NEW o \in Owners, NEW i \in Ids, Retry(o, i)
      PROVE  DoorInv'
  <2>1. task' \in [Tasks -> TaskRecord] /\ SlotsOK'
    BY <1>0, <1>5, LeaveOrEnqueueType, LeaveOrEnqueueSlots DEF Retry
  <2>2. row' \in [Ids -> RowRecord]
    BY <1>0, <1>5 DEF Retry, DoorTypeOK, RowRecord
  <2> QED  BY <1>0, <1>5, <2>1, <2>2
           DEF Retry, DoorInv, DoorTypeOK, RowRecord, TaskRecord
<1>6. ASSUME NEW o \in Owners, NEW i \in Ids, Delete(o, i)
      PROVE  DoorInv'
  <2>1. object' \in [Uploads -> {"none", "partial", "good", "big"}]
    BY <1>0, <1>6 DEF Delete, DeleteKey, DoorTypeOK
  <2>2. tag' \in [Ids -> Owners \union {Anyone}]
    BY <1>0, <1>6 DEF Delete, DoorTypeOK
  <2>3. row' \in [Ids -> RowRecord]
    BY <1>0, <1>6 DEF Delete, DoorTypeOK, NoRow, RowRecord
  <2> QED  BY <1>0, <1>6, <2>1, <2>2, <2>3
           DEF Delete, DoorInv, DoorTypeOK, RowRecord, SlotsOK
<1>7. ASSUME NEW u \in Uploads, Put(u) \/ UploadDirect(u)
      PROVE  DoorInv'
  <2>1. object' \in [Uploads -> {"none", "partial", "good", "big"}]
    BY <1>0, <1>7 DEF Put, UploadDirect, DoorTypeOK
  <2> QED  BY <1>0, <1>7, <2>1
           DEF Put, UploadDirect, DoorInv, DoorTypeOK, SlotsOK
<1>8. ASSUME NEW i \in Ids, Dispatch(i) \/ Reconcile(i)
      PROVE  DoorInv'
  <2>1. row[i].user \in Owners \union {Anyone} /\ StartTask(i, row[i].user)
    BY <1>0, <1>8 DEF Dispatch, Reconcile, DoorTypeOK
  <2>2. task' \in [Tasks -> TaskRecord] /\ SlotsOK'
    BY <1>0, <2>1, StartTaskType, StartTaskSlots
  <2>3. row' \in [Ids -> RowRecord]
    <3>1. row \in [Ids -> RowRecord]
      BY <1>0 DEF DoorTypeOK, RowRecord
    <3>2. [row[i] EXCEPT !.status = "queued"] \in RowRecord
      BY <3>1 DEF RowRecord
    <3>3. row' = [row EXCEPT ![i].status = "queued"]
      BY <1>8 DEF Dispatch, Reconcile
    <3> QED  BY <3>1, <3>2, <3>3
  <2> QED  BY <1>0, <1>8, <2>2, <2>3
           DEF Dispatch, Reconcile, DoorInv, DoorTypeOK, RowRecord, TaskRecord
<1>9. ASSUME NEW t \in Tasks, Fetch(t) \/ Index(t) \/ TaskDies(t)
      PROVE  DoorInv'
  <2>1. task[t].stage # "free" /\ task[t].id \in Ids
    BY <1>0, <1>9 DEF Fetch, Index, TaskDies, DoorTypeOK, SlotsOK
  <2>2. task' \in [Tasks -> TaskRecord] /\ SlotsOK'
    <3>1. task \in [Tasks -> TaskRecord] /\ NoTask \in TaskRecord
      BY <1>0 DEF DoorTypeOK, TaskRecord, NoTask
    <3>2. CASE EndTask(t)
      BY <1>0, <3>1, <3>2 DEF EndTask, NoTask, SlotsOK
    <3>3. CASE task' = [task EXCEPT ![t].stage = "index"]
      <4>1. [task[t] EXCEPT !.stage = "index"] \in TaskRecord
        BY <3>1 DEF TaskRecord
      <4>2. task' \in [Tasks -> TaskRecord]
        BY <3>1, <3>3, <4>1
      <4>3. task'[t].stage = "index" /\ task'[t].id = task[t].id
        BY <3>1, <3>3 DEF TaskRecord
      <4>4. task[t].id # Anyone
        BY <1>0, <2>1 DEF SlotsOK
      <4> QED  BY <1>0, <3>1, <3>3, <4>2, <4>3, <4>4 DEF SlotsOK
    <3> QED  BY <1>9, <3>2, <3>3 DEF Fetch, Index, TaskDies
  <2>3. row' \in [Ids -> RowRecord]
    <3>1. CASE TaskDies(t)
      BY <1>0, <3>1 DEF TaskDies, DoorTypeOK, RowRecord
    <3>2. CASE Fetch(t)
      BY <1>0, <2>1, <3>2, SetRowType DEF Fetch, Finished
    <3>3. CASE Index(t)
      BY <1>0, <2>1, <3>3, SetRowType DEF Index, Finished
    <3> QED  BY <1>9, <3>1, <3>2, <3>3
  <2>4. tag' \in [Ids -> Owners \union {Anyone}]
    BY <1>0, <1>9, <2>1 DEF Fetch, Index, TaskDies, DoorTypeOK
  <2> QED  BY <1>0, <1>9, <2>2, <2>3, <2>4
           DEF Fetch, Index, TaskDies, DoorInv, DoorTypeOK, RowRecord,
               TaskRecord
<1>10. CASE UNCHANGED doorVars
  BY <1>0, <1>10 DEF doorVars, DoorInv, DoorTypeOK, SlotsOK
<1> QED
  BY <1>1, <1>2, <1>3, <1>4, <1>5, <1>6, <1>7, <1>8, <1>9, <1>10 DEF DoorNext

(* api/videos.py and what it sets going keep the types of DoorTypeOK.      *)
THEOREM DoorTypeCorrect == DoorSpec => []DoorTypeOK
<1>1. DoorInv => DoorTypeOK
  BY DEF DoorInv
<1> QED  BY <1>1, DoorInitInv, DoorStepInv, PTL DEF DoorSpec
-----------------------------------------------------------------------------
(* Nobody but who deletes a row takes it from its tenant, and a sample's   *)
(* row is not deleted, for any number of tenants, however hasty they are.  *)
THEOREM OwnerKeptHolds == DoorSpec => OwnerKept
<1> DEFINE Kept ==
      \A i \in Ids :
        /\ Present(i) /\ Present(i)' => row'[i].user = row[i].user
        /\ i \in SampleFilms /\ Present(i) => Present(i)'
<1>1. DoorInv /\ [DoorNext]_doorVars => [Kept]_doorVars
  <2> SUFFICES ASSUME DoorInv, DoorNext PROVE Kept
    OBVIOUS
  <2> USE DEF Present
  <2>0. /\ DoorTypeOK /\ SlotsOK
        /\ Uploads \subseteq Ids /\ Films \subseteq Ids
    BY DEF DoorInv, Ids
  <2>1. ASSUME row' = row PROVE Kept
    BY <2>1
  <2>2. ASSUME NEW o \in Owners, NEW i \in Ids, UpsertPending(o, i)
        PROVE  Kept
    BY <2>0, <2>2 DEF UpsertPending, DoorTypeOK
  <2>3. ASSUME NEW i \in Ids, NEW s, s # "absent",
               row' = [row EXCEPT ![i].status = s]
        PROVE  Kept
    BY <2>0, <2>3 DEF DoorTypeOK
  <2>4. ASSUME NEW i \in Ids, NEW s, s # "absent", SetRow(i, s)
        PROVE  Kept
    BY <2>0, <2>4 DEF SetRow, DoorTypeOK
  <2>5. ASSUME NEW o \in Owners, NEW i \in Ids, Delete(o, i)
        PROVE  Kept
    BY <2>0, <2>5 DEF Delete, NoRow, DoorTypeOK
  <2>6. ASSUME NEW o \in Owners,
               \/ \E u \in Uploads :
                    Presign(o, u) \/ HeadObject(o, u) \/ RegisterUpload(o, u)
               \/ \E f \in Films : RegisterFilm(o, f)
        PROVE  Kept
    BY <2>0, <2>1, <2>2, <2>6
       DEF Presign, HeadObject, RegisterUpload, RegisterFilm
  <2>7. ASSUME NEW i \in Ids, NEW o \in Owners, Retry(o, i) PROVE Kept
    BY <2>3, <2>7 DEF Retry
  <2>8. ASSUME NEW u \in Uploads, Put(u) \/ UploadDirect(u) PROVE Kept
    BY <2>1, <2>8 DEF Put, UploadDirect
  <2>9. ASSUME NEW i \in Ids, Dispatch(i) \/ Reconcile(i) PROVE Kept
    BY <2>3, <2>9 DEF Dispatch, Reconcile
  <2>10. ASSUME NEW t \in Tasks, Fetch(t) \/ Index(t) \/ TaskDies(t)
         PROVE  Kept
    <3>1. task[t].stage # "free" /\ task[t].id \in Ids
      BY <2>0, <2>10 DEF Fetch, Index, TaskDies, DoorTypeOK, SlotsOK
    <3> QED  BY <2>1, <2>4, <2>10, <3>1 DEF Fetch, Index, TaskDies
  <2> QED
    BY <2>5, <2>6, <2>7, <2>8, <2>9, <2>10 DEF DoorNext
<1> QED  BY <1>1, DoorInitInv, DoorStepInv, PTL DEF DoorSpec, OwnerKept
-----------------------------------------------------------------------------
(* FoundByOwner is not inductive: a run must also work for the user of its *)
(* row, no row have two runs, and no row in flight be registered again.    *)
RunsOfRows ==
    \A t \in Tasks :
        task[t].stage # "free" =>
            /\ row[task[t].id].status \in {"queued", "fetching"}
            /\ row[task[t].id].user = task[t].user
OneRunEach ==
    \A t, v \in Tasks :
        task[t].stage # "free" /\ task[v].id = task[t].id => t = v
CheckedAtRest ==
    \A u \in checked : row[u].status \in Finished \union {"absent"}
Tagged == \A i \in Ids : row[i].status = "indexed" => tag[i] = row[i].user

AtPeace == fair /\ "hasty" \notin habits
Tidy == RunsOfRows /\ OneRunEach /\ CheckedAtRest /\ Tagged

(* A step that may touch the rows and points of one id only, when that id  *)
(* has no run, and starts none.                                            *)
LEMMA TidyWithoutRun ==
    ASSUME DoorInv, Tidy, NEW i \in Ids,
           task' = task,
           \A t \in Tasks : task[t].id # i,
           \A j \in Ids \ {i} : row'[j] = row[j] /\ tag'[j] = tag[j],
           row'[i].status \in {"absent", "pending", "failed"},
           checked' \subseteq checked,
           i \notin checked' \/ row'[i].status # "pending"
    PROVE  Tidy'
<1>1. DoorTypeOK /\ SlotsOK /\ checked \subseteq Ids
  BY DEF DoorInv, DoorTypeOK, Ids
<1>2. \A t \in Tasks : task[t].stage # "free" => task[t].id \in Ids \ {i}
  BY <1>1 DEF DoorTypeOK, SlotsOK
<1>3. RunsOfRows'
  BY <1>2 DEF Tidy, RunsOfRows
<1>4. OneRunEach'
  BY DEF Tidy, OneRunEach
<1>5. CheckedAtRest'
  BY <1>1 DEF Tidy, CheckedAtRest, Finished
<1>6. Tagged'
  BY DEF Tidy, Tagged
<1> QED  BY <1>3, <1>4, <1>5, <1>6 DEF Tidy

(* A new run of a row that had none, for the row's user.                   *)
LEMMA TidyNewRun ==
    ASSUME DoorInv, Tidy, NEW i \in Ids, i \notin checked,
           \A t \in Tasks : task[t].id # i,
           StartTask(i, row[i].user),
           row' = [row EXCEPT ![i].status = "queued"],
           checked' = checked, tag' = tag
    PROVE  Tidy'
<1>1. DoorTypeOK /\ SlotsOK /\ checked \subseteq Ids /\ Anyone \notin Ids
  BY RegistrationAssumption DEF DoorInv, DoorTypeOK, Ids
<1>2. row[i].user \in Owners \union {Anyone}
  BY <1>1 DEF DoorTypeOK
<1>3. PICK t \in Tasks :
        /\ task[t].stage = "free"
        /\ task'[t] = [id |-> i, user |-> row[i].user, stage |-> "fetch"]
        /\ \A v \in Tasks \ {t} : task'[v] = task[v]
  BY <1>1, <1>2, StartTaskType
<1>4. /\ row'[i].status = "queued" /\ row'[i].user = row[i].user
      /\ \A j \in Ids \ {i} : row'[j] = row[j]
  BY <1>1 DEF DoorTypeOK
<1>5. \A v \in Tasks : task[v].stage # "free" => task[v].id \in Ids \ {i}
  BY <1>1 DEF DoorTypeOK, SlotsOK
<1>6. RunsOfRows'
  BY <1>3, <1>4, <1>5 DEF Tidy, RunsOfRows
<1>7. OneRunEach'
  BY <1>1, <1>3, <1>5 DEF Tidy, OneRunEach
<1>8. CheckedAtRest'
  BY <1>1, <1>4 DEF Tidy, CheckedAtRest
<1>9. Tagged'
  BY <1>4 DEF Tidy, Tagged
<1> QED  BY <1>6, <1>7, <1>8, <1>9 DEF Tidy

(* A run ends, its row set to what became of it.                           *)
LEMMA TidyRunEnds ==
    ASSUME DoorInv, Tidy, NEW t \in Tasks, task[t].stage # "free",
           EndTask(t), checked' = checked,
           NEW s \in {"failed", "indexed"},
           SetRow(task[t].id, s),
           IF s = "indexed"
           THEN tag' = [tag EXCEPT ![task[t].id] = task[t].user]
           ELSE tag' = tag
    PROVE  Tidy'
<1> DEFINE i == task[t].id
<1>1. /\ DoorTypeOK /\ SlotsOK /\ checked \subseteq Ids
      /\ Anyone \notin Ids /\ i \in Ids
  BY RegistrationAssumption DEF DoorInv, DoorTypeOK, SlotsOK, Ids
<1>2. /\ row[i].status \in {"queued", "fetching"}
      /\ row[i].user = task[t].user
  BY DEF Tidy, RunsOfRows
<1>3. /\ row'[i].status = s /\ row'[i].user = task[t].user
      /\ \A j \in Ids \ {i} : row'[j] = row[j]
  BY <1>1, <1>2 DEF SetRow, Present, DoorTypeOK
<1>4. /\ task'[t] = NoTask
      /\ \A v \in Tasks \ {t} : task'[v] = task[v] /\ task[v].id # i
  BY <1>1 DEF EndTask, DoorTypeOK, Tidy, OneRunEach
<1>5. \A v \in Tasks \ {t} :
        task[v].stage # "free" => task[v].id \in Ids \ {i}
  BY <1>1, <1>4 DEF DoorTypeOK, SlotsOK
<1>6. RunsOfRows'
  BY <1>3, <1>4, <1>5 DEF Tidy, RunsOfRows, NoTask
<1>7. OneRunEach'
  BY <1>1, <1>4, <1>5 DEF Tidy, OneRunEach, NoTask
<1>8. CheckedAtRest'
  BY <1>1, <1>3 DEF Tidy, CheckedAtRest, Finished
<1>9. Tagged'
  BY <1>1, <1>3 DEF Tidy, Tagged, DoorTypeOK
<1> QED  BY <1>6, <1>7, <1>8, <1>9 DEF Tidy

LEMMA FixedStays ==
    [DoorNext]_doorVars => UNCHANGED fixedVars /\ (AtPeace <=> AtPeace')
<1> SUFFICES ASSUME [DoorNext]_doorVars PROVE UNCHANGED fixedVars
  BY DEF AtPeace, fixedVars
<1> QED
  BY DEF DoorNext, doorVars, Presign, HeadObject, RegisterUpload,
         RegisterFilm, Retry, Delete, Put, UploadDirect, Dispatch, Reconcile,
         Fetch, Index, TaskDies

LEMMA TidyStep == DoorInv /\ AtPeace /\ Tidy /\ [DoorNext]_doorVars => Tidy'
<1> SUFFICES ASSUME DoorInv, AtPeace, Tidy, [DoorNext]_doorVars PROVE Tidy'
  OBVIOUS
<1>0. /\ DoorTypeOK /\ SlotsOK
      /\ Uploads \subseteq Ids /\ Films \subseteq Ids /\ checked \subseteq Ids
  BY DEF DoorInv, DoorTypeOK, Ids
<1> DEFINE Alone(i) == \A t \in Tasks : task[t].id # i
<1>a. ASSUME row' = row, task' = task, tag' = tag, checked' = checked
      PROVE  Tidy'
  BY <1>a DEF Tidy, RunsOfRows, OneRunEach, CheckedAtRest, Tagged
<1>b. ASSUME NEW i \in Ids, MayTouch(i)
      PROVE  /\ Alone(i) /\ i \notin checked
             /\ row[i].status \in Finished \union {"absent"}
  BY <1>b DEF AtPeace, MayTouch, Busy
<1>c. ASSUME NEW u \in checked
      PROVE  Alone(u) /\ row[u].status \in Finished \union {"absent"}
  <2>1. row[u].status \in Finished \union {"absent"}
    BY DEF Tidy, CheckedAtRest
  <2>2. ASSUME NEW t \in Tasks, task[t].id = u PROVE FALSE
    <3>1. task[t].stage # "free"
      BY <1>0, <2>2, RegistrationAssumption DEF SlotsOK, Ids
    <3> QED  BY <2>1, <2>2, <3>1 DEF Tidy, RunsOfRows, Finished
  <2> QED  BY <2>1, <2>2
<1>d. ASSUME NEW i \in Ids, Alone(i), NEW o \in Owners,
             UpsertPending(o, i), task' = task, tag' = tag,
             checked' = checked \ {i}
      PROVE  Tidy'
  <2>1. /\ row'[i].status = "pending"
        /\ \A j \in Ids \ {i} : row'[j] = row[j]
    BY <1>0, <1>d DEF UpsertPending, DoorTypeOK
  <2> QED  BY <1>d, <2>1, TidyWithoutRun
<1>1. ASSUME NEW o \in Owners, NEW u \in Uploads, Presign(o, u)
      PROVE  Tidy'
  BY <1>1, <1>a DEF Presign
<1>2. ASSUME NEW o \in Owners, NEW u \in Uploads, HeadObject(o, u)
      PROVE  Tidy'
  <2>1. row[u].status \in Finished \union {"absent"}
    BY <1>0, <1>2, <1>b DEF HeadObject
  <2>2. CheckedAtRest'
    BY <1>2, <2>1 DEF HeadObject, Tidy, CheckedAtRest
  <2> QED  BY <1>2, <2>2 DEF HeadObject, Tidy, RunsOfRows, OneRunEach, Tagged
<1>3. ASSUME NEW o \in Owners, NEW u \in Uploads, RegisterUpload(o, u)
      PROVE  Tidy'
  BY <1>0, <1>3, <1>c, <1>d DEF RegisterUpload, LeaveOrEnqueue, AtPeace
<1>4. ASSUME NEW o \in Owners, NEW f \in Films, RegisterFilm(o, f)
      PROVE  Tidy'
  <2>1. Alone(f) /\ f \notin checked
    BY <1>0, <1>4, <1>b DEF RegisterFilm
  <2>2. checked' = checked \ {f}
    BY <1>4, <2>1 DEF RegisterFilm
  <2> QED  BY <1>0, <1>4, <1>d, <2>1, <2>2
           DEF RegisterFilm, LeaveOrEnqueue, AtPeace
<1>5. ASSUME NEW o \in Owners, NEW i \in Ids, Retry(o, i)
      PROVE  Tidy'
  <2>1. Alone(i) /\ i \notin checked
    BY <1>5, <1>b DEF Retry
  <2>2. /\ row'[i].status = "pending"
        /\ \A j \in Ids \ {i} : row'[j] = row[j]
    BY <1>0, <1>5 DEF Retry, DoorTypeOK
  <2>3. task' = task /\ tag' = tag /\ checked' = checked
    BY <1>5 DEF Retry, LeaveOrEnqueue, AtPeace
  <2> QED  BY <2>1, <2>2, <2>3, TidyWithoutRun
<1>6. ASSUME NEW o \in Owners, NEW i \in Ids, Delete(o, i)
      PROVE  Tidy'
  <2>1. Alone(i) /\ i \notin checked
    BY <1>6, <1>b DEF Delete
  <2>2. /\ row'[i].status = "absent"
        /\ \A j \in Ids \ {i} : row'[j] = row[j] /\ tag'[j] = tag[j]
    BY <1>0, <1>6 DEF Delete, NoRow, DoorTypeOK
  <2>3. task' = task /\ checked' = checked
    BY <1>6 DEF Delete
  <2> QED  BY <2>1, <2>2, <2>3, TidyWithoutRun
<1>7. ASSUME NEW u \in Uploads, Put(u) \/ UploadDirect(u)
      PROVE  Tidy'
  BY <1>7, <1>a DEF Put, UploadDirect
<1>8. ASSUME NEW i \in Ids, Dispatch(i) \/ Reconcile(i)
      PROVE  Tidy'
  <2>1. row[i].status \notin Finished \union {"absent"}
    BY <1>8 DEF Dispatch, Reconcile, Present, Finished
  <2>2. i \notin checked
    BY <1>c, <2>1
  <2>3. Alone(i)
    <3>1. CASE Dispatch(i)
      <4>1. ASSUME NEW t \in Tasks, task[t].id = i PROVE FALSE
        <5>1. task[t].stage # "free"
          BY <1>0, <4>1, RegistrationAssumption DEF SlotsOK, Ids
        <5> QED  BY <3>1, <4>1, <5>1 DEF Dispatch, Tidy, RunsOfRows
      <4> QED  BY <4>1
    <3>2. CASE Reconcile(i)
      BY <3>2 DEF Reconcile
    <3> QED  BY <1>8, <3>1, <3>2
  <2> QED  BY <1>8, <2>2, <2>3, TidyNewRun DEF Dispatch, Reconcile
<1>9. ASSUME NEW t \in Tasks, Fetch(t)
      PROVE  Tidy'
  <2>1. task[t].stage # "free"
    BY <1>9 DEF Fetch
  <2>2. CASE EndTask(t) /\ SetRow(task[t].id, "failed")
    BY <1>9, <2>1, <2>2, TidyRunEnds DEF Fetch
  <2>3. CASE /\ task' = [task EXCEPT ![t].stage = "index"]
             /\ SetRow(task[t].id, "fetching")
    <3>1. task[t].id \in Ids
      BY <1>0, <2>1 DEF DoorTypeOK, SlotsOK
    <3>2. \A v \in Tasks :
            /\ task'[v].id = task[v].id /\ task'[v].user = task[v].user
            /\ task'[v].stage = "free" <=> task[v].stage = "free"
      BY <1>0, <2>1, <2>3 DEF DoorTypeOK
    <3>3. /\ row[task[t].id].status \in {"queued", "fetching"}
      BY <2>1 DEF Tidy, RunsOfRows
    <3>4. /\ row'[task[t].id].status = "fetching"
          /\ \A j \in Ids : row'[j].user = row[j].user
          /\ \A j \in Ids \ {task[t].id} : row'[j] = row[j]
      BY <1>0, <2>3, <3>1, <3>3 DEF SetRow, Present, DoorTypeOK
    <3>5. \A v \in Tasks : task[v].stage # "free" => task[v].id \in Ids
      BY <1>0 DEF DoorTypeOK, SlotsOK
    <3>6. task[t].id \notin checked
      BY <1>c, <3>3 DEF Finished
    <3>7. RunsOfRows'
      BY <3>2, <3>4, <3>5 DEF Tidy, RunsOfRows
    <3>8. OneRunEach'
      BY <3>2 DEF Tidy, OneRunEach
    <3>9. CheckedAtRest' /\ Tagged'
      BY <1>0, <1>9, <3>4, <3>6 DEF Fetch, Tidy, CheckedAtRest, Tagged
    <3> QED  BY <3>7, <3>8, <3>9 DEF Tidy
  <2> QED  BY <1>9, <2>2, <2>3 DEF Fetch
<1>10. ASSUME NEW t \in Tasks, Index(t)
       PROVE  Tidy'
  BY <1>10, TidyRunEnds DEF Index
<1>11. ASSUME NEW t \in Tasks, TaskDies(t)
       PROVE  Tidy'
  <2>1. /\ task'[t] = NoTask
        /\ \A v \in Tasks \ {t} : task'[v] = task[v]
    BY <1>0, <1>11 DEF TaskDies, EndTask, DoorTypeOK
  <2>2. \A v \in Tasks : task[v].stage # "free" => task[v].id # Anyone
    BY <1>0 DEF SlotsOK
  <2>3. RunsOfRows' /\ OneRunEach'
    BY <1>11, <2>1, <2>2
       DEF TaskDies, Tidy, RunsOfRows, OneRunEach, NoTask
  <2> QED  BY <1>11, <2>3 DEF TaskDies, Tidy, CheckedAtRest, Tagged
<1>12. CASE UNCHANGED doorVars
  BY <1>12, <1>a DEF doorVars
<1> QED
  BY <1>1, <1>2, <1>3, <1>4, <1>5, <1>6, <1>7, <1>8, <1>9, <1>10, <1>11,
     <1>12 DEF DoorNext

(* In fair mode, and while users leave alone what is in flight, a tenant   *)
(* finds what they have indexed, however many register the same film.      *)
THEOREM FoundByOwnerHolds == DoorSpec => []FoundByOwner
<1>1. DoorInit => Tidy
  BY RegistrationAssumption
     DEF DoorInit, Tidy, RunsOfRows, OneRunEach, CheckedAtRest, Tagged, NoRow,
         NoTask
<1>2. DoorInv /\ (AtPeace => Tidy) => FoundByOwner
  BY DEF Tidy, Tagged, AtPeace, FoundByOwner
<1>3. DoorInv /\ (AtPeace => Tidy) /\ [DoorNext]_doorVars
        => (AtPeace => Tidy)'
  BY FixedStays, TidyStep
<1> QED
  BY <1>1, <1>2, <1>3, DoorInitInv, DoorStepInv, PTL DEF DoorSpec
-----------------------------------------------------------------------------
(* UploadsChecked is of rows and of runs at work.  What is inductive says  *)
(* more: a row is only there once its URL was given to somebody; and when  *)
(* users upload and register once, the file is whole from the HEAD on, in  *)
(* whatever order row and runs come and go, until the row is deleted.      *)
RowsAreTheMinters ==
    \A u \in Uploads :
        Present(u) => minter[u] \in Owners /\ row[u].user = minter[u]

Known(u) == Present(u) \/ u \in checked \/ \E t \in Tasks : task[t].id = u
KnownAreWhole == \A u \in Uploads : Known(u) => object[u] = "good"

(* The rows of uploads are those of who was given the URL: a step that     *)
(* leaves users and minters alone, and makes no row present, keeps it.     *)
LEMMA MintersKept ==
    ASSUME DoorInv, RowsAreTheMinters, [DoorNext]_doorVars
    PROVE  RowsAreTheMinters'
<1> USE DEF fixedVars, RowsAreTheMinters, Present
<1>0. /\ DoorTypeOK /\ SlotsOK /\ Anyone \notin Owners
      /\ Uploads \subseteq Ids /\ Films \subseteq Ids
      /\ Uploads \intersect Films = {}
  BY RegistrationAssumption DEF DoorInv, Ids
<1>a. ASSUME row' = row, minter' = minter PROVE RowsAreTheMinters'
  BY <1>a
<1>b. ASSUME NEW i \in Ids, NEW s,
             Present(i), row' = [row EXCEPT ![i].status = s], minter' = minter
      PROVE  RowsAreTheMinters'
  <2>1. \A j \in Ids : /\ row'[j].user = row[j].user
                       /\ row'[j].status # "absent" => Present(j)
    BY <1>0, <1>b DEF DoorTypeOK
  <2> QED  BY <1>0, <1>b, <2>1
<1>c. ASSUME NEW i \in Ids, NEW s, SetRow(i, s), minter' = minter
      PROVE  RowsAreTheMinters'
  <2>1. \A j \in Ids : /\ row'[j].user = row[j].user
                       /\ row'[j].status # "absent" => Present(j)
    BY <1>0, <1>c DEF DoorTypeOK, SetRow
  <2> QED  BY <1>0, <1>c, <2>1
<1>1. ASSUME NEW o \in Owners, NEW u \in Uploads, Presign(o, u)
      PROVE  RowsAreTheMinters'
  <2>1. ~Present(u) /\ row' = row
    BY <1>0, <1>1 DEF Presign
  <2>2. \A v \in Uploads \ {u} : minter'[v] = minter[v]
    BY <1>0, <1>1 DEF Presign, DoorTypeOK
  <2> QED  BY <2>1, <2>2
<1>2. ASSUME NEW o \in Owners, NEW u \in Uploads, RegisterUpload(o, u)
      PROVE  RowsAreTheMinters'
  <2>1. /\ row'[u].user = minter[u] /\ minter[u] = o
        /\ \A j \in Ids \ {u} : row'[j] = row[j]
    BY <1>0, <1>2 DEF RegisterUpload, UpsertPending, DoorTypeOK
  <2> QED  BY <1>0, <1>2, <2>1 DEF RegisterUpload
<1>3. ASSUME NEW o \in Owners, NEW f \in Films, RegisterFilm(o, f)
      PROVE  RowsAreTheMinters'
  <2>1. \A u \in Uploads : row'[u] = row[u]
    BY <1>0, <1>3 DEF RegisterFilm, UpsertPending, DoorTypeOK
  <2> QED  BY <1>3, <2>1 DEF RegisterFilm
<1>4. ASSUME NEW o \in Owners, NEW i \in Ids, Retry(o, i)
      PROVE  RowsAreTheMinters'
  BY <1>4, <1>b DEF Retry, Owns
<1>5. ASSUME NEW o \in Owners, NEW i \in Ids, Delete(o, i)
      PROVE  RowsAreTheMinters'
  <2>1. /\ row'[i].status = "absent"
        /\ \A j \in Ids \ {i} : row'[j] = row[j]
    BY <1>0, <1>5 DEF Delete, NoRow, DoorTypeOK
  <2> QED  BY <1>0, <1>5, <2>1 DEF Delete
<1>6. ASSUME NEW i \in Ids, Dispatch(i) \/ Reconcile(i)
      PROVE  RowsAreTheMinters'
  BY <1>6, <1>b DEF Dispatch, Reconcile
<1>7. ASSUME NEW t \in Tasks, Fetch(t) \/ Index(t) \/ TaskDies(t)
      PROVE  RowsAreTheMinters'
  <2>1. task[t].stage # "free" /\ task[t].id \in Ids
    BY <1>0, <1>7 DEF Fetch, Index, TaskDies, DoorTypeOK, SlotsOK
  <2> QED  BY <1>7, <1>a, <1>c, <2>1 DEF Fetch, Index, TaskDies
<1>8. CASE \/ \E o \in Owners, u \in Uploads : HeadObject(o, u)
           \/ \E u \in Uploads : Put(u) \/ UploadDirect(u)
           \/ UNCHANGED doorVars
  BY <1>8, <1>a DEF HeadObject, Put, UploadDirect, doorVars
<1> QED
  BY <1>1, <1>2, <1>3, <1>4, <1>5, <1>6, <1>7, <1>8 DEF DoorNext

(* When nothing comes to be known and no file changes, all that is known   *)
(* stays whole.                                                            *)
LEMMA NothingNewKnown ==
    ASSUME KnownAreWhole, object' = object,
           \A u \in Uploads : Known(u)' => Known(u)
    PROVE  KnownAreWhole'
BY DEF KnownAreWhole

(* A run is scheduled only for what has a row, or gets one: no upload      *)
(* comes to be known by that.                                              *)
LEMMA NoNewcomer ==
    ASSUME DoorInv, KnownAreWhole, NEW i \in Ids, i \in Uploads => Known(i),
           object' = object, checked' \subseteq checked,
           \A j \in Ids \ {i} : Present(j)' => Present(j),
           \/ task' = task
           \/ \E o \in Owners \union {Anyone} : StartTask(i, o)
    PROVE  KnownAreWhole'
<1>1. DoorTypeOK /\ Uploads \subseteq Ids
  BY DEF DoorInv, Ids
<1>2. \A t \in Tasks : task'[t].id = task[t].id \/ task'[t].id = i
  <2>1. CASE task' = task
    BY <2>1
  <2>2. ASSUME NEW o \in Owners \union {Anyone}, StartTask(i, o)
        PROVE  \A t \in Tasks : task'[t].id = task[t].id \/ task'[t].id = i
    <3>1. PICK t \in Tasks :
            /\ task'[t] = [id |-> i, user |-> o, stage |-> "fetch"]
            /\ \A v \in Tasks \ {t} : task'[v] = task[v]
      BY <1>1, <2>2, StartTaskType
    <3> QED  BY <3>1
  <2> QED  BY <2>1, <2>2
<1>3. \A u \in Uploads : Known(u)' => Known(u)
  BY <1>1, <1>2 DEF Known
<1> QED  BY <1>3, NothingNewKnown

LEMMA KnownStayWhole ==
    ASSUME DoorInv, habits = {}, KnownAreWhole, [DoorNext]_doorVars
    PROVE  KnownAreWhole'
<1> USE DEF fixedVars
<1>0. /\ DoorTypeOK /\ SlotsOK /\ checked \subseteq Ids
      /\ Uploads \subseteq Ids /\ Films \subseteq Ids
      /\ Uploads \intersect Films = {}
  BY RegistrationAssumption DEF DoorInv, DoorTypeOK, Ids
<1>a. ASSUME row' = row, task' = task, checked' = checked, object' = object
      PROVE  KnownAreWhole'
  BY <1>a DEF KnownAreWhole, Known, Present
<1>b. ASSUME NEW u \in Uploads, ~Known(u),
             row' = row, task' = task, checked' = checked,
             \A v \in Uploads \ {u} : object'[v] = object[v]
      PROVE  KnownAreWhole'
  BY <1>b DEF KnownAreWhole, Known, Present
<1>c. ASSUME NEW u \in Uploads, object[u] # "good" PROVE ~Known(u)
  BY <1>c DEF KnownAreWhole
<1>d. ASSUME NEW o \in Owners, NEW i \in Ids, LeaveOrEnqueue(o, i)
      PROVE  task' = task \/ \E p \in Owners \union {Anyone} : StartTask(i, p)
  BY <1>d DEF LeaveOrEnqueue
<1>1. ASSUME NEW o \in Owners, NEW u \in Uploads, Presign(o, u)
      PROVE  KnownAreWhole'
  BY <1>1, <1>a DEF Presign
<1>2. ASSUME NEW u \in Uploads, Put(u) \/ UploadDirect(u)
      PROVE  KnownAreWhole'
  <2>1. object[u] # "good"
    BY <1>2 DEF Put, UploadDirect
  <2>2. \A v \in Uploads \ {u} : object'[v] = object[v]
    BY <1>0, <1>2 DEF Put, UploadDirect, DoorTypeOK
  <2> QED  BY <1>2, <1>b, <1>c, <2>1, <2>2 DEF Put, UploadDirect
<1>3. ASSUME NEW o \in Owners, NEW u \in Uploads, HeadObject(o, u)
      PROVE  KnownAreWhole'
  <2>1. CASE object[u] = "big"
    <3>1. \A v \in Uploads \ {u} : object'[v] = object[v]
      BY <1>0, <1>3, <2>1 DEF HeadObject, DeleteKey, DoorTypeOK
    <3> QED  BY <1>3, <1>b, <1>c, <2>1, <3>1 DEF HeadObject
  <2>2. CASE object[u] # "big"
    <3>1. object[u] = "good"
      BY <1>0, <1>3, <2>2 DEF HeadObject, Found, DoorTypeOK
    <3>2. \A v \in Uploads \ {u} : Known(v)' => Known(v)
      BY <1>3, <2>2 DEF HeadObject, Known, Present
    <3> QED  BY <1>3, <2>2, <3>1, <3>2 DEF HeadObject, KnownAreWhole
  <2> QED  BY <2>1, <2>2
<1>4. ASSUME NEW o \in Owners, NEW u \in Uploads, RegisterUpload(o, u)
      PROVE  KnownAreWhole'
  <2>1. Known(u) /\ checked' \subseteq checked /\ object' = object
    BY <1>4 DEF RegisterUpload, Known
  <2>2. \A j \in Ids \ {u} : Present(j)' => Present(j)
    BY <1>0, <1>4 DEF RegisterUpload, UpsertPending, Present, DoorTypeOK
  <2> QED  BY <1>0, <1>4, <1>d, <2>1, <2>2, NoNewcomer DEF RegisterUpload
<1>5. ASSUME NEW o \in Owners, NEW f \in Films, RegisterFilm(o, f)
      PROVE  KnownAreWhole'
  <2>1. \A j \in Ids \ {f} : Present(j)' => Present(j)
    BY <1>0, <1>5 DEF RegisterFilm, UpsertPending, Present, DoorTypeOK
  <2> QED  BY <1>0, <1>5, <1>d, <2>1, NoNewcomer DEF RegisterFilm
<1>6. ASSUME NEW o \in Owners, NEW i \in Ids, Retry(o, i)
      PROVE  KnownAreWhole'
  <2>1. \A j \in Ids \ {i} : Present(j)' => Present(j)
    BY <1>0, <1>6 DEF Retry, Present, DoorTypeOK
  <2> QED  BY <1>0, <1>6, <1>d, <2>1, NoNewcomer DEF Retry, Owns, Known
<1>7. ASSUME NEW o \in Owners, NEW i \in Ids, Delete(o, i)
      PROVE  KnownAreWhole'
  <2>1. i \notin checked /\ \A t \in Tasks : task[t].id # i
    BY <1>7 DEF Delete, MayTouch, Busy
  <2>2. /\ row'[i].status = "absent"
        /\ \A j \in Ids \ {i} : row'[j] = row[j]
    BY <1>0, <1>7 DEF Delete, NoRow, DoorTypeOK
  <2>3. \A u \in Uploads : Known(u)' => u # i /\ Known(u)
    BY <1>0, <1>7, <2>1, <2>2 DEF Delete, Known, Present
  <2>4. \A u \in Uploads \ {i} : object'[u] = object[u]
    BY <1>0, <1>7 DEF Delete, DeleteKey, DoorTypeOK
  <2> QED  BY <2>3, <2>4 DEF KnownAreWhole
<1>8. ASSUME NEW i \in Ids, Dispatch(i) \/ Reconcile(i)
      PROVE  KnownAreWhole'
  <2>1. Known(i) /\ checked' = checked /\ object' = object
    BY <1>8 DEF Dispatch, Reconcile, Known, Present
  <2>2. row[i].user \in Owners \union {Anyone} /\ StartTask(i, row[i].user)
    BY <1>0, <1>8 DEF Dispatch, Reconcile, DoorTypeOK
  <2>3. \A j \in Ids \ {i} : Present(j)' => Present(j)
    BY <1>0, <1>8 DEF Dispatch, Reconcile, Present, DoorTypeOK
  <2> QED  BY <2>1, <2>2, <2>3, NoNewcomer
<1>9. ASSUME NEW t \in Tasks, Fetch(t) \/ Index(t) \/ TaskDies(t)
      PROVE  KnownAreWhole'
  <2>1. task[t].stage # "free" /\ task[t].id \in Ids
    BY <1>0, <1>9 DEF Fetch, Index, TaskDies, DoorTypeOK, SlotsOK
  <2>2. \A v \in Tasks : task'[v].id \in {task[v].id, Anyone}
    <3>1. CASE EndTask(t)
      BY <1>0, <3>1 DEF EndTask, NoTask, DoorTypeOK
    <3>2. CASE task' = [task EXCEPT ![t].stage = "index"]
      BY <1>0, <3>2 DEF DoorTypeOK
    <3> QED  BY <1>9, <3>1, <3>2 DEF Fetch, Index, TaskDies
  <2>3. \A j \in Ids : Present(j)' => Present(j)
    <3>1. ASSUME NEW s, SetRow(task[t].id, s)
          PROVE  \A j \in Ids : Present(j)' => Present(j)
      BY <1>0, <2>1, <3>1 DEF SetRow, Present, DoorTypeOK
    <3>2. CASE row' = row
      BY <3>2 DEF Present
    <3> QED  BY <1>9, <3>1, <3>2 DEF Fetch, Index, TaskDies
  <2>4. object' = object /\ checked' = checked
    BY <1>9 DEF Fetch, Index, TaskDies
  <2>5. \A u \in Uploads : Known(u)' => Known(u)
    BY <1>0, <2>2, <2>3, <2>4, RegistrationAssumption DEF Known, Ids
  <2> QED  BY <2>4, <2>5, NothingNewKnown
<1>10. CASE UNCHANGED doorVars
  BY <1>10, <1>a DEF doorVars
<1> QED
  BY <1>1, <1>2, <1>3, <1>4, <1>5, <1>6, <1>7, <1>8, <1>9, <1>10 DEF DoorNext

(* An upload is the row of who was given its URL; and when users register  *)
(* once what they have uploaded once, a run works on a whole file only:    *)
(* for any number of tenants, uploads and runs, in either mode.            *)
THEOREM UploadsCheckedHolds == DoorSpec => []UploadsChecked
<1> DEFINE CheckInv == /\ RowsAreTheMinters
                       /\ habits = {} => KnownAreWhole
<1>1. DoorInit => CheckInv
  BY RegistrationAssumption
     DEF DoorInit, RowsAreTheMinters, KnownAreWhole, Known, Present, NoRow,
         NoTask, Ids
<1>2. DoorInv /\ CheckInv /\ [DoorNext]_doorVars => CheckInv'
  <2>1. [DoorNext]_doorVars => habits' = habits
    BY FixedStays DEF fixedVars
  <2> QED  BY <2>1, MintersKept, KnownStayWhole
<1>3. CheckInv => UploadsChecked
  BY DEF UploadsChecked, RowsAreTheMinters, KnownAreWhole, Known
<1> QED
  BY <1>1, <1>2, <1>3, DoorInitInv, DoorStepInv, PTL DEF DoorSpec
=============================================================================
