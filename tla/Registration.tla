---------------------------- MODULE Registration ----------------------------
(* The front door of the write path (api/videos.py) for several tenants:   *)
(* presign, upload, register, status, retry, delete, and with whose tag a  *)
(* run writes the points.  An upload belongs to who was given its URL; a   *)
(* YouTube video has one id for everybody, which is the key of its row.    *)
(*                                                                         *)
(* VideoIngest has the steps of a run and what can go wrong in it; here a  *)
(* run fetches, and then writes all points or fails.                       *)
EXTENDS Naturals, FiniteSets

CONSTANTS
    Owners,       \* tenants
    Uploads,      \* ids that presign may mint
    Films,        \* ids of YouTube videos
    SampleFilms,  \* SAMPLE_IDS
    Tasks,        \* bound: slots for Prefect runs
    Manners       \* sets of AllHabits: how users may behave

AllHabits == {"early",  \* register before the upload is over
              "again",  \* upload once more to a URL that was used
              "hasty"}  \* register, retry or delete what is in flight

Anyone == "anyone"

ASSUME RegistrationAssumption ==
    /\ SampleFilms \subseteq Films /\ Uploads \intersect Films = {}
    /\ Anyone \notin Owners /\ Anyone \notin Uploads \union Films
    /\ Manners \subseteq SUBSET AllHabits

VARIABLES
    habits,    \* what users do in this behaviour
    fair,      \* ENABLE_FAIR_DISPATCH
    direct,    \* the storage cannot presign: STORAGE_PROVIDER=local
    minter,    \* per upload: who was given its URL
    object,    \* per upload: what is at its key
    checked,   \* uploads whose HEAD passed in a request not yet ended
    row,       \* per id: user_id and status in ms_videos
    tag,       \* per id: the user_id in the payload of its points
    task       \* the runs: id, the user_id they were given, stage

fixedVars == <<habits, fair, direct>>
doorVars == <<fixedVars, minter, object, checked, row, tag, task>>

Ids == Uploads \union Films
NoRow == [user |-> Anyone, status |-> "absent"]
NoTask == [id |-> Anyone, user |-> Anyone, stage |-> "free"]
Finished == {"indexed", "failed"}

DoorTypeOK ==
    /\ habits \in Manners /\ fair \in BOOLEAN /\ direct \in BOOLEAN
    /\ minter \in [Uploads -> Owners \union {Anyone}]
    /\ object \in [Uploads -> {"none", "partial", "good", "big"}]
    /\ checked \subseteq Uploads
    /\ row \in [Ids -> [user : Owners \union {Anyone},
                        status : {"absent", "pending", "queued", "fetching"}
                                   \union Finished]]
    /\ tag \in [Ids -> Owners \union {Anyone}]
    /\ task \in [Tasks -> [id : Ids \union {Anyone},
                           user : Owners \union {Anyone},
                           stage : {"free", "fetch", "index"}]]

DoorInit ==
    /\ habits \in Manners /\ fair \in BOOLEAN /\ direct \in BOOLEAN
    /\ minter = [u \in Uploads |-> Anyone]
    /\ object = [u \in Uploads |-> "none"]
    /\ checked = {}
    /\ row = [i \in Ids |-> NoRow]
    /\ tag = [i \in Ids |-> Anyone]
    /\ task = [t \in Tasks |-> NoTask]

Present(i) == row[i].status # "absent"
Busy(i) == row[i].status \notin Finished \union {"absent"} \/ i \in checked
             \/ \E t \in Tasks : task[t].id = i
MayTouch(i) == "hasty" \in habits \/ ~Busy(i)
-----------------------------------------------------------------------------
(* POST /api/videos/presign: the server picks the id and the key.          *)
Presign(o, u) ==
    /\ minter[u] = Anyone
    /\ minter' = [minter EXCEPT ![u] = o]
    /\ UNCHANGED <<fixedVars, object, checked, row, tag, task>>

(* PUT: to the bucket at once, whatever the size; or through the API,      *)
(* which writes as it reads, and drops the file above the limit.           *)
Put(u) ==
    /\ minter[u] # Anyone
    /\ object[u] = "none" \/ "again" \in habits
    /\ \E new \in IF direct THEN {"partial"} ELSE {"good", "big"} :
         object' = [object EXCEPT ![u] = new]
    /\ UNCHANGED <<fixedVars, minter, checked, row, tag, task>>

UploadDirect(u) ==
    /\ object[u] = "partial"
    /\ \E end \in {"good", "none"} : object' = [object EXCEPT ![u] = end]
    /\ UNCHANGED <<fixedVars, minter, checked, row, tag, task>>

-----------------------------------------------------------------------------
(* POST /api/videos.                                                       *)

Found(u) == object[u] # "none"                 \* storage.head is not None
DeleteKey(u) == object' = [object EXCEPT ![u] = "none"]

(* Mutant: no look at the size.                                            *)
HeadWithoutSize(o, u) ==
    /\ minter[u] = o
    /\ u \notin checked /\ MayTouch(u)
    /\ object[u] = "partial" => "early" \in habits
    /\ Found(u)
    /\ checked' = checked \union {u}
    /\ UNCHANGED <<fixedVars, minter, object, row, tag, task>>

(* The key must be the tenant's; HEAD: 404 when nothing is there, and what *)
(* is too big is deleted.                                                  *)
HeadObject(o, u) ==
    /\ minter[u] = o
    /\ u \notin checked /\ MayTouch(u)
    /\ object[u] = "partial" => "early" \in habits
    /\ Found(u)
    /\ \/ /\ object[u] # "big"
          /\ checked' = checked \union {u}
          /\ UNCHANGED object
       \/ /\ object[u] = "big"
          /\ DeleteKey(u)
          /\ UNCHANGED checked
    /\ UNCHANGED <<fixedVars, minter, row, tag, task>>

(* Mutant: SET user_id = EXCLUDED.user_id.                                 *)
UpsertForRequester(o, i) ==
    row' = [row EXCEPT ![i] = [user |-> o, status |-> "pending"]]

(* upsert_pending: a row that is there is reset, its user_id stays.        *)
UpsertPending(o, i) ==
    row' = [row EXCEPT ![i] = [user |-> IF Present(i) THEN row[i].user ELSE o,
                               status |-> "pending"]]

(* jobs.enqueue_video.                                                     *)
StartTask(i, o) ==
    \E t \in Tasks :
        /\ task[t].stage = "free"
        /\ task' = [task EXCEPT ![t] = [id |-> i, user |-> o,
                                        stage |-> "fetch"]]

(* Mutant: in either mode.                                                 *)
EnqueueAtOnce(o, i) == StartTask(i, o)

(* Fair mode leaves the row to the dispatcher; else the run is scheduled   *)
(* at once, for the tenant of the request.                                 *)
LeaveOrEnqueue(o, i) == IF fair THEN UNCHANGED task ELSE StartTask(i, o)

RegisterUpload(o, u) ==
    /\ u \in checked /\ minter[u] = o
    /\ checked' = checked \ {u}
    /\ UpsertPending(o, u)
    /\ LeaveOrEnqueue(o, u)
    /\ UNCHANGED <<fixedVars, minter, object, tag>>

RegisterFilm(o, f) ==
    /\ MayTouch(f)
    /\ UpsertPending(o, f)
    /\ LeaveOrEnqueue(o, f)
    /\ UNCHANGED <<fixedVars, minter, object, checked, tag>>

(* 404 for a row of somebody else.                                         *)
Owns(o, i) == Present(i) /\ row[i].user = o

(* POST .../retry                                                          *)
Retry(o, i) ==
    /\ Owns(o, i) /\ MayTouch(i)
    /\ row' = [row EXCEPT ![i].status = "pending"]
    /\ LeaveOrEnqueue(o, i)
    /\ UNCHANGED <<fixedVars, minter, object, checked, tag>>

(* DELETE: 403 for a sample; the points of this tenant, the raw upload,    *)
(* the row.                                                                *)
Delete(o, i) ==
    /\ i \notin SampleFilms
    /\ Owns(o, i) /\ MayTouch(i)
    /\ tag' = [tag EXCEPT ![i] = IF @ = o THEN Anyone ELSE @]
    /\ IF i \in Uploads THEN DeleteKey(i) ELSE UNCHANGED object
    /\ row' = [row EXCEPT ![i] = NoRow]
    /\ UNCHANGED <<fixedVars, minter, checked, task>>

-----------------------------------------------------------------------------
(* The dispatcher's claim and enqueue; the reconciler, for a row that is   *)
(* not ended and has no run.  Both take the user_id of the row.            *)
Dispatch(i) ==
    /\ fair /\ row[i].status = "pending"
    /\ row' = [row EXCEPT ![i].status = "queued"]
    /\ StartTask(i, row[i].user)
    /\ UNCHANGED <<fixedVars, minter, object, checked, tag>>

Reconcile(i) ==
    /\ Present(i) /\ row[i].status \notin Finished
    /\ \A t \in Tasks : task[t].id # i
    /\ row' = [row EXCEPT ![i].status = "queued"]
    /\ StartTask(i, row[i].user)
    /\ UNCHANGED <<fixedVars, minter, object, checked, tag>>

(* The run: t_fetch with its row and its file, or failed; then the points, *)
(* whose ids do not depend on the tenant: those of another are overwritten.*)
SetRow(i, s) == row' = [row EXCEPT ![i].status = IF Present(i) THEN s ELSE @]
EndTask(t) == task' = [task EXCEPT ![t] = NoTask]

HasFile(i) == i \in Uploads => Found(i)          \* or a film is downloaded

Fetch(t) ==
    LET i == task[t].id IN
    /\ task[t].stage = "fetch"
    /\ \/ /\ Present(i)
          /\ HasFile(i)
          /\ task' = [task EXCEPT ![t].stage = "index"]
          /\ SetRow(i, "fetching")
       \/ /\ EndTask(t)
          /\ SetRow(i, "failed")
    /\ UNCHANGED <<fixedVars, minter, object, checked, tag>>

Index(t) ==
    LET i == task[t].id IN
    /\ task[t].stage = "index"
    /\ tag' = [tag EXCEPT ![i] = task[t].user]
    /\ SetRow(i, "indexed")
    /\ EndTask(t)
    /\ UNCHANGED <<fixedVars, minter, object, checked>>

(* The worker dies, or Prefect loses the run.                              *)
TaskDies(t) ==
    /\ task[t].stage # "free"
    /\ EndTask(t)
    /\ UNCHANGED <<fixedVars, minter, object, checked, row, tag>>
-----------------------------------------------------------------------------
DoorNext ==
    \/ \E o \in Owners :
         \/ \E u \in Uploads :
              Presign(o, u) \/ HeadObject(o, u) \/ RegisterUpload(o, u)
         \/ \E f \in Films : RegisterFilm(o, f)
         \/ \E i \in Ids : Retry(o, i) \/ Delete(o, i)
    \/ \E u \in Uploads : Put(u) \/ UploadDirect(u)
    \/ \E i \in Ids : Dispatch(i) \/ Reconcile(i)
    \/ \E t \in Tasks : Fetch(t) \/ Index(t) \/ TaskDies(t)

DoorSpec == DoorInit /\ [][DoorNext]_doorVars
-----------------------------------------------------------------------------
(* A row is its first tenant's until they delete it: no registration of    *)
(* the same film by another, no retry and no run takes it over, and the    *)
(* row of a sample stays (samples.py: `can be unselected from a query but  *)
(* never deleted').                                                        *)
OwnerKept ==
    [][\A i \in Ids :
         /\ Present(i) /\ Present(i)' => row'[i].user = row[i].user
         /\ i \in SampleFilms /\ Present(i) => Present(i)']_doorVars

(* In fair mode, what a tenant has indexed is found by that tenant: the    *)
(* points of a row bear its user_id, also when several tenants register,   *)
(* retry and delete the same film in turn, and runs die (but not when one  *)
(* deletes it during its run).                                             *)
FoundByOwner ==
    fair /\ "hasty" \notin habits =>
        \A i \in Ids : row[i].status = "indexed" => tag[i] = row[i].user

(* `HEAD-verify the object', `Never trust the client's key': an upload is  *)
(* the row of who was given its URL.  When users register what they have   *)
(* uploaded, once, a run gets to work only on a file that is whole and     *)
(* within the limit.                                                       *)
UploadsChecked ==
    /\ \A u \in Uploads : Present(u) => row[u].user = minter[u]
    /\ habits = {} =>
         \A t \in Tasks :
           task[t].stage = "index" /\ task[t].id \in Uploads =>
               object[task[t].id] = "good"
=============================================================================
