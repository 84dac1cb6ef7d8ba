---------------------------- MODULE FairDispatch ----------------------------
(***************************************************************************)
(* The fair dispatcher in front of Prefect (dispatcher.py, the claim of    *)
(* db.py) together with what it races against: the API that registers and  *)
(* resubmits videos (api/videos.py), the runs Prefect executes             *)
(* (ingest/pipeline.py, reduced here to the statuses they write), the      *)
(* reconciler (reconciler.py), and workers that die.                       *)
(*                                                                         *)
(* Every dispatcher repeats one tick: count the rows in flight, SELECT the *)
(* fairest pending rows, UPDATE the ones still pending to `queued', then   *)
(* ask Prefect for one run per claimed row.  The four are separate         *)
(* statements against Postgres and Prefect, so each is an action.          *)
(***************************************************************************)
EXTENDS Integers, FiniteSets

CONSTANTS
    Videos,         \* row ids, numbered in the order `ORDER BY id' puts them
    Users,
    Dispatchers,    \* one dispatcher thread per worker process
    MaxInflight,    \* config.DISPATCH_MAX_INFLIGHT
    DocumentLoads,  \* how many document rows a count may find in flight
    MaxRuns,        \* bound: live runs the model keeps per video
    MaxCrashes,     \* bound: worker deaths in a behaviour
    Environment     \* what the surroundings may do, a subset of Behaviours

Behaviours ==
    {"refused",     \* Prefect refuses a run: enqueue_video raises, no run made
     "lost_answer", \* enqueue_video raises although Prefect made the run
     "reconcile",   \* the API process runs the reconciler thread
     "resubmit",    \* users retry or re-register videos that have ended
     "busy"}        \* ... and videos that are waiting, held or running

ASSUME DispatchAssumption ==
    /\ Videos \subseteq Nat
    /\ IsFiniteSet(Videos)
    /\ IsFiniteSet(Dispatchers)
    /\ Dispatchers # {}
    /\ Users # {}
    /\ MaxInflight \in Nat
    /\ DocumentLoads \subseteq Nat
    /\ MaxRuns \in Nat
    /\ MaxCrashes \in Nat
    /\ Environment \subseteq Behaviours

VARIABLES
    status,     \* ms_videos.status of each id, "absent" when there is no row
    owner,      \* ms_videos.user_id
    before,     \* the order of created_at: <<w, v>> when w was created first
    tick,       \* where each dispatcher is in dispatch_once
    slots,      \* its local `slots'
    picked,     \* the ids its SELECT returned
    held,       \* claimed rows it has not yet enqueued
    runs,       \* Prefect runs scheduled or executing, per video
    sweep,      \* rows the reconciler selected and has not re-enqueued yet
    touching,   \* rows it re-enqueued, before its set_status(id, "queued")
    crashes,    \* worker deaths so far
    admitter    \* history: the dispatcher that last claimed each row

vars == <<status, owner, before, tick, slots, picked, held, runs,
          sweep, touching, crashes, admitter>>

(* fetching, sampling and embedding are one class here, "running"; so are  *)
(* indexed, skipped and failed, "ended".  No reader in this module tells   *)
(* the members of a class apart.                                           *)
Inflight  == {v \in Videos : status[v] \in {"queued", "running"}}
Pending   == {v \in Videos : status[v] = "pending"}
Present   == {v \in Videos : status[v] # "absent"}

(* Mutant: a sweep that takes `queued' for a status someone looks after.   *)
UnqueuedOnly == {v \in Videos : status[v] \in {"pending", "running"}}

(* WHERE NOT (status = ANY(_TERMINAL)), of the reconciler.                 *)
Unfinished == {v \in Videos : status[v] \in {"pending", "queued", "running"}}

TypeOK ==
    /\ status \in [Videos -> {"absent", "pending", "queued", "running", "ended"}]
    /\ owner \in [Videos -> Users]
    /\ before \subseteq Videos \X Videos
    /\ tick \in [Dispatchers -> {"idle", "counted", "picked", "enqueueing"}]
    /\ slots \in [Dispatchers -> 0 .. MaxInflight]
    /\ picked \in [Dispatchers -> SUBSET Videos]
    /\ held \in [Dispatchers -> SUBSET Videos]
    /\ runs \in [Videos -> 0 .. MaxRuns]
    /\ sweep \subseteq Videos
    /\ touching \subseteq Videos
    /\ crashes \in 0 .. MaxCrashes
    /\ admitter \in [Videos -> Dispatchers]

Init ==
    /\ status = [v \in Videos |-> "absent"]
    /\ owner = [v \in Videos |-> CHOOSE u \in Users : TRUE]
    /\ before = {}
    /\ tick = [d \in Dispatchers |-> "idle"]
    /\ slots = [d \in Dispatchers |-> 0]
    /\ picked = [d \in Dispatchers |-> {}]
    /\ held = [d \in Dispatchers |-> {}]
    /\ runs = [v \in Videos |-> 0]
    /\ sweep = {}
    /\ touching = {}
    /\ crashes = 0
    /\ admitter = [v \in Videos |-> CHOOSE d \in Dispatchers : TRUE]

-----------------------------------------------------------------------------
(* The fair order of db.wfq_claim's SELECT.                                *)

(* row_number() OVER (PARTITION BY user_id ORDER BY created_at, id)        *)
Rank(v) ==
    Cardinality({w \in Pending : owner[w] = owner[v] /\ <<w, v>> \in before})

(* ORDER BY rn, id                                                         *)
FairerThan(w, v) ==
    \/ Rank(w) < Rank(v)
    \/ Rank(w) = Rank(v) /\ w < v

(* Mutant: the ranks are dropped and the SELECT orders by id alone.        *)
FairPickById(limit) ==
    {v \in Pending : Cardinality({w \in Pending : w < v}) < limit}

(* Mutant: LIMIT one too many.                                             *)
FairPickOffByOne(limit) ==
    {v \in Pending :
        Cardinality({w \in Pending : FairerThan(w, v)}) <= limit}

(* ... LIMIT limit: the rows fewer than `limit' rows come before.          *)
FairPick(limit) ==
    {v \in Pending :
        Cardinality({w \in Pending : FairerThan(w, v)}) < limit}

-----------------------------------------------------------------------------
(* dispatch_once, one statement at a time.                                 *)

(* Mutant: the capacity in use is forgotten.                               *)
CountNothing(d) ==
    /\ tick[d] = "idle"
    /\ MaxInflight > 0
    /\ tick' = [tick EXCEPT ![d] = "counted"]
    /\ slots' = [slots EXCEPT ![d] = MaxInflight]
    /\ UNCHANGED <<status, owner, before, picked, held, runs, sweep, touching,
                   crashes, admitter>>

(* Mutant: `if slots <= 0: return 0' is gone.                              *)
CountBelowZero(d) ==
    /\ tick[d] = "idle"
    /\ \E documents \in DocumentLoads :
         slots' = [slots EXCEPT
                     ![d] = MaxInflight - Cardinality(Inflight) - documents]
    /\ tick' = [tick EXCEPT ![d] = "counted"]
    /\ UNCHANGED <<status, owner, before, picked, held, runs, sweep, touching,
                   crashes, admitter>>

(* slots = DISPATCH_MAX_INFLIGHT - count_inflight(); stop unless positive. *)
(* The count reads every kind of row, so documents use up slots as well.   *)
Count(d) ==
    /\ tick[d] = "idle"
    /\ \E documents \in DocumentLoads :
         LET free == MaxInflight - Cardinality(Inflight) - documents IN
         /\ free > 0
         /\ slots' = [slots EXCEPT ![d] = free]
    /\ tick' = [tick EXCEPT ![d] = "counted"]
    /\ UNCHANGED <<status, owner, before, picked, held, runs, sweep, touching,
                   crashes, admitter>>

(* wfq_claim, first statement; nothing to claim ends the tick.             *)
Pick(d) ==
    /\ tick[d] = "counted"
    /\ LET ids == FairPick(slots[d]) IN
         /\ picked' = [picked EXCEPT ![d] = ids]
         /\ tick' = [tick EXCEPT ![d] = IF ids = {} THEN "idle" ELSE "picked"]
         /\ slots' = [slots EXCEPT ![d] = IF ids = {} THEN 0 ELSE @]
    /\ UNCHANGED <<status, owner, before, held, runs, sweep, touching, crashes,
                   admitter>>

(* What a claim of `rows' writes, and the rows RETURNING hands over.       *)
TakeRows(d, rows) ==
    /\ status' = [v \in Videos |-> IF v \in rows THEN "queued" ELSE status[v]]
    /\ admitter' = [v \in Videos |-> IF v \in rows THEN d ELSE admitter[v]]
    /\ held' = [held EXCEPT ![d] = rows]
    /\ tick' = [tick EXCEPT ![d] = IF rows = {} THEN "idle" ELSE "enqueueing"]
    /\ picked' = [picked EXCEPT ![d] = {}]
    /\ slots' = [slots EXCEPT ![d] = 0]
    /\ UNCHANGED <<owner, before, runs, sweep, touching, crashes>>

(* Mutant: the UPDATE has lost its `AND status = 'pending''.               *)
ClaimWhatWasPicked(d) ==
    /\ tick[d] = "picked"
    /\ TakeRows(d, picked[d] \intersect Present)

(* wfq_claim, second statement: UPDATE ... WHERE id = ANY(ids) AND         *)
(* status = 'pending' RETURNING id, user_id.                               *)
Claim(d) ==
    /\ tick[d] = "picked"
    /\ TakeRows(d, picked[d] \intersect Pending)

(* The dispatcher is through with row v of its loop.                       *)
DoneWith(d, v) ==
    /\ held' = [held EXCEPT ![d] = @ \ {v}]
    /\ tick' = [tick EXCEPT ![d] = IF held[d] = {v} THEN "idle" ELSE @]

(* db.set_status: an UPDATE by id, without effect when the row is gone.    *)
SetStatus(v, s) ==
    status' = [status EXCEPT ![v] = IF @ = "absent" THEN @ ELSE s]

(* jobs.enqueue_video answers: one more run of v.                          *)
Enqueue(d, v) ==
    /\ v \in held[d]
    /\ runs[v] < MaxRuns
    /\ runs' = [runs EXCEPT ![v] = @ + 1]
    /\ DoneWith(d, v)
    /\ UNCHANGED <<status, owner, before, slots, picked, sweep, touching,
                   crashes, admitter>>

(* enqueue_video raises: the row goes back to the fair queue.              *)
EnqueueFails(d, v) ==
    /\ v \in held[d]
    /\ \/ /\ "refused" \in Environment
          /\ UNCHANGED runs
       \/ /\ "lost_answer" \in Environment
          /\ runs[v] < MaxRuns
          /\ runs' = [runs EXCEPT ![v] = @ + 1]
    /\ SetStatus(v, "pending")
    /\ DoneWith(d, v)
    /\ UNCHANGED <<owner, before, slots, picked, sweep, touching, crashes,
                   admitter>>

(* The worker dies, or a database error escapes dispatch_once and          *)
(* run_forever drops the tick: claimed rows stay `queued' without a run.   *)
LoseTick(d) ==
    /\ tick[d] # "idle"
    /\ crashes < MaxCrashes
    /\ crashes' = crashes + 1
    /\ tick' = [tick EXCEPT ![d] = "idle"]
    /\ slots' = [slots EXCEPT ![d] = 0]
    /\ picked' = [picked EXCEPT ![d] = {}]
    /\ held' = [held EXCEPT ![d] = {}]
    /\ UNCHANGED <<status, owner, before, runs, sweep, touching, admitter>>

-----------------------------------------------------------------------------
(* The API.                                                                *)

(* POST /api/videos for a new id: db.upsert_pending inserts the row.       *)
Register(u, v) ==
    /\ status[v] = "absent"
    /\ "busy" \in Environment \/ runs[v] = 0
    /\ status' = [status EXCEPT ![v] = "pending"]
    /\ owner' = [owner EXCEPT ![v] = u]
    /\ before' = before \union (Present \X {v})
    /\ UNCHANGED <<tick, slots, picked, held, runs, sweep, touching, crashes,
                   admitter>>

(* POST /api/videos for an id that has a row (ON CONFLICT DO UPDATE), or   *)
(* POST .../retry: back to pending; owner and created_at stay.             *)
Resubmit(v) ==
    /\ \/ "resubmit" \in Environment /\ status[v] = "ended"
       \/ "busy" \in Environment /\ status[v] \in {"queued", "running"}
    /\ status' = [status EXCEPT ![v] = "pending"]
    /\ UNCHANGED <<owner, before, tick, slots, picked, held, runs, sweep,
                   touching, crashes, admitter>>

(* DELETE /api/videos/{id}, as far as the queue sees it: the row goes.     *)
Delete(v) ==
    /\ \/ "resubmit" \in Environment /\ status[v] \in {"pending", "ended"}
       \/ "busy" \in Environment /\ status[v] \in {"queued", "running"}
    /\ status' = [status EXCEPT ![v] = "absent"]
    /\ before' = {pair \in before : v \notin {pair[1], pair[2]}}
    /\ UNCHANGED <<owner, tick, slots, picked, held, runs, sweep, touching,
                   crashes, admitter>>

-----------------------------------------------------------------------------
(* Runs.  Prefect executes them on the workers; only the statuses they     *)
(* write matter here (VideoIngest has the stages).                         *)

RunWorks(v) ==
    /\ runs[v] > 0
    /\ SetStatus(v, "running")
    /\ UNCHANGED <<owner, before, tick, slots, picked, held, runs, sweep,
                   touching, crashes, admitter>>

RunEnds(v) ==
    /\ runs[v] > 0
    /\ runs' = [runs EXCEPT ![v] = @ - 1]
    /\ SetStatus(v, "ended")
    /\ UNCHANGED <<owner, before, tick, slots, picked, held, sweep, touching,
                   crashes, admitter>>

(* The worker dies under a run: Prefect marks it Crashed and starts no     *)
(* other; the row keeps the status of the stage it was in.                 *)
RunDies(v) ==
    /\ runs[v] > 0
    /\ crashes < MaxCrashes
    /\ crashes' = crashes + 1
    /\ runs' = [runs EXCEPT ![v] = @ - 1]
    /\ UNCHANGED <<status, owner, before, tick, slots, picked, held, sweep,
                   touching, admitter>>

-----------------------------------------------------------------------------
(* reap_once: SELECT the stale rows, then re-enqueue and touch each.  Time *)
(* is not counted here: any unfinished row may have been left alone for    *)
(* RECONCILE_STALE_S.                                                      *)

SweepSelect(rows) ==
    /\ "reconcile" \in Environment
    /\ sweep = {} /\ touching = {}
    /\ rows # {} /\ rows \subseteq Unfinished
    /\ sweep' = rows
    /\ UNCHANGED <<status, owner, before, tick, slots, picked, held, runs,
                   touching, crashes, admitter>>

SweepEnqueue(v) ==
    /\ v \in sweep /\ touching = {}
    /\ runs[v] < MaxRuns
    /\ runs' = [runs EXCEPT ![v] = @ + 1]
    /\ sweep' = sweep \ {v}
    /\ touching' = {v}
    /\ UNCHANGED <<status, owner, before, tick, slots, picked, held, crashes,
                   admitter>>

(* The re-enqueue raises and is only logged; a run table that is full in   *)
(* the model counts as one.                                                *)
SweepSkip(v) ==
    /\ v \in sweep /\ touching = {}
    /\ "refused" \in Environment \/ runs[v] = MaxRuns
    /\ sweep' = sweep \ {v}
    /\ UNCHANGED <<status, owner, before, tick, slots, picked, held, runs,
                   touching, crashes, admitter>>

SweepTouch(v) ==
    /\ v \in touching
    /\ SetStatus(v, "queued")
    /\ touching' = {}
    /\ UNCHANGED <<owner, before, tick, slots, picked, held, runs, sweep,
                   crashes, admitter>>

-----------------------------------------------------------------------------
Dispatcher(d) ==
    \/ Count(d)
    \/ Pick(d)
    \/ Claim(d)
    \/ \E v \in Videos : Enqueue(d, v)
    \/ \E v \in Videos : EnqueueFails(d, v)
    \/ LoseTick(d)

Api ==
    \E v \in Videos :
        \/ \E u \in Users : Register(u, v)
        \/ Resubmit(v)
        \/ Delete(v)

Worker(v) == RunWorks(v) \/ RunEnds(v) \/ RunDies(v)

Reconciler ==
    \/ \E rows \in SUBSET Videos : SweepSelect(rows)
    \/ \E v \in Videos : SweepEnqueue(v) \/ SweepSkip(v) \/ SweepTouch(v)

Next ==
    \/ \E d \in Dispatchers : Dispatcher(d)
    \/ Api
    \/ \E v \in Videos : Worker(v)
    \/ Reconciler

Spec == Init /\ [][Next]_vars

(* The dispatcher loop never stops (run_forever), a row left without a     *)
(* live run is in every later sweep, Prefect does not refuse for ever, and *)
(* a run that is not killed ends (timeout_seconds=3600).                   *)
SelectOrphan(v) ==
    \E rows \in SUBSET Videos :
        v \in rows /\ runs[v] = 0 /\ SweepSelect(rows)

Fairness ==
    /\ \A d \in Dispatchers :
         /\ WF_vars(Count(d)) /\ WF_vars(Pick(d)) /\ WF_vars(Claim(d))
         /\ \A v \in Videos : SF_vars(Enqueue(d, v))
    /\ \A v \in Videos :
         /\ WF_vars(RunEnds(v))
         /\ SF_vars(SelectOrphan(v))
         /\ SF_vars(SweepEnqueue(v)) /\ WF_vars(SweepTouch(v))
         /\ WF_vars(SweepSkip(v))

FairSpec == Spec /\ Fairness
-----------------------------------------------------------------------------
(* Properties.                                                             *)

(* Docstring of dispatcher.py: several dispatchers are `at worst mildly    *)
(* over-admitting'.  Mildly means: each dispatcher may fill the capacity   *)
(* once over, because the count is stale by the time of the claim; and the *)
(* capacity is exact while what is in flight is of one dispatcher.  Needs  *)
(* a reconciler that is off, answers that are not lost, and no             *)
(* resubmission of rows in flight.                                         *)
InflightBound ==
    Cardinality(Inflight)
        <= Cardinality({admitter[v] : v \in Inflight}) * MaxInflight

(* The part of each dispatcher in it: what it admitted and is still in     *)
(* flight, plus what it may still claim, fits the capacity.                *)
AdmissionShare ==
    \A d \in Dispatchers :
        Cardinality({v \in Inflight : admitter[v] = d}) + slots[d]
            <= MaxInflight

(* `the atomic claim keeps videos handed out once': no two dispatchers     *)
(* hold a row to enqueue, however their ticks interleave with each other,  *)
(* with failing enqueues and with the reconciler.                          *)
HandedOutOnce ==
    \A d, e \in Dispatchers : d # e => held[d] \intersect held[e] = {}

(* ... so that Prefect never has two runs of one video, and has none for   *)
(* a row that waits in the fair queue.                                     *)
OneRunPerVideo ==
    \A v \in Videos :
        /\ runs[v] <= 1
        /\ runs[v] = 1 => status[v] \in {"queued", "running"}

(* Docstring of db.wfq_claim: whoever dumps many videos `only gets one     *)
(* slot per round, exactly like the others'.  Within one SELECT: a user    *)
(* who is left with a pending video got at most one slot less than anyone. *)
ShareOf(u, ids) == Cardinality({v \in ids : owner[v] = u})

FairShare ==
    [][\A d \in Dispatchers : Pick(d) =>
         \A u, w \in Users :
            (\E v \in Pending \ picked'[d] : owner[v] = u)
               => ShareOf(w, picked'[d]) <= ShareOf(u, picked'[d]) + 1]_vars

(* A SELECT neither passes over an older video of the same user nor leaves *)
(* a slot unused while a video waits.                                      *)
OldestFirstAndFull ==
    [][\A d \in Dispatchers : Pick(d) =>
         LET ids == picked'[d] IN
         /\ \A v \in ids, w \in Pending \ ids :
               owner[v] = owner[w] => <<w, v>> \notin before
         /\ ids # Pending => Cardinality(ids) = slots[d]]_vars

(* reconciler.py: `turns "crash-safe code" into an actual no-loss          *)
(* guarantee'.  A registered video ends, or is withdrawn by its user,      *)
(* though workers die between the claim and the enqueue or under a run.    *)
NoLoss ==
    \A v \in Videos :
        status[v] \in {"pending", "queued", "running"}
            ~> status[v] \in {"ended", "absent"}

(* config.py:119: the dispatcher admits videos `keeping only               *)
(* DISPATCH_MAX_INFLIGHT running at once'.                                 *)
RunsWithinCapacity ==
    Cardinality({v \in Videos : runs[v] > 0}) <= MaxInflight

(* config.py:121, dispatcher.py:15: `No user can starve the others'.       *)
NoStarvation ==
    \A v \in Videos : status[v] = "pending" ~> status[v] # "pending"
=============================================================================
