---------------------------- MODULE DocumentIngest ----------------------------
(***************************************************************************)
(* The life of a paper or a deck: POST /admin/documents (api/admin.py),    *)
(* which writes the row and schedules the run in a background task after   *)
(* the response; the flows (ingest/flows.py); the reconciler, which here   *)
(* is the only other one to schedule (the fair dispatcher claims kind =    *)
(* 'video' alone); and retry and delete, which documents share with videos *)
(* (api/videos.py).                                                        *)
(*                                                                         *)
(* Unlike a video's frames, all chunks of a document go to Qdrant in one   *)
(* upsert, and how many there are depends on the parse: a deck's image-    *)
(* only slides yield a chunk only if the caption model answers.            *)
(***************************************************************************)
EXTENDS Integers, FiniteSets

CONSTANTS
    Documents,
    KeyOnly,       \* registered with a bucket key and no uri
    Yields,        \* Yields[d]: the numbers of chunks a parse of d may give
    Runs, Nobody,
    ParseRetries,  \* _FETCH_RETRY (2 in the code)
    EmbedRetries,  \* _EMBED_RETRY (2 in the code)
    MaxCrashes,    \* bound: processes that die in a behaviour
    Surroundings   \* as in VideoIngest

Disturbances == {"slow", "busy", "qdrant", "refused"}

ASSUME DocumentAssumption ==
    /\ IsFiniteSet(Documents) /\ Nobody \notin Documents
    /\ KeyOnly \subseteq Documents
    /\ Yields \in [Documents -> SUBSET Nat]
    /\ IsFiniteSet(Runs)
    /\ ParseRetries \in Nat /\ EmbedRetries \in Nat
    /\ MaxCrashes \in Nat
    /\ Surroundings \subseteq Disturbances

VARIABLES
    status,     \* ms_videos.status, "absent" when there is no row
    count,      \* ms_videos.frame_count, the chunks of a document
    fresh,      \* rows updated within the last RECONCILE_STALE_S
    points,     \* chunk points of each document in the text collection
    run,        \* the runs: stage, document, retries used, chunks made
    tasks,      \* documents whose background task has not run yet
    sweep, touching,  \* as in VideoIngest
    deleting,   \* documents a delete took the vectors of, the row still there
    crashes,
    purged      \* history: documents withdrawn since they were indexed

rowVars == <<status, count, fresh>>
vars == <<rowVars, points, run, tasks, sweep, touching, deleting, crashes, purged>>

Terminal   == {"indexed", "failed", "skipped"}
Unfinished == {"pending", "queued", "parsing", "chunking", "embedding"}
Stages     == {"free", "scheduled", "parse", "chunk", "embed", "clear",
               "upsert", "complete", "fail"}
AllPoints  == UNION {1 .. n : n \in UNION {Yields[d] : d \in Documents}}
Free       == [stage |-> "free", doc |-> Nobody, tries |-> 0, made |-> 0]

TypeOK ==
    /\ status \in [Documents -> Unfinished \union Terminal \union {"absent"}]
    /\ count \in [Documents -> Nat]
    /\ fresh \subseteq Documents
    /\ points \in [Documents -> SUBSET AllPoints]
    /\ \A r \in Runs :
         /\ run[r].stage \in Stages
         /\ run[r].doc \in Documents \union {Nobody}
         /\ run[r].tries \in 0 .. (ParseRetries + EmbedRetries)
         /\ run[r].made \in Nat
    /\ tasks \subseteq Documents
    /\ sweep \subseteq Documents /\ touching \subseteq Documents
    /\ deleting \subseteq Documents /\ purged \subseteq Documents
    /\ crashes \in 0 .. MaxCrashes

Init ==
    /\ status = [d \in Documents |-> "absent"]
    /\ count = [d \in Documents |-> 0]
    /\ fresh = {}
    /\ points = [d \in Documents |-> {}]
    /\ run = [r \in Runs |-> Free]
    /\ tasks = {} /\ sweep = {} /\ touching = {} /\ deleting = {}
    /\ crashes = 0
    /\ purged = {}

-----------------------------------------------------------------------------
Present(d) == status[d] # "absent"
Live(d)    == \E r \in Runs : run[r].doc = d
Calm(d)    == ~ Live(d) /\ d \notin tasks \union sweep \union touching \union deleting

SetStatus(d, s) ==
    /\ status' = [status EXCEPT ![d] = IF Present(d) THEN s ELSE @]
    /\ fresh' = IF Present(d) THEN fresh \union {d} ELSE fresh

At(r, stage) == run[r].stage = stage
GoTo(r, stage) == run' = [run EXCEPT ![r].stage = stage]
EndRun(r) == run' = [run EXCEPT ![r] = Free]

(* jobs_documents.enqueue_document, answered.                              *)
Schedule(d) ==
    \E r \in Runs :
        /\ At(r, "free")
        /\ run' = [run EXCEPT ![r] = [Free EXCEPT !.stage = "scheduled",
                                                  !.doc = d]]

-----------------------------------------------------------------------------
(* The API.                                                                *)

(* upsert_pending_document; ids are minted anew, so it always inserts.     *)
UpsertPending(d) ==
    /\ status' = [status EXCEPT ![d] = "pending"]
    /\ count' = [count EXCEPT ![d] = 0]
    /\ fresh' = fresh \union {d}

(* register_document: the row, then add_task.                              *)
Register(d) ==
    /\ status[d] = "absent"
    /\ Calm(d)
    /\ UpsertPending(d)
    /\ tasks' = tasks \union {d}
    /\ UNCHANGED <<points, run, sweep, touching, deleting, crashes, purged>>

(* _schedule_ingest, after the response; a failure to schedule ends the    *)
(* document.                                                               *)
RunTask(d) ==
    /\ d \in tasks
    /\ tasks' = tasks \ {d}
    /\ \/ Schedule(d) /\ UNCHANGED rowVars
       \/ /\ "refused" \in Surroundings
          /\ SetStatus(d, "failed")
          /\ UNCHANGED <<count, run>>
    /\ UNCHANGED <<points, sweep, touching, deleting, crashes, purged>>

(* The API process dies: its background tasks, sweep and deletes with it.  *)
ApiDies ==
    /\ tasks \union sweep \union touching \union deleting # {}
    /\ "slow" \in Surroundings \/ touching = {}
    /\ crashes < MaxCrashes
    /\ crashes' = crashes + 1
    /\ tasks' = {} /\ sweep' = {} /\ touching' = {} /\ deleting' = {}
    /\ UNCHANGED <<rowVars, points, run, purged>>

(* POST /api/videos/{id}/retry: pending, and nobody to claim it but the    *)
(* reconciler.                                                             *)
Retry(d) ==
    /\ Present(d)
    /\ "busy" \in Surroundings \/ (Calm(d) /\ status[d] \in Terminal)
    /\ SetStatus(d, "pending")
    /\ UNCHANGED <<count, points, run, tasks, sweep, touching, deleting,
                   crashes, purged>>

(* Mutant: only the collection of video frames is cleared.                 *)
DeleteFramesOnly(d) == points' = points

(* vector_store.delete_video swallows what Qdrant answers.                 *)
DeletePoints(d) ==
    points' \in {[points EXCEPT ![d] = {}]}
                  \union (IF "qdrant" \in Surroundings THEN {points} ELSE {})

(* DELETE /api/videos/{id}: vectors first, the row last (documents have no *)
(* thumbnails).                                                            *)
DeleteVectors(d) ==
    /\ Present(d) /\ d \notin deleting
    /\ "busy" \in Surroundings \/ (Calm(d) /\ status[d] \in Terminal)
    /\ DeletePoints(d)
    /\ deleting' = deleting \union {d}
    /\ purged' = purged \union {d}
    /\ UNCHANGED <<rowVars, run, tasks, sweep, touching, crashes>>

DeleteRow(d) ==
    /\ d \in deleting
    /\ status' = [status EXCEPT ![d] = "absent"]
    /\ count' = [count EXCEPT ![d] = 0]
    /\ fresh' = fresh \ {d}
    /\ deleting' = deleting \ {d}
    /\ purged' = purged \ {d}
    /\ UNCHANGED <<points, run, tasks, sweep, touching, crashes>>

-----------------------------------------------------------------------------
(* The reconciler.                                                         *)

Age(d) ==
    /\ d \in fresh
    /\ "slow" \in Surroundings \/ Calm(d)
    /\ fresh' = fresh \ {d}
    /\ UNCHANGED <<status, count, points, run, tasks, sweep, touching, deleting,
                   crashes, purged>>

(* Mutant: the sweep knows the statuses of videos only.                    *)
StaleVideoStatuses ==
    {d \in Documents :
        status[d] \in {"pending", "queued", "fetching", "sampling", "embedding"}
          /\ d \notin fresh}

(* reap_once: not terminal, and older than RECONCILE_STALE_S.              *)
Stale == {d \in Documents : status[d] \in Unfinished /\ d \notin fresh}

SweepSelect ==
    /\ sweep = {} /\ touching = {}
    /\ Stale # {}
    /\ sweep' = Stale
    /\ UNCHANGED <<rowVars, points, run, tasks, touching, deleting, crashes,
                   purged>>

(* The sweep passes uri = row["url"], which is NULL for a document that    *)
(* came with a key; the flows declare uri: str.  Prefect validates         *)
(* parameters: it refuses the schedule, or the run ends before its body.   *)
SweepEnqueue(d) ==
    /\ d \in sweep /\ touching = {}
    /\ IF d \in KeyOnly THEN UNCHANGED run ELSE Schedule(d)
    /\ sweep' = sweep \ {d}
    /\ touching' = {d}
    /\ UNCHANGED <<rowVars, points, tasks, deleting, crashes, purged>>

SweepSkip(d) ==
    /\ d \in sweep /\ touching = {}
    /\ "refused" \in Surroundings \/ d \in KeyOnly
    /\ sweep' = sweep \ {d}
    /\ UNCHANGED <<rowVars, points, run, tasks, touching, deleting, crashes,
                   purged>>

SweepTouch(d) ==
    /\ d \in touching
    /\ SetStatus(d, "queued")
    /\ touching' = {}
    /\ UNCHANGED <<count, points, run, tasks, sweep, deleting, crashes, purged>>

-----------------------------------------------------------------------------
(* ingest_paper_flow and ingest_deck_flow, run r.  Neither asks whether    *)
(* the row is still there.                                                 *)

StartRun(r) ==
    /\ At(r, "scheduled")
    /\ fresh' = IF Present(run[r].doc) THEN fresh \union {run[r].doc} ELSE fresh
    /\ GoTo(r, "parse")
    /\ UNCHANGED <<status, count, points, tasks, sweep, touching, deleting,
                   crashes, purged>>

(* Mutant: the retries are not counted.                                    *)
RetryForever(r, first, retries) ==
    run' = [run EXCEPT ![r].stage = first, ![r].tries = @ + 1]

Raise(r, first, retries) ==
    LET s == run[r] IN
    run' = [run EXCEPT ![r] =
              IF s.tries < retries
                THEN [s EXCEPT !.stage = first, !.tries = s.tries + 1]
                ELSE [s EXCEPT !.stage = "fail"]]

(* _paper_parse, _deck_parse: set_status, then load and parse, or raise.   *)
Parse(r) ==
    /\ At(r, "parse")
    /\ SetStatus(run[r].doc, "parsing")
    /\ \/ run' = [run EXCEPT ![r].stage = "chunk", ![r].tries = 0]
       \/ Raise(r, "parse", ParseRetries)
    /\ UNCHANGED <<count, points, tasks, sweep, touching, deleting, crashes,
                   purged>>

(* _paper_chunk, _deck_chunk: no retries, nothing that raises.             *)
Chunk(r) ==
    /\ At(r, "chunk")
    /\ SetStatus(run[r].doc, "chunking")
    /\ \E n \in Yields[run[r].doc] :
         run' = [run EXCEPT ![r].stage = "embed", ![r].made = n]
    /\ UNCHANGED <<count, points, tasks, sweep, touching, deleting, crashes,
                   purged>>

(* db.set_status(..., "indexed", frame_count=n), and the run returns.      *)
PublishCount(r, n) ==
    LET d == run[r].doc IN
    /\ SetStatus(d, "indexed")
    /\ count' = [count EXCEPT ![d] = IF Present(d) THEN n ELSE @]
    /\ purged' = purged \ {d}
    /\ EndRun(r)

(* _embed_index without chunks: indexed at once, and nothing is cleared.   *)
EmbedNothing(r) ==
    /\ At(r, "embed") /\ run[r].made = 0
    /\ PublishCount(r, 0)
    /\ UNCHANGED <<points, tasks, sweep, touching, deleting, crashes>>

(* _embed_index: set_status, embed_docs; delete_video; upsert_chunks;      *)
(* set_status.                                                             *)
Embed(r) ==
    /\ At(r, "embed") /\ run[r].made > 0
    /\ SetStatus(run[r].doc, "embedding")
    /\ GoTo(r, "clear")
    /\ UNCHANGED <<count, points, tasks, sweep, touching, deleting, crashes,
                   purged>>

(* Mutant: complete before commit.                                         *)
CompleteEarly(r) ==
    /\ At(r, "clear")
    /\ PublishCount(r, run[r].made)
    /\ UNCHANGED <<points, tasks, sweep, touching, deleting, crashes>>

(* Mutant: the points of an earlier run stay.                              *)
ClearNothing(r) ==
    /\ At(r, "clear")
    /\ GoTo(r, "upsert")
    /\ UNCHANGED <<rowVars, points, tasks, sweep, touching, deleting, crashes,
                   purged>>

Clear(r) ==
    /\ At(r, "clear")
    /\ DeletePoints(run[r].doc)
    /\ GoTo(r, "upsert")
    /\ UNCHANGED <<rowVars, tasks, sweep, touching, deleting, crashes, purged>>

Upsert(r) ==
    /\ At(r, "upsert")
    /\ points' = [points EXCEPT ![run[r].doc] = @ \union (1 .. run[r].made)]
    /\ GoTo(r, "complete")
    /\ UNCHANGED <<rowVars, tasks, sweep, touching, deleting, crashes, purged>>

Complete(r) ==
    /\ At(r, "complete")
    /\ PublishCount(r, run[r].made)
    /\ UNCHANGED <<points, tasks, sweep, touching, deleting, crashes>>

EmbedFails(r) ==
    /\ run[r].stage \in {"clear", "upsert", "complete"}
    /\ Raise(r, "embed", EmbedRetries)
    /\ UNCHANGED <<rowVars, points, tasks, sweep, touching, deleting, crashes,
                   purged>>

Fail(r) ==
    /\ At(r, "fail")
    /\ SetStatus(run[r].doc, "failed")
    /\ EndRun(r)
    /\ UNCHANGED <<count, points, tasks, sweep, touching, deleting, crashes,
                   purged>>

RunDies(r) ==
    /\ ~ At(r, "free")
    /\ crashes < MaxCrashes
    /\ crashes' = crashes + 1
    /\ EndRun(r)
    /\ UNCHANGED <<rowVars, points, tasks, sweep, touching, deleting, purged>>

-----------------------------------------------------------------------------
Api(d) == Register(d) \/ RunTask(d) \/ Retry(d) \/ DeleteVectors(d) \/ DeleteRow(d)

Sweep(d) == Age(d) \/ SweepEnqueue(d) \/ SweepSkip(d) \/ SweepTouch(d)

Proceed(r) ==
    StartRun(r) \/ Parse(r) \/ Chunk(r) \/ EmbedNothing(r) \/ Embed(r)
      \/ Clear(r) \/ Upsert(r) \/ Complete(r) \/ Fail(r)

Next ==
    \/ \E d \in Documents : Api(d) \/ Sweep(d)
    \/ SweepSelect \/ ApiDies
    \/ \E r \in Runs : Proceed(r) \/ EmbedFails(r) \/ RunDies(r)

Spec == Init /\ [][Next]_vars

(* As in VideoIngest: endless loops, runs that get on, a clock; a          *)
(* background task runs unless its process dies.  Nobody but the           *)
(* reconciler serves a retry, so it has to find the row stale: strong      *)
(* fairness says that no user presses retry again within every STALE_S.    *)
Fairness ==
    /\ \A d \in Documents :
         /\ SF_vars(RunTask(d)) /\ WF_vars(Age(d))
         /\ SF_vars(SweepEnqueue(d)) /\ WF_vars(SweepTouch(d))
    /\ SF_vars(SweepSelect)
    /\ \A r \in Runs : WF_vars(Proceed(r))

FairSpec == Spec /\ Fairness

-----------------------------------------------------------------------------
(* Properties.                                                             *)

(* ingest/flows.py: `delete_video clears a dead attempt's partial points   *)
(* before re-upsert', and indexed comes after the upsert.  What an indexed *)
(* row says of its chunks is what can be found: not more, left over from   *)
(* an attempt that died, and not less.                                     *)
IndexedCountsPoints ==
    \A d \in Documents \ purged :
        status[d] = "indexed" => points[d] = 1 .. count[d]

(* api/videos.py, delete: `purges everything'.                             *)
NothingLeftBehind ==
    \A d \in Documents : status[d] = "absent" => points[d] = {}

(* reconciler.py: `finds sources stuck past RECONCILE_STALE_S and          *)
(* re-enqueues them, so a live worker picks them up'; api/admin.py: `no    *)
(* silent loss'.  Every registered document comes to an end.               *)
NoLoss ==
    \A d \in Documents :
        status[d] \in Unfinished ~> status[d] \in Terminal \union {"absent"}

(* Documents keep what SourceLifecycle promises of any source.             *)
Lifecycle == INSTANCE SourceLifecycle WITH
    Sources    <- Documents,
    phase      <- [d \in Documents |->
                     CASE status[d] = "absent"  -> "absent"
                       [] status[d] = "indexed" -> "indexed"
                       [] status[d] \in {"failed", "skipped"} -> "ended"
                       [] OTHER -> "open"],
    searchable <- {d \in Documents : \E n \in Yields[d] : points[d] = 1 .. n},
    traces     <- {d \in Documents : points[d] # {}},
    withdrawn  <- purged

ImplementsLifecycle == Lifecycle!Spec
=============================================================================
