----------------------------- MODULE VideoIngest -----------------------------
(***************************************************************************)
(* The life of a video from registration to search: the manifest row       *)
(* (db.py), the Prefect runs with their stages and task retries            *)
(* (ingest/pipeline.py), the points in Qdrant and the thumbnails in the    *)
(* bucket (rag/vector_store.py, storage.py), the reconciler that           *)
(* re-enqueues stale rows (reconciler.py), and the API's retry and delete  *)
(* (api/videos.py).  Workers and the API process may die at any point.     *)
(*                                                                         *)
(* One action per call that leaves the process: a statement against        *)
(* Postgres, a request to Qdrant, a schedule in Prefect.  FairDispatch     *)
(* has the order in which pending rows are claimed; here any is.           *)
(***************************************************************************)
EXTENDS Integers, FiniteSets

CONSTANTS
    Videos,
    Uploads,       \* the videos that are uploads; the others are YouTube's
    Content,       \* what sha256_file finds in each upload
    Nobody,        \* no video: what a free slot is about
    Runs,          \* slots for Prefect runs, scheduled or executing
    Batches,       \* number of CLIP_BATCH batches a video's frames make
    FetchRetries,  \* retries of @task fetch (2 in the code)
    EmbedRetries,  \* retries of @task embed-index (2 in the code)
    MaxCrashes,    \* bound: processes that die in a behaviour
    Surroundings   \* what the surroundings may do, a subset of Disturbances

Disturbances ==
    {"slow",     \* a row may go stale while a run or a dispatcher has it,
                 \* and a claim may come between the statements of a sweep
     "busy",     \* retries, re-registrations and deletes of rows in flight
     "qdrant",   \* Qdrant refuses a delete (vector_store swallows that)
     "database", \* Postgres fails under t_transcript
     "refused"}  \* Prefect refuses to schedule a run

ASSUME IngestAssumption ==
    /\ IsFiniteSet(Videos)
    /\ Uploads \subseteq Videos
    /\ Nobody \notin Videos
    /\ IsFiniteSet(Runs)
    /\ Batches \in Nat \ {0}
    /\ FetchRetries \in Nat
    /\ EmbedRetries \in Nat
    /\ MaxCrashes \in Nat
    /\ Surroundings \subseteq Disturbances

VARIABLES
    status,     \* ms_videos.status, "absent" when there is no row
    hashed,     \* rows whose source_hash is set
    fresh,      \* rows updated within the last RECONCILE_STALE_S
    frames,     \* points of each video in the frame collection, by batch
    text,       \* videos with points in the text collection
    thumbs,     \* videos with thumbnails under their prefix
    run,        \* the runs: stage, video, retries used, next batch
    held,       \* rows claimed by a dispatcher, their run not scheduled yet
    sweep,      \* rows the reconciler selected and has not handled yet
    touching,   \* rows it re-enqueued, before its set_status(id, "queued")
    deleting,   \* how far the API's delete of each video is
    crashes,
    purged      \* history: rows a delete has taken points from since indexed

rowVars    == <<status, hashed, fresh>>
storeVars  == <<frames, text, thumbs>>
sweepVars  == <<sweep, touching>>
vars == <<rowVars, storeVars, run, held, sweepVars, deleting, crashes, purged>>

Terminal  == {"indexed", "failed", "skipped"}
Statuses  == {"pending", "queued", "fetching", "sampling", "embedding"}
               \union Terminal
Stages    == {"free", "scheduled", "fetch", "download", "dup", "sample",
              "thumbs", "embed", "clear", "upsert", "commit", "transcript",
              "captions", "fail"}
AllBatches == 1 .. Batches
Free       == [stage |-> "free", video |-> Nobody, tries |-> 0, next |-> 1]

Present(v) == status[v] # "absent"

TypeOK ==
    /\ status \in [Videos -> Statuses \union {"absent"}]
    /\ hashed \subseteq Videos /\ fresh \subseteq Videos
    /\ frames \in [Videos -> SUBSET AllBatches]
    /\ text \subseteq Videos /\ thumbs \subseteq Videos
    /\ run \in [Runs -> [stage : Stages, video : Videos \union {Nobody},
                         tries : 0 .. (FetchRetries + EmbedRetries + 1),
                         next : 1 .. (Batches + 1)]]
    /\ held \subseteq Videos
    /\ sweep \subseteq Videos /\ touching \subseteq Videos
    /\ deleting \in [Videos -> {"no", "thumbs", "row"}]
    /\ crashes \in 0 .. MaxCrashes
    /\ purged \subseteq Videos

Init ==
    /\ status = [v \in Videos |-> "absent"]
    /\ hashed = {} /\ fresh = {}
    /\ frames = [v \in Videos |-> {}]
    /\ text = {} /\ thumbs = {}
    /\ run = [r \in Runs |-> Free]
    /\ held = {} /\ sweep = {} /\ touching = {}
    /\ deleting = [v \in Videos |-> "no"]
    /\ crashes = 0
    /\ purged = {}

-----------------------------------------------------------------------------
Live(v) == \E r \in Runs : run[r].video = v

(* Nobody but the users is about to do anything with v.                    *)
Calm(v) ==
    /\ ~ Live(v)
    /\ v \notin held \union sweep \union touching
    /\ deleting[v] = "no"

(* db.set_status: an UPDATE by id; a row that is gone stays gone.          *)
SetStatus(v, s) ==
    /\ status' = [status EXCEPT ![v] = IF Present(v) THEN s ELSE @]
    /\ fresh' = IF Present(v) THEN fresh \union {v} ELSE fresh

(* set_progress and bump_attempts: only updated_at matters here.           *)
Touch(v) ==
    /\ fresh' = IF Present(v) THEN fresh \union {v} ELSE fresh
    /\ UNCHANGED <<status, hashed>>

At(r, stage)   == run[r].stage = stage
GoTo(r, stage) == run' = [run EXCEPT ![r].stage = stage]
EndRun(r)      == run' = [run EXCEPT ![r] = Free]

(* run_deployment: one more scheduled run; the model has room for Runs.    *)
Schedule(v) ==
    \E r \in Runs :
        /\ At(r, "free")
        /\ run' = [run EXCEPT ![r] = [Free EXCEPT !.stage = "scheduled",
                                                  !.video = v]]

-----------------------------------------------------------------------------
(* The API's writes.                                                       *)

(* POST /api/videos (upsert_pending) and POST .../retry (set_status): the  *)
(* row is pending again; a new row has no source_hash unless YouTube's id. *)
Submit(v) ==
    /\ \/ "busy" \in Surroundings
       \/ Calm(v) /\ status[v] \in Terminal \union {"absent"}
    /\ status' = [status EXCEPT ![v] = "pending"]
    /\ fresh' = fresh \union {v}
    /\ hashed' = IF v \in Uploads THEN hashed ELSE hashed \union {v}
    /\ UNCHANGED <<storeVars, run, held, sweepVars, deleting, crashes, purged>>

(* vector_store.delete_video: both collections; an exception is swallowed  *)
(* for each on its own, and the points of that collection stay.            *)
DeletePoints(v) ==
    LET refusable(kept) == kept => "qdrant" \in Surroundings IN
    \E keepFrames, keepText \in BOOLEAN :
        /\ refusable(keepFrames) /\ refusable(keepText)
        /\ frames' = [frames EXCEPT ![v] = IF keepFrames THEN @ ELSE {}]
        /\ text' = IF keepText THEN text ELSE text \ {v}

(* DELETE /api/videos/{id}: the row is read, then the vectors go.          *)
DeleteVectors(v) ==
    /\ Present(v) /\ deleting[v] = "no"
    /\ "busy" \in Surroundings \/ (Calm(v) /\ status[v] \in Terminal)
    /\ DeletePoints(v)
    /\ purged' = purged \union {v}
    /\ deleting' = [deleting EXCEPT ![v] = "thumbs"]
    /\ UNCHANGED <<rowVars, thumbs, run, held, sweepVars, crashes>>

(* ... then the thumbnails and the raw upload ...                          *)
DeleteThumbs(v) ==
    /\ deleting[v] = "thumbs"
    /\ thumbs' = thumbs \ {v}
    /\ deleting' = [deleting EXCEPT ![v] = "row"]
    /\ UNCHANGED <<rowVars, frames, text, run, held, sweepVars, crashes, purged>>

(* Mutant: the row is deleted before the thumbnails.                       *)
DeleteRowEarly(v) ==
    /\ deleting[v] = "thumbs"
    /\ status' = [status EXCEPT ![v] = "absent"]
    /\ hashed' = hashed \ {v} /\ fresh' = fresh \ {v}
    /\ deleting' = [deleting EXCEPT ![v] = "no"]
    /\ purged' = purged \ {v}
    /\ UNCHANGED <<storeVars, run, held, sweepVars, crashes>>

(* ... and last the row.                                                   *)
DeleteRow(v) ==
    /\ deleting[v] = "row"
    /\ status' = [status EXCEPT ![v] = "absent"]
    /\ hashed' = hashed \ {v} /\ fresh' = fresh \ {v}
    /\ deleting' = [deleting EXCEPT ![v] = "no"]
    /\ purged' = purged \ {v}
    /\ UNCHANGED <<storeVars, run, held, sweepVars, crashes>>

(* The API process dies, or the storage call raises: the rest is not done. *)
DeleteStops(v) ==
    /\ deleting[v] # "no"
    /\ crashes < MaxCrashes
    /\ crashes' = crashes + 1
    /\ deleting' = [deleting EXCEPT ![v] = "no"]
    /\ UNCHANGED <<rowVars, storeVars, run, held, sweepVars, purged>>

-----------------------------------------------------------------------------
(* The dispatcher: claim, schedule.                                        *)

Claim(v) ==
    /\ status[v] = "pending"
    /\ "slow" \in Surroundings \/ v \notin sweep \union touching
    /\ SetStatus(v, "queued")
    /\ held' = held \union {v}
    /\ UNCHANGED <<hashed, storeVars, run, sweepVars, deleting, crashes, purged>>

Enqueue(v) ==
    /\ v \in held
    /\ Schedule(v)
    /\ held' = held \ {v}
    /\ UNCHANGED <<rowVars, storeVars, sweepVars, deleting, crashes, purged>>

EnqueueFails(v) ==
    /\ v \in held
    /\ "refused" \in Surroundings
    /\ SetStatus(v, "pending")
    /\ held' = held \ {v}
    /\ UNCHANGED <<hashed, storeVars, run, sweepVars, deleting, crashes, purged>>

(* The worker dies between the claim and the enqueue.                      *)
DispatcherDies(v) ==
    /\ v \in held
    /\ crashes < MaxCrashes
    /\ crashes' = crashes + 1
    /\ held' = held \ {v}
    /\ UNCHANGED <<rowVars, storeVars, run, sweepVars, deleting, purged>>

-----------------------------------------------------------------------------
(* The reconciler.                                                         *)

(* Time passes: v was not written for RECONCILE_STALE_S.                   *)
Age(v) ==
    /\ v \in fresh
    /\ "slow" \in Surroundings \/ Calm(v)
    /\ fresh' = fresh \ {v}
    /\ UNCHANGED <<status, hashed, storeVars, run, held, sweepVars, deleting,
                   crashes, purged>>

(* WHERE NOT (status = ANY(_TERMINAL)) AND updated_at < now() - STALE_S.   *)
Stale == {v \in Videos : Present(v) /\ status[v] \notin Terminal /\ v \notin fresh}

(* Mutant: a sweep that takes `queued' for a status someone looks after.   *)
SweepSelectUnqueued ==
    LET rows == {v \in Stale : status[v] # "queued"} IN
    /\ sweep = {} /\ touching = {}
    /\ rows # {}
    /\ sweep' = rows
    /\ UNCHANGED <<rowVars, storeVars, run, held, touching, deleting, crashes,
                   purged>>

SweepSelect ==
    /\ sweep = {} /\ touching = {}
    /\ Stale # {}
    /\ sweep' = Stale
    /\ UNCHANGED <<rowVars, storeVars, run, held, touching, deleting, crashes,
                   purged>>

SweepEnqueue(v) ==
    /\ v \in sweep /\ touching = {}
    /\ Schedule(v)
    /\ sweep' = sweep \ {v}
    /\ touching' = {v}
    /\ UNCHANGED <<rowVars, storeVars, held, deleting, crashes, purged>>

(* The enqueue raises: logged, and left to the next sweep.                 *)
SweepSkip(v) ==
    /\ v \in sweep /\ touching = {}
    /\ "refused" \in Surroundings
    /\ sweep' = sweep \ {v}
    /\ UNCHANGED <<rowVars, storeVars, run, held, touching, deleting, crashes,
                   purged>>

SweepTouch(v) ==
    /\ v \in touching
    /\ SetStatus(v, "queued")
    /\ touching' = {}
    /\ UNCHANGED <<hashed, storeVars, run, held, sweep, deleting, crashes,
                   purged>>

(* The API process dies in the sweep; the next one starts from nothing.    *)
(* (Dying between the enqueue and the touch leaves a stale row that has a  *)
(* run: that is among what "slow" stands for.)                             *)
SweepStops ==
    /\ sweep \union touching # {}
    /\ "slow" \in Surroundings \/ touching = {}
    /\ crashes < MaxCrashes
    /\ crashes' = crashes + 1
    /\ sweep' = {} /\ touching' = {}
    /\ UNCHANGED <<rowVars, storeVars, run, held, deleting, purged>>

-----------------------------------------------------------------------------
(* ingest_video, run r.                                                    *)

(* Prefect starts the run; db.bump_attempts.                               *)
StartRun(r) ==
    /\ At(r, "scheduled")
    /\ Touch(run[r].video)
    /\ GoTo(r, "fetch")
    /\ UNCHANGED <<storeVars, held, sweepVars, deleting, crashes, purged>>

(* Mutant: the retries are not counted.                                    *)
RetryForever(r, first, retries) ==
    run' = [run EXCEPT ![r].stage = first, ![r].tries = @ + 1, ![r].next = 1]

(* A task raises: Prefect tries it again from its first line while it has  *)
(* retries, then the flow's except clause runs.                            *)
Raise(r, first, retries) ==
    LET s == run[r] IN
    run' = [run EXCEPT ![r] =
              IF s.tries < retries
                THEN [s EXCEPT !.stage = first, !.tries = s.tries + 1, !.next = 1]
                ELSE [s EXCEPT !.stage = "fail"]]

(* t_fetch: set_status(fetching), then get_video; no row is a ValueError.  *)
Fetch(r) ==
    /\ At(r, "fetch")
    /\ SetStatus(run[r].video, "fetching")
    /\ IF Present(run[r].video)
         THEN GoTo(r, "download")
         ELSE Raise(r, "fetch", FetchRetries)
    /\ UNCHANGED <<hashed, storeVars, held, sweepVars, deleting, crashes, purged>>

(* The file is here and hashed.                                            *)
Download(r) ==
    /\ At(r, "download")
    /\ LET v == run[r].video IN
         /\ SetStatus(v, "fetching")
         /\ hashed' = IF Present(v) THEN hashed \union {v} ELSE hashed
    /\ GoTo(r, "dup")
    /\ UNCHANGED <<storeVars, held, sweepVars, deleting, crashes, purged>>

FetchFails(r) ==
    /\ run[r].stage \in {"download", "dup"}
    /\ Raise(r, "fetch", FetchRetries)
    /\ UNCHANGED <<rowVars, storeVars, held, sweepVars, deleting, crashes,
                   purged>>

(* db.find_duplicate: another row, indexed, of the same content.           *)
SameContent(v, w) == v \in Uploads /\ w \in Uploads /\ Content[v] = Content[w]

HasDuplicate(v) ==
    \E w \in Videos \ {v} :
        w \in hashed /\ status[w] = "indexed" /\ SameContent(v, w)

(* Mutant: the duplicate check only looks at its own id.                   *)
SkipNothing(r) ==
    /\ At(r, "dup")
    /\ run' = [run EXCEPT ![r].stage = "sample", ![r].tries = 0]
    /\ UNCHANGED <<rowVars, storeVars, held, sweepVars, deleting, crashes,
                   purged>>

CheckDuplicate(r) ==
    /\ At(r, "dup")
    /\ LET v == run[r].video IN
       \/ /\ HasDuplicate(v)
          /\ SetStatus(v, "skipped")
          /\ EndRun(r)
       \/ /\ ~ HasDuplicate(v)
          /\ run' = [run EXCEPT ![r].stage = "sample", ![r].tries = 0]
          /\ UNCHANGED <<status, fresh>>
    /\ UNCHANGED <<hashed, storeVars, held, sweepVars, deleting, crashes, purged>>

(* t_sample: set_status, then frames, dedup, and the thumbnails anew.      *)
Sample(r) ==
    /\ At(r, "sample")
    /\ SetStatus(run[r].video, "sampling")
    /\ GoTo(r, "thumbs")
    /\ UNCHANGED <<hashed, storeVars, held, sweepVars, deleting, crashes, purged>>

PutThumbs(r) ==
    /\ At(r, "thumbs")
    /\ thumbs' = thumbs \union {run[r].video}
    /\ Touch(run[r].video)
    /\ GoTo(r, "embed")
    /\ UNCHANGED <<frames, text, held, sweepVars, deleting, crashes, purged>>

(* No frames, or a put that raises after some: the task has no retries.    *)
SampleFails(r) ==
    /\ At(r, "thumbs")
    /\ LET v == run[r].video IN
         thumbs' \in {thumbs, thumbs \ {v}, thumbs \union {v}}
    /\ GoTo(r, "fail")
    /\ UNCHANGED <<rowVars, frames, text, held, sweepVars, deleting, crashes,
                   purged>>

(* t_embed_index: set_status, delete_video, the batches, set_status.       *)
Embed(r) ==
    /\ At(r, "embed")
    /\ SetStatus(run[r].video, "embedding")
    /\ GoTo(r, "clear")
    /\ UNCHANGED <<hashed, storeVars, held, sweepVars, deleting, crashes, purged>>

Clear(r) ==
    /\ At(r, "clear")
    /\ DeletePoints(run[r].video)
    /\ GoTo(r, "upsert")
    /\ UNCHANGED <<rowVars, thumbs, held, sweepVars, deleting, crashes, purged>>

(* Mutant: the video is complete one batch early.                          *)
UpsertAllButOne(r) ==
    /\ At(r, "upsert")
    /\ LET v == run[r].video  b == run[r].next IN
         /\ frames' = [frames EXCEPT ![v] = @ \union {b}]
         /\ Touch(v)
         /\ run' = [run EXCEPT ![r].next = b + 1,
                               ![r].stage = IF b >= Batches - 1
                                              THEN "commit" ELSE @]
    /\ UNCHANGED <<text, thumbs, held, sweepVars, deleting, crashes, purged>>

(* One turn of the loop: embed, upsert_frames, set_progress.               *)
Upsert(r) ==
    /\ At(r, "upsert")
    /\ LET v == run[r].video  b == run[r].next IN
         /\ frames' = [frames EXCEPT ![v] = @ \union {b}]
         /\ Touch(v)
         /\ run' = [run EXCEPT ![r].next = b + 1,
                               ![r].stage = IF b = Batches THEN "commit" ELSE @]
    /\ UNCHANGED <<text, thumbs, held, sweepVars, deleting, crashes, purged>>

EmbedFails(r) ==
    /\ run[r].stage \in {"clear", "upsert", "commit"}
    /\ Raise(r, "embed", EmbedRetries)
    /\ UNCHANGED <<rowVars, storeVars, held, sweepVars, deleting, crashes,
                   purged>>

Commit(r) ==
    /\ At(r, "commit")
    /\ SetStatus(run[r].video, "indexed")
    /\ purged' = purged \ {run[r].video}
    /\ run' = [run EXCEPT ![r].stage = "transcript", ![r].tries = 0,
                          ![r].next = 1]
    /\ UNCHANGED <<hashed, storeVars, held, sweepVars, deleting, crashes>>

(* t_transcript: get_video; an upload, or a row that is gone, has none.    *)
Transcript(r) ==
    /\ At(r, "transcript")
    /\ IF Present(run[r].video) /\ run[r].video \notin Uploads
         THEN GoTo(r, "captions")
         ELSE EndRun(r)
    /\ UNCHANGED <<rowVars, storeVars, held, sweepVars, deleting, crashes,
                   purged>>

(* That get_video is outside the try: the task has one retry.              *)
TranscriptRaises(r) ==
    /\ At(r, "transcript")
    /\ "database" \in Surroundings
    /\ Raise(r, "transcript", 1)
    /\ UNCHANGED <<rowVars, storeVars, held, sweepVars, deleting, crashes,
                   purged>>

(* Mutant: the try around the captions is gone.                            *)
CaptionsRaise(r) ==
    /\ At(r, "captions")
    /\ \/ text' = text \union {run[r].video} /\ EndRun(r)
       \/ Raise(r, "transcript", 1) /\ UNCHANGED text
    /\ UNCHANGED <<rowVars, frames, thumbs, held, sweepVars, deleting, crashes,
                   purged>>

(* Captions are chunked and upserted, or anything in the try goes wrong.   *)
Captions(r) ==
    /\ At(r, "captions")
    /\ text' \in {text, text \union {run[r].video}}
    /\ EndRun(r)
    /\ UNCHANGED <<rowVars, frames, thumbs, held, sweepVars, deleting, crashes,
                   purged>>

(* except Exception: set_status(failed), raise.                            *)
Fail(r) ==
    /\ At(r, "fail")
    /\ SetStatus(run[r].video, "failed")
    /\ EndRun(r)
    /\ UNCHANGED <<hashed, storeVars, held, sweepVars, deleting, crashes, purged>>

(* The worker dies: Prefect marks the run Crashed and starts no other.     *)
RunDies(r) ==
    /\ ~ At(r, "free")
    /\ crashes < MaxCrashes
    /\ crashes' = crashes + 1
    /\ EndRun(r)
    /\ UNCHANGED <<rowVars, storeVars, held, sweepVars, deleting, purged>>

-----------------------------------------------------------------------------
Api(v) ==
    Submit(v) \/ DeleteVectors(v) \/ DeleteThumbs(v) \/ DeleteRow(v)
      \/ DeleteStops(v)

Dispatcher(v) == Claim(v) \/ Enqueue(v) \/ EnqueueFails(v) \/ DispatcherDies(v)

Sweep(v) == Age(v) \/ SweepEnqueue(v) \/ SweepSkip(v) \/ SweepTouch(v)

(* What a run does when nothing goes wrong, and what may go wrong.         *)
Proceed(r) ==
    \/ StartRun(r) \/ Fetch(r) \/ Download(r) \/ CheckDuplicate(r)
    \/ Sample(r) \/ PutThumbs(r)
    \/ Embed(r) \/ Clear(r) \/ Upsert(r) \/ Commit(r)
    \/ Transcript(r) \/ Captions(r) \/ Fail(r)

GoWrong(r) ==
    FetchFails(r) \/ SampleFails(r) \/ EmbedFails(r) \/ TranscriptRaises(r)
      \/ RunDies(r)

Next ==
    \/ \E v \in Videos : Api(v) \/ Dispatcher(v) \/ Sweep(v)
    \/ SweepSelect \/ SweepStops
    \/ \E r \in Runs : Proceed(r) \/ GoWrong(r)

Spec == Init /\ [][Next]_vars

(* Dispatcher and reconciler are endless loops; Prefect executes what was  *)
(* scheduled, and a run that is not killed gets on or fails (its tasks     *)
(* have finitely many retries, the flow a timeout); the clock goes on.     *)
Fairness ==
    /\ \A v \in Videos :
         /\ WF_vars(Claim(v)) /\ SF_vars(Enqueue(v))
         /\ WF_vars(Age(v))
         /\ SF_vars(SweepEnqueue(v)) /\ WF_vars(SweepTouch(v))
    /\ WF_vars(SweepSelect)
    /\ \A r \in Runs : WF_vars(Proceed(r))

FairSpec == Spec /\ Fairness

-----------------------------------------------------------------------------
(* Properties.                                                             *)

Complete(v) == frames[v] = AllBatches

(* ingest/flows.py: `status set to indexed ONLY after the Qdrant upsert    *)
(* returns'.  Through task retries, crashes, re-enqueues, duplicates and   *)
(* interrupted deletes, a row that says indexed has all its points, unless *)
(* its user's delete has taken them.                                       *)
IndexedMeansSearchable ==
    \A v \in Videos \ purged : status[v] = "indexed" => Complete(v)

(* The same, asked only when nobody is at work on the row any more: a      *)
(* violation is one that nothing will ever repair, as indexed is terminal. *)
SettledMeansSearchable ==
    \A v \in Videos \ purged : status[v] = "indexed" /\ Calm(v) => Complete(v)

(* api/videos.py, delete: `purges everything: vectors, thumbnails, the raw *)
(* upload, and the manifest row'.  Nothing is stored for a video without a *)
(* row, where no later delete could find it.                               *)
NothingLeftBehind ==
    \A v \in Videos :
        status[v] = "absent" => frames[v] = {} /\ v \notin text \union thumbs

(* README.md:166: `a duplicate (user_id, source_hash) marks the row        *)
(* skipped and stops'.  No content is indexed twice for its user.          *)
OneIndexedPerContent ==
    \A v, w \in Videos :
        v # w /\ SameContent(v, w) =>
            ~ (status[v] = "indexed" /\ status[w] = "indexed")

(* pipeline.py:129: the transcript is best-effort, `never fails the flow'. *)
TranscriptNeverFails ==
    [][\A r \in Runs :
         run[r].stage \in {"transcript", "captions"}
            => run'[r].stage # "fail"]_vars

(* glimpse-design.md section 9, reconciler.py: no loss.  Every registered  *)
(* video comes to an end, whatever dies on the way.                        *)
NoLoss ==
    \A v \in Videos :
        Present(v) /\ status[v] \notin Terminal
            ~> status[v] \in Terminal \union {"absent"}

(* Ingest is what SourceLifecycle promises.                                *)
Lifecycle == INSTANCE SourceLifecycle WITH
    Sources    <- Videos,
    phase      <- [v \in Videos |->
                     CASE status[v] = "absent"  -> "absent"
                       [] status[v] = "indexed" -> "indexed"
                       [] status[v] \in {"failed", "skipped"} -> "ended"
                       [] OTHER -> "open"],
    searchable <- {v \in Videos : Complete(v)},
    traces     <- {v \in Videos : frames[v] # {}} \union text \union thumbs,
    withdrawn  <- purged

ImplementsLifecycle == Lifecycle!Spec
=============================================================================
