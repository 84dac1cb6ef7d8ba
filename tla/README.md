# Glimpse: formal models

TLA+ models of the `glimpse-lens` server (`src/src/`), model-checked with TLC
and proved about with TLAPS. A theorem states every safety invariant and every
action property that the runs check; what TLC alone shows is liveness. Paths below are those of the
repository, relative to `src/src/` unless they start with `src/`.

## The system

Glimpse ingests videos, papers and decks into Qdrant and answers questions over
them. Four kinds of processes share a Postgres table, a Qdrant instance, a
bucket and a Prefect work queue, and none of them holds a lock across two of
these: that is where the hard behaviours come from.

| component | source | state | operations |
|---|---|---|---|
| manifest | `db.py`, `db_documents.py` | one row per source: status, owner, hash, count, created/updated time | single UPDATEs by id, the two statements of `wfq_claim` |
| video API | `api/videos.py` | none of its own | register, retry, delete (four calls to three systems), presign, direct upload |
| several tenants' door | `api/videos.py`, `db.py` | who was given an upload's URL, what lies at its key | presign, PUT (bucket or API), HEAD, register in fair and FIFO mode |
| document API | `api/admin.py` | background tasks of the process | register a document, schedule its run after the response, keys, audit |
| fair dispatcher | `dispatcher.py` | thread-local `slots`, claimed rows | every 3 s: count, claim, enqueue or hand back |
| reconciler | `reconciler.py` | the rows of its last SELECT | every 20 s: select stale rows, enqueue and touch each |
| video pipeline | `ingest/pipeline.py` | a Prefect run with its stage and retries | fetch, duplicate check, sample, embed-index, transcript |
| document flows | `ingest/flows.py`, `paper.py`, `deck.py` | a Prefect run | parse, chunk, embed-index |
| vector store | `rag/vector_store.py` | points of two collections | upsert, delete by source, search |
| object storage | `storage.py` | thumbnails, raw uploads | put, delete by prefix |
| chunking, frames | `ingest/transcript.py`, `paper.py`, `deck.py`, `dedup.py`, `frames.py` | none (pure) | windows over words and cues, pHash dedup, MJPEG split |
| read path | `rag/search.py`, `api/search.py`, `llm.py` | none | two searches, fusion, join with rows, gate, model choice, frames, citation check, byte ranges |
| access control | `auth.py`, `audit.py` | API keys, audit rows | mint, revoke, resolve |
| rate limit | `guardrails.py`, `redis_client.py` | Redis counters, deques, cooldown | check, meter |
| metrics | `metrics.py` | counters in Redis and in each process, histograms | inc, observe, render, percentiles |
| seeding, start-up | `seeding.py`, `seed.py`, `app.py`, `worker.py` | sample rows, schema, collections | three passes, verdict; migrate, ensure collections |

How they interact: the API writes rows; dispatchers (one thread per worker) turn
`pending` videos into Prefect runs; runs write statuses, points and thumbnails;
the API process runs the reconciler, which re-enqueues whatever has not been
updated for `RECONCILE_STALE_S`; deletes take points, thumbnails and the row in
that order. What is hard is that each step is its own call: two dispatchers
between count and claim, a worker that dies between claim and enqueue or in any
stage, a sweep whose snapshot is old, a run that is redelivered while alive, a
delete or retry while a run is at work, Prefect or Qdrant refusing a call.

What makes each part correct:

- dispatcher: capacity respected up to the number of dispatchers, rows handed
  out once, fair and full selections, nothing lost by a crash;
- pipeline and flows: a row says `indexed` only when its points are all there,
  a deleted source leaves nothing, no content twice, every source comes to an end;
- reconciler: it finds every source nobody works on, and re-running is safe;
- fusion: a place is cited once, by its best hits, agreement of the branches first;
- chunking, frames, dedup: nothing said or shown is lost but what is repeated;
- answering: citations are the tenant's own and in scope, numbers in an answer
  name evidence that was shown, whatever is deleted or rerun during the request;
- the door: a row keeps its owner, its points bear the owner's tag, a run works
  on whole and checked files only;
- access control: a request acts for the tenant and with the role of its own key,
  though keys come and go between its reads;
- rate limit, metrics: a budget holds while Redis comes and goes, totals never
  fall, a replica gets its client back;
- start-up: nothing is up before the samples are indexed, and everything is up
  in the end;
- ranges, histograms: the bytes and the counts that were asked for.

`PROJECT.json` lists the hazards at their lines with the properties that would
catch each going wrong.

## Modules

`SourceLifecycle` is the abstract specification: what a user may rely on about
one source, without rows, runs or sweeps. A source is opened, worked on,
published only when searchable, given up, enriched, withdrawn, removed only when
it leaves no trace. `VideoIngest` and `DocumentIngest` are shown to implement it
(`ImplementsLifecycle`, an `INSTANCE ... WITH` and the abstract `Spec` as a
property), by TLC on an instance and by proof for all.

`FairDispatch` models `dispatch_once` statement by statement for any number of
dispatchers: `Count` (count_inflight and the test of `slots`), `Pick` and `Claim`
(the SELECT and UPDATE of `wfq_claim`; Postgres at READ COMMITTED lets others
write in between), `Enqueue`, `EnqueueFails` (the handler that hands the row
back), `LoseTick` (the worker dies, or an error escapes to `run_forever`). Around
it: `Register`, `Resubmit`, `Delete` of the API, the runs reduced to the statuses
they write, and the reconciler. `before` is the order of `created_at`; ids are
numbers because the SELECT breaks ties by id.

`VideoIngest` models a video's whole life with one action per external call:
each stage of `ingest_video` (`Fetch` ... `Captions`, `Fail`), Prefect's task
retries (`Raise`), the clear-then-upsert loop over `CLIP_BATCH` batches, the
stores (points by batch, transcript points, thumbnails), the dispatcher's claim
and enqueue, the reconciler's select, enqueue and touch, the API's submit and
the four steps of delete. `fresh` is the set of rows updated within `STALE_S`;
`Age` is the clock.

`DocumentIngest` does the same for papers and decks. What differs: the run is
scheduled by a background task of the API process (`RunTask`, lost in
`ApiDies`), the dispatcher ignores documents, so a retry is served by the
reconciler alone, all chunks go up in one upsert, and a document may yield no
chunks (`EmbedNothing`).

`Fusion` models `_fuse` and the cut to `TOP_K` in `rag/search.py` as the loop it
is: `todo` are the hits the loop has not come to, `Absorb` is one turn (a hit
`Opens` a window or `Joins` the first it `Fits`), `Cite` is score, stable sort and
cut. Scores are exact fractions where the code has floats. What Qdrant finds is
any two ranked answers: frames of videos, passages of videos and chunks of
documents, at most `BRANCH_TOP_K` of each. `home` is a history variable.

`Passages` has the pure code of ingest as operators, without state: word windows,
paper and deck chunks, caption passages, the MJPEG split, thinning, dedup; loops
are folds, and each has an operator beside it that says what it promises for one
input. A text is a sequence of words with single blanks between them, so that a
page that is its own chunk and a window of words have comparable keys.

`Answering` follows one question from `POST /api/ask` or `/api/retrieve` to its
end: `Search` of each branch in scope, `Join` with the rows, `Gate`,
`ResolveModel`, `ReadFrame` (threads, in any order), `Generate`. Between any two
of these a source may lose points, frames and row (`DeletePoints`, `DeleteFrames`,
`DeleteRow`), be purged and written again (`Rerun`, `Upsert`), and the tenant may
change their model. A source found is one moment; which moment, and its rank, is
`Fusion`'s matter. What the model replies is any set of numbers.

`AccessControl` has the four reads of `ms_api_keys` of a mutating request as
actions (`auth_active` and the lookup, once for the role, once for the tenant),
`Act` with its audit row (a `mint` request is admitted in the same way), and
`Revoke`, which no endpoint calls, at any time. While no key is valid and no master token set, the app is open:
`opened` remembers which requests met it so.

`Registration` is the write path's door for several tenants: `Presign`, `Put` or
`UploadDirect`, `HeadObject`, `RegisterUpload`, `RegisterFilm`, `Retry`, `Delete`,
in fair mode (the dispatcher schedules with the row's `user_id`) and in FIFO mode
(the request schedules with its own). Runs are reduced to fetch and index.

`Metering` has `check_rate`, `inc` and `render` call by call on one or two
replicas, over `redis_client.client()` with its cooldown: `RateIncr` and
`RateExpire` are apart, a bucket may end or Redis go between them, and each replica
falls back on a window of its own. Time is in ticks; a hit carries its age, and
`Young` is what `popleft` leaves of a deque.

`Startup` is `docker compose up`: the seed's schema, collection, wait for the CLIP
service, passes and verdict, then api and workers racing for columns and
collections by `exists` and `create`; Qdrant and the CLIP service go and come,
processes die.

`Serving` has two computations for readers as operators: which bytes a `Range`
header gets (`LastByte`, `Sent`), and what histograms show (`Observe`,
`Rendered`, `Percentile`).

`MCFairDispatch`, `MCVideoIngest`, `MCDocumentIngest` give TLC its instances.
`MCRequests` puts together what the api does with requests, one part of it in each
behaviour (fusion, answering, keys, door, metering; or, without hits to fuse, one
input for `Passages` or `Serving`). The parts share no variable: what one does to
another (a refused rate, a deleted source) is in the other as a free choice, so
running them one at a time loses nothing and keeps the states a sum. `MCOperation`
does so with the two things that go on by themselves and need fairness.

The proofs are in modules of their own, `X` of most in `XProofs`; `SearchProofs`
has those of `Fusion` and `Answering`, `DoorProofs` of `AccessControl` and
`Registration`, `OperationProofs` of `Metering` and `Startup`, `PureCodeProofs` of
`Passages` and `Serving`, and `RequestsProofs` those of `MCRequests`, which puts
them together. Definitions commented `Mutant:` are what a plausible bug would make of the
definition that follows them; the specifications do not use them.

### What the surroundings may do

`Environment` and `Surroundings` switch on, one by one, what the code cannot
rule out. A run names the set it holds under, so a passing run says under which
circumstances a property holds and a failing one which circumstance breaks it.

- `refused`: Prefect refuses a schedule; `lost_answer`: it makes the run, and
  the caller sees an error.
- `reconcile` (FairDispatch): the sweep runs and may find any unfinished row old.
- `resubmit` / `busy`: users retry, re-register or delete rows that are at rest /
  that are being worked on. The UI offers retry for failed rows only
  (`src/ui/index.html:287`), the API any time.
- `slow`: a row may go stale while someone works on it, a claim may fall between
  the statements of a sweep, and the API may die between a sweep's enqueue and
  its touch. Without it every stage touches its row within 60 s.
- `Answering.Disturbances`: sources are deleted (`delete`), Qdrant swallows the
  purge (`purge_lost`), sources are ingested again (`rerun`), the tenant changes
  their model (`settings`). The run has all of them.
- `Registration.Manners` are the sets of habits users may have: registering before
  the upload is over (`early`), a second PUT to a used URL (`again`), touching what
  is in flight (`hasty`).
- `Metering.Faults`: Redis goes and comes back (`down`), an answer is lost after
  the command was applied (`late`), a replica stops and starts empty (`stop`).
- `Startup.MaxFailures` bounds outages, deaths and failed samples together.
- `qdrant`: Qdrant refuses a delete. `database`: Postgres fails under
  `t_transcript`'s `get_video`. Elsewhere a failing Postgres call is a stage
  that raises.

Crashes (`RunDies`, `DispatcherDies`, `LoseTick`, `DeleteStops`, `SweepStops`,
`ApiDies`) are always possible, up to `MaxCrashes`.

## Runs

| run | checks | instance | states |
|---|---|---|---|
| `FairDispatchTwo` | TypeOK, InflightBound, AdmissionShare, HandedOutOnce, OneRunPerVideo, FairShare, OldestFirstAndFull | 2 dispatchers, 2 users, 3 videos, 2 slots, 0 or 1 document in flight, 1 death, refusals, resubmission | 779 k |
| `FairDispatchHeal` | NoLoss (fair) | 1 dispatcher, 2 videos, 1 death, every behaviour of the environment | 31 k |
| `VideoIngestQuiet` | TypeOK, IndexedMeansSearchable, NothingLeftBehind, TranscriptNeverFails, ImplementsLifecycle | a YouTube video, 3 batches, the code's retry counts, 3 deaths, refusals | 9 k |
| `VideoIngestTwins` | OneIndexedPerContent | two uploads of one file, one worker slot, slow and qdrant | 1.8 M |
| `VideoIngestNoLoss` | NoLoss (fair) | two run slots, slow, refused and database | 183 k |
| `DocumentIngestQuiet` | TypeOK, IndexedCountsPoints, NothingLeftBehind, ImplementsLifecycle | two documents of 1 or 2 chunks, one worker slot, 1 death, refusals | 534 k |
| `DocumentIngestNoLoss` | NoLoss (fair) | every disturbance, two run slots, 0 or 2 chunks, 1 death | 163 k |
| `Requests`, fusion | TypesOK (of all parts), MomentsApart, BestOfItsModality, AgreementFirst, TheBestAreCited | 3 hits a branch, 4 instants of a film, 2 pages, `RRF_K` 2 | 799 k in all |
| `Requests`, samples | TextChunked, FramesSampled on `Passages`; RangeServed, LatencyShown on `Serving` | every small input | |
| `Requests`, answering | Grounded, CitesTheirOwn | 3 sources of 2 tenants, 3 shapes of a question, 2 citations, all disturbances | |
| `Requests`, access | ActsAsItsKey | 2 requests, an admin's and a viewer's key, with and without master token | |
| `Requests`, door | FoundByOwner, UploadsChecked, OwnerKept | 2 tenants, 1 upload, a film and a sample, 1 run slot, fair and FIFO mode | |
| `Requests`, metering | RateBudget, TotalsTrue | 2 calls on 1 or 2 replicas, all faults | |
| `Operation` | UpMeansReady, ClientReturns, ComesUp (fair) | 1 replica with 2 calls; 2 samples, 2 workers, 3 passes, 2 failures | 42 k |

Three runs expect a violation and show what the code does where a doc or comment
says otherwise; `findings` in `PROJECT.json` has the quotes.

| run | what the counterexample shows |
|---|---|
| `FairDispatchReaped` | the reconciler takes waiting `pending` rows for stuck ones and schedules them past the capacity |
| `FairDispatchStarve` | one slot per tick, ties by id: a user who resubmits a low id keeps another's video waiting for ever |
| `VideoIngestRedelivered` | a row stale under a live run is redelivered; one run clears what the other wrote, and the row ends indexed and incomplete |

### What the quiet runs leave out, and what happens there

The safety properties of the ingest modules hold in the surroundings their runs
name. Each surrounding left out is left out because the code gives the property
up in it; the instances below (change `Surroundings` in the `.cfg`) show it.

| property | given up under | because |
|---|---|---|
| IndexedMeansSearchable | `slow` | see `VideoIngestRedelivered` |
| NothingLeftBehind | `busy` | no stage after `t_fetch` looks whether the row is still there, so a run outlives the delete of its video |
| NothingLeftBehind | `qdrant` | `vector_store.delete_video` swallows every exception, and the row goes all the same |
| OneIndexedPerContent | two run slots | of two uploads fetched together neither finds the other indexed |
| TranscriptNeverFails | `database` | `t_transcript` calls `db.get_video` outside its `try` |
| IndexedCountsPoints | a parse that yields no chunks | `_embed_index` returns before `delete_video`, so a rerun leaves the old chunks |
| NoLoss of documents | `KeyOnly` documents | the sweep passes `uri=row["url"]`, NULL for a document registered by key; the flows declare `uri: str` and Prefect validates parameters |

What the run `Requests` leaves out in the same way:

| property | given up under | because |
|---|---|---|
| FoundByOwner | FIFO mode | `register_video` schedules the run with the tenant of the request, while the row of a film keeps the tenant who came first (`db.upsert_pending` does not set `user_id` on conflict); its points then bear the other's tag |
| FoundByOwner | `hasty` users | a second tenant's points are written by a run that outlives the delete of its row |
| UploadsChecked, the part about runs | `early` or `again` | the object may be replaced by a PUT, or grow in a direct upload, after `head_object` saw it |
| RateBudget as one budget | an outage of Redis | `passed` and `own` are bounded apart: a user whose requests are spread over an outage may use the shared budget and, besides, one of each replica |

`GET /api/video` serves `bytes=-n` as `0-n`, the first n + 1 bytes; `RangeServed`
claims nothing of a range without a first byte.

Two things the read path does not promise, though a doc reads as if it did.
`README.md` ("sum their RRF") and `_fuse`'s docstring add up all hits of a window;
the code takes the best of each branch, as its comment explains. And hits within
`FUSION_WINDOW_S` of each other (docstring) need not share a window: a window is
as wide as its first hit says, so a frame and a passage 10 s apart may lie in two
windows whose first hits are 20 s apart, and get no boost.

### Bounds, and why they are enough

Two dispatchers and two users show every pairwise race; the proofs cover any
number. Three videos and two slots are the least with which a selection can be
unfair and also leave someone out; the third video is also one more than a
dispatcher may have in flight. Two run slots are the least with which a
redelivered run meets the first; two batches or more make a partial upsert.
Retry counts are the code's own where the run is small enough
(`VideoIngestQuiet`) and smaller elsewhere, since the count only decides how
often a stage repeats. Three hits a branch make a burst that a pair must beat,
and `RRF_K` 2 keeps `AgreementOutweighs` as true as the code's 60 does for 20
hits; instants 15 apart lie at a window's edge.

Two keys of different role and tenant, and two requests, show every change of a
key between two reads of another request. `RATE_MAX` 1 and a window of two ticks
put the limit, a bucket's end and the expiry within reach of two calls; a
`Cooldown` of 2 in `Operation` is the least that a restarted cooldown can
stretch for ever. Three events are enough for one lost, one doubled and one
shown. Two workers and the api are a race with two losers; two failures are
enough to lose it and then die. Behaviours of the door are either of patient
users in both modes and both storages, or of users with habits in fair mode with
local storage, where half an upload can be seen. `MaxCrashes` bounds deaths in a
behaviour; liveness is about what happens after the last. `MaxRuns` bounds live
runs per video in `FairDispatch`.

### Fairness

`Count`, `Pick`, `Claim`, `Age`, `SweepSelect`, `SweepTouch` are weakly fair: the
dispatcher and the reconciler are endless loops that catch every exception, and
time passes. `Enqueue`, `RunTask` and `SweepEnqueue` are strongly fair: Prefect
does not refuse a row for ever, and in the model a run slot that comes free again
and again is taken. A run's `Proceed` is weakly fair: tasks have finitely many
retries and the flow a timeout. In `DocumentIngest` `SweepSelect` is strongly
fair, because nobody but the sweep serves a document's retry and a user who
presses retry within every 60 s keeps the row fresh; it says no user does so for
ever. Nothing is assumed of users, of failures or of deaths.

`MeterFairness`: time passes, calls end (every Redis call has a timeout) and users
go on asking; `RateFind` and `RateConnect` are strongly fair, since a replica may
be stopped again and again but not in the middle of every request. `StartFairness`:
processes get on, compose restarts those that die (`restart: unless-stopped`),
somebody starts a seed that gave up again, Qdrant and the CLIP service come back.
`ClientReturns` supposes that Redis stays up from some point on.

## Proofs

`FairDispatchProofs` proves, for all values of the constants that meet
`DispatchAssumption`:

- `TypeCorrect`: `Spec => []TypeOK`. The step that matters is that `slots` never
  goes negative.
- `HandedOutOnceHolds`: with rows in flight left alone by users
  (`NoResubmission`). `HandedOutOnce` is not inductive: a dispatcher could hold a
  row that is pending. The invariant `HeldClaimed` adds that a held row was
  claimed last by its holder (`admitter`) and is not pending any more, which only
  the `AND status = 'pending'` of the UPDATE and the hand-back keep true.
- `AdmissionShareHolds` and `InflightBoundHolds`: with no reconciler, no lost
  answers and nobody busy (`Undisturbed`). The invariant splits the rows in flight
  by the dispatcher that admitted them; each part, with what its dispatcher may
  still claim, fits the capacity, because `Count` sees at least the dispatcher's own
  part. `GroupsBound` adds the parts up, `FairPickWithinLimit` says that the
  SELECT's LIMIT is one (an injection of the picked rows into `0 .. limit - 1` by
  the number of rows ahead of each).
- `OneRunPerVideoHolds`: under the same hypothesis.
- `OldestFirstAndFullHolds` and `FairShareHolds`: the two action properties of a
  SELECT, in every environment. They need that `created_at` orders the rows that
  are there without ties (`CreatedInTurn`: inductive with the types; an INSERT comes
  last, only a DELETE takes a row out). An older row of the same user then has a
  smaller rank (`OlderRanksLower`), the rows taken are a front of the order
  (`FairPickFromFront`), and of the rows left over the fairest has only rows taken
  ahead of it, so that these are as many as the limit (`FairPickFull`). `RoundsFair`
  compares two users through ranks: the oldest row left of one user has as its rank
  the number of slots that user got, no row taken has a greater rank, and ranks of
  one user's rows differ (`RowsWithinRanks`). `LeastExists`, on which two of these
  rest, gets the least element from the well-foundedness of the naturals.

`SearchProofs` proves, for any hits, window, `RRF_K`, boost and cut
(`FusionAssumption`):

- `FusionTypeCorrect`, and `MomentsApartHolds`: no two windows are about one
  place. Inductive with the types: a hit opens a window only if it fits none.
- `BestOfItsModalityHolds`: not inductive alone. `BestFirst` adds that whatever is
  in a window came before whatever is still to come, and that a slot's hit is one
  of those, so that a taken slot is taken by a better hit.
- `AgreementFirstHolds`: under `AgreementOutweighs`, that is `2 * boost /
  (RRF_K + BRANCH_TOP_K - 1) > 1 / RRF_K`, what both branches found comes first.
  The work is in `AgreementWins`, the inequality between products; with it a
  sorted order cannot have a lone hit before a pair. The hypothesis holds for the
  defaults (3/79 > 1/60) and tells an operator which `RRF_K`,
  `BRANCH_TOP_K` and `CROSS_MODAL_BOOST` keep the promise.
- `TheBestAreCitedHolds`, for every boost and `RRF_K`. What the sort gives is
  injective, since no window outranks itself, so by counting it is a permutation
  (`EachHasItsTurn`): a window that is not cited has its turn after the `TOP_K`
  that are. That no moment is there twice follows from `MomentsApart`
  (`WindowsDiffer`).

`DoorProofs`, for any tenants, uploads, films and runs: `DoorTypeCorrect`;
`OwnerKeptHolds`, an action property that needs no more than the types, whatever
users do; `FoundByOwnerHolds` in fair mode, hasty users apart. The strengthening
`Tidy` says why: each run is of a row that is in flight and was given the row's
owner (`RunsOfRows`), a row has one run (`OneRunEach`), and an upload is checked
only while nothing works on it (`CheckedAtRest`). And `UploadsCheckedHolds`, in
either mode: an upload's row is there only after somebody got its URL, and is
theirs (`RowsAreTheMinters`); when users upload and register once, what is known
to the server, as checked, as a row or as a run, is whole (`KnownAreWhole`).
The property itself speaks of runs at work only; it is the rows and the checks
between requests that carry the file from the HEAD to the run.

The same module, for any requests and keys: `AccessTypeCorrect` and
`ActsAsItsKeyHolds`. `AccessInv` adds what each stage of a request has learned and
may still rely on: that the app has asked for keys all through a request that is
not in `opened` (`ActiveDuring`), that keys revoked before the request
stay so (`StaleIsRevoked`), whose role and tenant it has read (`AdminWrites`,
`TenantOfKey`), and that the audit has only what was done (`LogOfDone`).

`OperationProofs`, for any replicas and calls: `TotalsTrueHolds` (`Written`: what
Redis has and what is on its way there was counted), and `RateBudgetHolds`. Its
Redis half rests on `KeyLives` (the key does not expire within its bucket, since it
is given `RATE_WINDOW + 1`) and `Passed` (it has counted what passed); its half in
memory on `OwnInv`: ages in a deque fall from the left, and what a replica let pass
within the window is the right end of its deque, so that `popleft` forgets none of
it. `MeterTypeCorrect` adds that no replica counts more than all `inc()` calls and
that no age runs on past the window. The same module has, for any samples and workers, `StartTypeCorrect`, and
`UpMeansReadyHolds` (`ReadyInv`: the seed's verdict itself means indexed samples,
and a service on its way up has what the steps behind it made).

Also in `SearchProofs`, for any library, tenants, question and disturbances:
`CitesTheirOwnHolds` (`WorldInv`: a delete takes the points before the row, so that
what has no row has no points unless their purge was lost; `FoundInv`, `CitesInv`:
what was found and cited was in scope and had not gone) and `GroundedHolds`
(`GroundInv`: evidence is of the citation it stands beside, and only confident
requests come past the gate); with them `AskTypeCorrect`.

`VideoIngestProofs`, for any videos, contents, run slots, batches, retry counts and
crashes. Each theorem names the surroundings it needs, and needs those: the table
above says what breaks it in the others.

| theorem | hypothesis | beyond the run |
|---|---|---|
| `TypeCorrect` | none | all surroundings |
| `TranscriptNeverFailsHolds` | no `database` | users busy, rows stale, any number of runs |
| `OneIndexedPerContentHolds` | `OneRunAtATime`, no `busy` | any number of uploads of a content |
| `IndexedMeansSearchableHolds` | `Quiet`: neither `busy` nor `slow` | several videos and run slots, Qdrant and Postgres failing |
| `NothingLeftBehindHolds` | `Quiet`, no `qdrant` | several videos and run slots, Postgres failing |
| `ImplementsLifecycleHolds` | `QuietInside`: `Quiet`, no `qdrant`, no `database` | several videos and run slots |

None of the safety properties is inductive. What holds them up is in layers, each
proved from those before it. `TypeInv` adds to the types that a run is past no
batch, retry or video that is not there. `HandsInv` is about who has a video: a
dispatcher, a sweep or at most one run, of a row that is there and that no delete
has begun on; and a row that a run works on was touched lately, so that no sweep
takes it for stuck (but for the moment between the reconciler's enqueue and its
touch). That is the part `Quiet` is needed for, and where a second run slot does
no harm. `StoreInv` says what a run knows of the stores (until it commits its row is
not terminal; in the batch loop the batches so far are in the index, at the commit
all of them are) and what each step of a delete has behind it; `EndsInv` adds that
a run about to fail has a row that is not terminal, and one that has committed a row that
is indexed or was put back by the reconciler since.
`LeftAlone` and `ContentInv` are the weaker
pair for `OneIndexedPerContent`, which holds with rows going stale as well: with
one run at a time, whoever passed the duplicate check and has not committed is
alone in having passed it.

`ImplementsLifecycleHolds` maps the initial states to initial states and every
step, action by action, to a step of `SourceLifecycle` or a stutter, under those
invariants: a commit is `Publish` because `StoreInv` has all points in, a retry that
clears is preceded by the row leaving `indexed`, a delete's last statement is
`Remove` because the points and thumbnails have gone before it.

`DocumentIngestProofs`, for any documents, run slots, crashes and numbers of chunks
a parse may give (`Yields`): `TypeCorrect` in all surroundings;
`NothingLeftBehindHolds` under `QuietInside` (no `busy`, `slow` or `qdrant`);
`IndexedCountsPointsHolds` and `ImplementsLifecycleHolds` if besides no parse comes
out empty (`NoEmptyParse`), since `_embed_index` then returns before it clears. The
layers are the same: `TypeInv`, `HandsInv` (who has a document: the background
task, the sweep, a run, a delete), `StoreInv` (`Counted`: the count of an indexed
row is that of its chunks).

Every invariant above was model-checked as an invariant of an instance before it
was proved. The hypotheses are needed: `FairDispatchReaped` breaks the bound with
the reconciler on, `VideoIngestRedelivered` breaks searchability when a row goes
stale under its run.

`PureCodeProofs`, for every input. What each operator of `Passages` and `Serving`
promises is a formula beside it (`WellWindowed`, `EachTextOnce`, ...); the run
`Requests` evaluates it on all inputs up to a bound, the theorem has no bound:

| theorem | of | hypothesis |
|---|---|---|
| `WindowsAreWell` | `_window_chunks`: `WellWindowed` | a positive window; any overlap, even one as long as the window |
| `TextsAreOnce` | `chunk_paper`: `EachTextOnce` | a positive window; `lower` may be anything |
| `SlidesAreFound` | `chunk_deck`: `EachSlideFound` | a positive window |
| `CuesArePartitioned` | `chunk_cues`: `CuesPartitioned` | none; cues may overlap, end before they start or come in any order |
| `FramesAreWhole` | `_split_mjpeg`: `JpegsFramed` | none |
| `ThinningIsEven` | `_sample_scene`: `ThinnedEvenly` | the times showinfo gives do not fall |
| `DedupFollows` | `dedup`: `NoDrift` | `_same` is symmetric and reflexive; not that it is transitive |
| `RangesAreKept` | `video`: `RangeKept` | a positive block size |
| `LatencyIsTrue` | `observe`, `render`, `_pct`: `LatencyTrue` | there are bucket bounds, and they rise |

Loops are folds, and a fold is a recursion. The library's induction theorems take a
predicate, which the provers cannot instantiate; `LoopInduction` says the same of a
set (`0 \in T`, and `k - 1 \in T => k \in T`, so `0 .. n \subseteq T`), proved from
the well-foundedness of the naturals. `FoldLeft` is a function on subsets
of the input's positions, chosen by its equation: `FoldExists` shows by that induction that
there is such a function, and `FoldTurns` that its value is reached from the base
in n turns, `h[k] = turn[h[k - 1], k]`. Each loop then has a lemma that gives it its
turns (`DedupTurns`, `SplitTurns`, `CueTurns`, and for `chunk_paper`, whose turn is itself
a loop, `PageTurns` and `PaperTurns`), an invariant of what it has made of
the first k inputs, and a lemma that a turn keeps it:

- `Steady`: the frames kept of the first m, and for each of the m the last one kept;
- `Framed`: the frames closed so far, and that from the open `start` on no EOI was read;
- `Taken`: the cues in the passages so far and in the open one are the first m, and
  the open one is not long enough yet, nor was any closed one before its last cue;
- `FoldedOnce`: the texts seen are those of the chunks, no two alike, in the order of
  pages; with `KeepsFound`, that a text found once stays found;
- `Counts`: what a histogram has in each bucket is the number of the first k
  observations within its bound.

`_window_chunks` has no fold: its starts are the multiples of the step below the
first whose window reaches the end (`LastStart`, `StartsFound`), the k-th of them by
counting those before it (`NthStart`). `FlattenSeq` and the recursive functions of
`Serving` (`StreamSends`, `HistogramTurns`) are unfolded by the same induction.

`RequestsProofs` puts the requests together. `EachPartRuns`: a behaviour of
`MCRequests` is one of `Fusion`, of `Answering`, of `AccessControl`, of `Registration`
and of `Metering`, since each step is of one part or leaves it alone and an empty
search is an initial state of `Fusion` (`NothingToFuse`). So theorems about the parts are
theorems about the whole; `TypesHold` draws the first consequence. The input of the
pure code does not change (`InputStays`), so that `TextChunkedHolds`,
`FramesSampledHolds`, `RangeServedHolds` and `LatencyShownHolds` follow from the
table.

What no proof covers and TLC alone checks is liveness under fairness: `NoLoss` of
videos, of documents and of the dispatcher's rows, `ClientReturns`, `ComesUp`.
Fairness is about `ENABLED`, which is beyond the prover.

## Not modelled, and plan

Left out of modelled parts: the flow's one-hour timeout (to the model a death),
`meter_llm_call`'s count, which only goes to the log, `GET /api/frame`, metric labels
and the JSON rollup, titles, links and prompts. `RunDies` after `indexed` and before
the transcript leaves a video without one for good; no doc promises otherwise, so
no property is stated. Not to be modelled: model inference, parsers of PDF and
PPTX, ffmpeg and downloads beyond their failing, HTTP and provider clients, the UI
and the benchmark.

What the plan has left: the labels and the JSON rollup of the metrics and the token
count of `meter_llm_call`, which no property here would say anything of, and proofs of
the liveness properties, once the prover handles `ENABLED`.
