-------------------------- MODULE VideoIngestProofs --------------------------
(* Theorems about VideoIngest for every set of videos and runs, every      *)
(* number of batches and retries and every bound on crashes.               *)
EXTENDS VideoIngest, TLAPS

-----------------------------------------------------------------------------
(* Types, whatever the surroundings do.                                    *)

(* TypeOK is not inductive: that the next batch stays in range rests on    *)
(* where the counter is reset, and that a run is of a video on the slot    *)
(* being taken.                                                            *)
SlotOK(s) ==
    /\ s.stage = "free" => s.video = Nobody
    /\ s.stage # "free" => s.video \in Videos
    /\ s.stage \notin {"upsert", "commit", "fail"} => s.next = 1
    /\ s.stage = "upsert" => s.next \in AllBatches

SlotsOK == \A r \in Runs : SlotOK(run[r])

Slots == [stage : Stages, video : Videos \union {Nobody},
          tries : 0 .. (FetchRetries + EmbedRetries + 1),
          next : 1 .. (Batches + 1)]

TypeInv == TypeOK /\ SlotsOK

(* A step that puts a slot into another proper state, or leaves the slots. *)
LEMMA SlotSet ==
    ASSUME TypeInv, NEW r \in Runs, NEW s \in Slots, SlotOK(s),
           run' = [run EXCEPT ![r] = s]
    PROVE  run' \in [Runs -> Slots] /\ SlotsOK'
BY DEF TypeInv, TypeOK, SlotsOK, SlotOK, Slots

LEMMA FreeSlot == Free \in Slots /\ SlotOK(Free)
BY IngestAssumption DEF Free, Slots, SlotOK, Stages, AllBatches

(* What a run's step makes of its slot is a slot.                          *)
LEMMA GoToType ==
    ASSUME TypeInv, NEW r \in Runs,
           NEW stage \in Stages \ {"free", "upsert", "commit"}, GoTo(r, stage),
           run[r].stage \notin {"free", "upsert", "commit", "fail"}
    PROVE  run' \in [Runs -> Slots] /\ SlotsOK'
<1> DEFINE s == [run[r] EXCEPT !.stage = stage]
<1>1. run[r] \in Slots /\ SlotOK(run[r])
  BY DEF TypeInv, TypeOK, SlotsOK, Slots
<1>2. s \in Slots /\ SlotOK(s)
  BY <1>1 DEF Slots, SlotOK, Stages
<1>3. run' = [run EXCEPT ![r] = s]
  BY DEF GoTo
<1> QED  BY <1>2, <1>3, SlotSet

LEMMA RaiseType ==
    ASSUME TypeInv, NEW r \in Runs, ~ At(r, "free"),
           NEW first \in {"fetch", "embed", "transcript"},
           NEW retries \in 0 .. (FetchRetries + EmbedRetries + 1),
           Raise(r, first, retries)
    PROVE  run' \in [Runs -> Slots] /\ SlotsOK'
<1> DEFINE more == [run[r] EXCEPT !.tries = run[r].tries + 1]
           again == [[more EXCEPT !.stage = first] EXCEPT !.next = 1]
           over  == [run[r] EXCEPT !.stage = "fail"]
<1>1. run[r] \in Slots /\ SlotOK(run[r]) /\ run[r].stage # "free"
  BY DEF TypeInv, TypeOK, SlotsOK, Slots, At
<1>2. run' = [run EXCEPT ![r] = IF run[r].tries < retries THEN again ELSE over]
  BY DEF Raise
<1>3. CASE run[r].tries < retries
  <2>1. more \in Slots /\ 1 \in 1 .. (Batches + 1)
    BY <1>1, <1>3, IngestAssumption DEF Slots
  <2>2. again \in Slots /\ SlotOK(again)
    BY <1>1, <2>1 DEF Slots, SlotOK, Stages
  <2> QED  BY <1>2, <1>3, <2>2, SlotSet
<1>4. CASE ~ (run[r].tries < retries)
  <2>1. over \in Slots /\ SlotOK(over)
    BY <1>1 DEF Slots, SlotOK, Stages
  <2> QED  BY <1>2, <1>4, <2>1, SlotSet
<1> QED  BY <1>3, <1>4

LEMMA ScheduleType ==
    ASSUME TypeInv, NEW v \in Videos, Schedule(v)
    PROVE  run' \in [Runs -> Slots] /\ SlotsOK'
<1> DEFINE s == [Free EXCEPT !.stage = "scheduled", !.video = v]
<1>1. s \in Slots /\ SlotOK(s)
  BY FreeSlot DEF Slots, SlotOK, Stages, Free
<1> QED  BY <1>1, SlotSet DEF Schedule

(* What the run's steps in its tasks make of it.                           *)
LEMMA RunStepType ==
    ASSUME TypeInv, NEW r \in Runs, Proceed(r) \/ GoWrong(r)
    PROVE  run' \in [Runs -> Slots] /\ SlotsOK'
<1>a. FetchRetries \in 0 .. (FetchRetries + EmbedRetries + 1)
      /\ EmbedRetries \in 0 .. (FetchRetries + EmbedRetries + 1)
      /\ 0 \in 0 .. (FetchRetries + EmbedRetries + 1)
      /\ 1 \in 0 .. (FetchRetries + EmbedRetries + 1)
  BY IngestAssumption
<1>s. run[r] \in Slots /\ SlotOK(run[r])
  BY DEF TypeInv, TypeOK, SlotsOK, Slots
<1>e. ASSUME EndRun(r) PROVE run' \in [Runs -> Slots] /\ SlotsOK'
  BY <1>e, FreeSlot, SlotSet DEF EndRun
<1>1. ASSUME ~ At(r, "free"),
             Raise(r, "fetch", FetchRetries) \/ Raise(r, "embed", EmbedRetries)
               \/ Raise(r, "transcript", 1)
      PROVE  run' \in [Runs -> Slots] /\ SlotsOK'
  BY <1>1, <1>a, RaiseType
<1>2. CASE StartRun(r) \/ Download(r) \/ Sample(r) \/ PutThumbs(r)
             \/ Embed(r) \/ SampleFails(r)
  <2>1. PICK stage \in {"fetch", "dup", "thumbs", "embed", "clear", "fail"} :
          GoTo(r, stage)
    BY <1>2 DEF StartRun, Download, Sample, PutThumbs, Embed, SampleFails
  <2>2. run[r].stage \in {"scheduled", "download", "sample", "thumbs", "embed"}
    BY <1>2 DEF StartRun, Download, Sample, PutThumbs, Embed, SampleFails, At
  <2> QED  BY <2>1, <2>2, GoToType DEF Stages
<1>3. CASE Fetch(r)
  <2>1. At(r, "fetch") /\ (GoTo(r, "download") \/ Raise(r, "fetch", FetchRetries))
    BY <1>3 DEF Fetch
  <2> QED  BY <2>1, <1>1, GoToType DEF At, Stages
<1>4. CASE CheckDuplicate(r)
  <2> DEFINE s == [[run[r] EXCEPT !.stage = "sample"] EXCEPT !.tries = 0]
  <2>1. s \in Slots /\ SlotOK(s)
    <3>1. run[r].stage = "dup" /\ run[r].next = 1 /\ run[r].video \in Videos
      BY <1>s, <1>4 DEF CheckDuplicate, At, SlotOK
    <3>2. s \in Slots
      BY <1>s, <1>a DEF Slots, Stages
    <3>3. SlotOK(s)
      BY <1>s, <3>1 DEF Slots, SlotOK
    <3> QED BY <3>2, <3>3
  <2>2. EndRun(r) \/ run' = [run EXCEPT ![r] = s]
    BY <1>4 DEF CheckDuplicate
  <2> QED  BY <2>1, <2>2, <1>e, SlotSet
<1>5. CASE Clear(r)
  <2> DEFINE s == [run[r] EXCEPT !.stage = "upsert"]
  <2>1. s \in Slots /\ SlotOK(s)
    BY <1>s, <1>5, IngestAssumption
       DEF Clear, At, Slots, SlotOK, Stages, AllBatches
  <2>2. run' = [run EXCEPT ![r] = s]
    BY <1>5 DEF Clear, GoTo
  <2> QED  BY <2>1, <2>2, SlotSet
<1>6. CASE Upsert(r)
  <2> DEFINE b == run[r].next
             on == [run[r] EXCEPT !.next = b + 1]
             s == [on EXCEPT !.stage = IF b = Batches THEN "commit" ELSE @]
  <2>1. run[r].stage = "upsert" /\ b \in AllBatches
    BY <1>s, <1>6 DEF Upsert, At, SlotOK
  <2>2. on \in Slots /\ on.next \in 1 .. (Batches + 1)
        /\ (b # Batches => on.next \in AllBatches)
    BY <1>s, <2>1, IngestAssumption DEF Slots, AllBatches
  <2>3. s \in Slots /\ SlotOK(s)
    BY <1>s, <2>1, <2>2 DEF Slots, SlotOK, Stages
  <2>4. run' = [run EXCEPT ![r] = s]
    BY <1>6 DEF Upsert
  <2> QED  BY <2>3, <2>4, SlotSet
<1>7. CASE Commit(r)
  <2> DEFINE s == [[[run[r] EXCEPT !.stage = "transcript"] EXCEPT !.tries = 0]
                     EXCEPT !.next = 1]
  <2>1. run[r].stage = "commit" /\ 1 \in 1 .. (Batches + 1)
    BY <1>7, IngestAssumption DEF Commit, At
  <2>2. s \in Slots /\ SlotOK(s)
    BY <1>s, <1>a, <2>1 DEF Slots, SlotOK, Stages
  <2>3. run' = [run EXCEPT ![r] = s]
    BY <1>7 DEF Commit
  <2> QED  BY <2>2, <2>3, SlotSet
<1>8. CASE Transcript(r)
  <2>1. At(r, "transcript") /\ (GoTo(r, "captions") \/ EndRun(r))
    BY <1>8 DEF Transcript
  <2> QED  BY <2>1, <1>e, GoToType DEF At, Stages
<1>9. CASE Captions(r) \/ Fail(r) \/ RunDies(r)
  BY <1>9, <1>e DEF Captions, Fail, RunDies
<1>10. CASE FetchFails(r) \/ EmbedFails(r) \/ TranscriptRaises(r)
  BY <1>10, <1>1 DEF FetchFails, EmbedFails, TranscriptRaises, At
<1> QED
  BY <1>2, <1>3, <1>4, <1>5, <1>6, <1>7, <1>8, <1>9, <1>10
     DEF Proceed, GoWrong

LEMMA TypeInit == Init => TypeInv
BY FreeSlot, IngestAssumption
   DEF Init, TypeInv, TypeOK, SlotsOK, Slots, Statuses

(* The parts of the types that are not about the slots.                    *)
LEMMA StatusType ==
    ASSUME TypeOK, NEW v \in Videos, NEW s \in Statuses, SetStatus(v, s)
    PROVE  status' \in [Videos -> Statuses \union {"absent"}]
             /\ fresh' \subseteq Videos
BY DEF TypeOK, SetStatus, Statuses

LEMMA RowType ==
    ASSUME TypeOK, NEW v \in Videos, Touch(v)
    PROVE  status' \in [Videos -> Statuses \union {"absent"}]
             /\ fresh' \subseteq Videos /\ hashed' \subseteq Videos
BY DEF TypeOK, Touch

LEMMA PointsType ==
    ASSUME TypeOK, NEW v \in Videos, DeletePoints(v)
    PROVE  frames' \in [Videos -> SUBSET AllBatches] /\ text' \subseteq Videos
BY DEF TypeOK, DeletePoints

LEMMA TypeStep == TypeInv /\ [Next]_vars => TypeInv'
<1> SUFFICES ASSUME TypeInv, [Next]_vars PROVE TypeInv'
  OBVIOUS
<1> USE DEF rowVars, storeVars, sweepVars
<1>t. TypeOK /\ run \in [Runs -> Slots]
  BY DEF TypeInv, TypeOK, Slots
<1>s. ASSUME run' = run PROVE run' \in [Runs -> Slots] /\ SlotsOK'
  BY <1>s, <1>t DEF TypeInv, SlotsOK
<1>c. ASSUME crashes < MaxCrashes, crashes' = crashes + 1
      PROVE  crashes' \in 0 .. MaxCrashes
  BY <1>c, <1>t, IngestAssumption DEF TypeOK
<1>n. {"pending", "queued", "fetching", "sampling", "embedding", "indexed",
       "failed", "skipped"} \subseteq Statuses
  BY DEF Statuses, Terminal
<1>1. ASSUME NEW v \in Videos, Api(v) PROVE TypeInv'
  <2>1. CASE Submit(v)
    BY <1>t, <1>s, <1>n, <2>1 DEF Submit, TypeInv, TypeOK, Slots
  <2>2. CASE DeleteVectors(v)
    BY <1>t, <1>s, <2>2, PointsType DEF DeleteVectors, TypeInv, TypeOK, Slots
  <2>3. CASE DeleteThumbs(v)
    BY <1>t, <1>s, <2>3 DEF DeleteThumbs, TypeInv, TypeOK, Slots
  <2>4. CASE DeleteRow(v)
    BY <1>t, <1>s, <2>4 DEF DeleteRow, TypeInv, TypeOK, Slots
  <2>5. CASE DeleteStops(v)
    BY <1>t, <1>s, <1>c, <2>5 DEF DeleteStops, TypeInv, TypeOK, Slots
  <2> QED  BY <1>1, <2>1, <2>2, <2>3, <2>4, <2>5 DEF Api
<1>2. ASSUME NEW v \in Videos, Dispatcher(v) PROVE TypeInv'
  <2>1. CASE Claim(v)
    BY <1>t, <1>s, <1>n, <2>1, StatusType DEF Claim, TypeInv, TypeOK, Slots
  <2>2. CASE Enqueue(v)
    BY <1>t, <2>2, ScheduleType DEF Enqueue, TypeInv, TypeOK, Slots
  <2>3. CASE EnqueueFails(v)
    BY <1>t, <1>s, <1>n, <2>3, StatusType
       DEF EnqueueFails, TypeInv, TypeOK, Slots
  <2>4. CASE DispatcherDies(v)
    BY <1>t, <1>s, <1>c, <2>4 DEF DispatcherDies, TypeInv, TypeOK, Slots
  <2> QED  BY <1>2, <2>1, <2>2, <2>3, <2>4 DEF Dispatcher
<1>3. ASSUME NEW v \in Videos, Sweep(v) PROVE TypeInv'
  <2>1. CASE Age(v)
    BY <1>t, <1>s, <2>1 DEF Age, TypeInv, TypeOK, Slots
  <2>2. CASE SweepEnqueue(v)
    BY <1>t, <2>2, ScheduleType DEF SweepEnqueue, TypeInv, TypeOK, Slots
  <2>3. CASE SweepSkip(v)
    BY <1>t, <1>s, <2>3 DEF SweepSkip, TypeInv, TypeOK, Slots
  <2>4. CASE SweepTouch(v)
    BY <1>t, <1>s, <1>n, <2>4, StatusType
       DEF SweepTouch, TypeInv, TypeOK, Slots
  <2> QED  BY <1>3, <2>1, <2>2, <2>3, <2>4 DEF Sweep
<1>4. CASE SweepSelect
  BY <1>t, <1>s, <1>4 DEF SweepSelect, Stale, TypeInv, TypeOK, Slots
<1>5. CASE SweepStops
  BY <1>t, <1>s, <1>c, <1>5 DEF SweepStops, TypeInv, TypeOK, Slots
<1>6. ASSUME NEW r \in Runs, Proceed(r) PROVE TypeInv'
  <2>r. run' \in [Runs -> Slots] /\ SlotsOK'
    BY <1>6, RunStepType
  <2>v. run[r].stage # "free" => run[r].video \in Videos
    BY DEF TypeInv, SlotsOK, SlotOK
  <2> DEFINE v == run[r].video
  <2>1. CASE StartRun(r)
    BY <1>t, <2>r, <2>v, <2>1, RowType DEF StartRun, At, TypeInv, TypeOK, Slots
  <2>2. CASE Fetch(r)
    BY <1>t, <1>n, <2>r, <2>v, <2>2, StatusType
       DEF Fetch, At, TypeInv, TypeOK, Slots
  <2>3. CASE Download(r)
    BY <1>t, <1>n, <2>r, <2>v, <2>3, StatusType
       DEF Download, At, TypeInv, TypeOK, Slots
  <2>4. CASE CheckDuplicate(r)
    BY <1>t, <1>n, <2>r, <2>v, <2>4, StatusType
       DEF CheckDuplicate, At, TypeInv, TypeOK, Slots
  <2>5. CASE Sample(r)
    BY <1>t, <1>n, <2>r, <2>v, <2>5, StatusType
       DEF Sample, At, TypeInv, TypeOK, Slots
  <2>6. CASE PutThumbs(r)
    BY <1>t, <2>r, <2>v, <2>6, RowType
       DEF PutThumbs, At, TypeInv, TypeOK, Slots
  <2>7. CASE Embed(r)
    BY <1>t, <1>n, <2>r, <2>v, <2>7, StatusType
       DEF Embed, At, TypeInv, TypeOK, Slots
  <2>8. CASE Clear(r)
    BY <1>t, <2>r, <2>v, <2>8, PointsType
       DEF Clear, At, TypeInv, TypeOK, Slots
  <2>9. CASE Upsert(r)
    <3>1. v \in Videos /\ run[r].next \in AllBatches /\ Touch(v)
          /\ frames' = [frames EXCEPT ![v] = @ \union {run[r].next}]
      BY <2>v, <2>9 DEF Upsert, At, TypeInv, SlotsOK, SlotOK
    <3>2. frames' \in [Videos -> SUBSET AllBatches]
      BY <1>t, <3>1 DEF TypeOK
    <3> QED  BY <1>t, <2>r, <2>9, <3>1, <3>2, RowType
             DEF Upsert, TypeInv, TypeOK, Slots
  <2>10. CASE Commit(r)
    BY <1>t, <1>n, <2>r, <2>v, <2>10, StatusType
       DEF Commit, At, TypeInv, TypeOK, Slots
  <2>11. CASE Transcript(r)
    BY <1>t, <2>r, <2>11 DEF Transcript, TypeInv, TypeOK, Slots
  <2>12. CASE Captions(r)
    BY <1>t, <2>r, <2>v, <2>12 DEF Captions, At, TypeInv, TypeOK, Slots
  <2>13. CASE Fail(r)
    BY <1>t, <1>n, <2>r, <2>v, <2>13, StatusType
       DEF Fail, At, TypeInv, TypeOK, Slots
  <2> QED
    BY <1>6, <2>1, <2>2, <2>3, <2>4, <2>5, <2>6, <2>7, <2>8, <2>9, <2>10,
       <2>11, <2>12, <2>13 DEF Proceed
<1>7. ASSUME NEW r \in Runs, GoWrong(r) PROVE TypeInv'
  <2>r. run' \in [Runs -> Slots] /\ SlotsOK'
    BY <1>7, RunStepType
  <2>1. CASE FetchFails(r) \/ EmbedFails(r) \/ TranscriptRaises(r)
    BY <1>t, <2>r, <2>1
       DEF FetchFails, EmbedFails, TranscriptRaises, TypeInv, TypeOK, Slots
  <2>2. CASE SampleFails(r)
    BY <1>t, <2>r, <2>2 DEF SampleFails, At, TypeInv, TypeOK, SlotsOK, SlotOK,
                            Slots
  <2>3. CASE RunDies(r)
    BY <1>t, <1>c, <2>r, <2>3 DEF RunDies, TypeInv, TypeOK, Slots
  <2> QED  BY <1>7, <2>1, <2>2, <2>3 DEF GoWrong
<1>8. CASE UNCHANGED vars
  BY <1>t, <1>s, <1>8 DEF vars, TypeInv, TypeOK, Slots
<1> QED
  BY <1>1, <1>2, <1>3, <1>4, <1>5, <1>6, <1>7, <1>8 DEF Next

(* TypeOK: whatever the surroundings do, every variable keeps its type; in *)
(* particular no run goes past its last batch or its last retry.           *)
THEOREM TypeCorrect == Spec => []TypeOK
<1>1. TypeInv => TypeOK
  BY DEF TypeInv
<1> QED  BY <1>1, TypeInit, TypeStep, PTL DEF Spec

LEMMA TypeInvariant == Spec => []TypeInv
BY TypeInit, TypeStep, PTL DEF Spec

-----------------------------------------------------------------------------
(* Whose slot a step changes.                                              *)

(* A run's step changes its own slot, and frees it or stays with its video.*)
LEMMA RunStepOwn ==
    ASSUME TypeInv, NEW r \in Runs, Proceed(r) \/ GoWrong(r)
    PROVE  /\ \A q \in Runs \ {r} : run'[q] = run[q]
           /\ run[r].stage # "free"
           /\ run'[r] = Free \/ run'[r].video = run[r].video
<1> DEFINE Goal == /\ \A q \in Runs \ {r} : run'[q] = run[q]
                   /\ run'[r] = Free \/ run'[r].video = run[r].video
<1>t. run \in [Runs -> Slots] /\ run[r] \in Slots
  BY DEF TypeInv, TypeOK, Slots
<1>1. run[r].stage # "free"
  BY DEF Proceed, GoWrong, StartRun, Fetch, Download, FetchFails,
         CheckDuplicate, Sample, PutThumbs, SampleFails, Embed, Clear, Upsert,
         EmbedFails, Commit, Transcript, TranscriptRaises, Captions, Fail,
         RunDies, At
<1>2. ASSUME NEW stage, GoTo(r, stage) PROVE Goal
  BY <1>t, <1>2 DEF GoTo, Slots
<1>3. ASSUME NEW first, NEW retries, Raise(r, first, retries) PROVE Goal
  BY <1>t, <1>3 DEF Raise, Slots
<1>4. ASSUME EndRun(r) PROVE Goal
  BY <1>t, <1>4 DEF EndRun
<1> SUFFICES Goal
  BY <1>1
<1> HIDE DEF Goal
<1>5. CASE StartRun(r) \/ Download(r) \/ Sample(r) \/ PutThumbs(r)
             \/ Embed(r) \/ Clear(r) \/ SampleFails(r)
  BY <1>2, <1>5 DEF StartRun, Download, Sample, PutThumbs, Embed, Clear,
                    SampleFails
<1>6. CASE Fetch(r) \/ FetchFails(r) \/ EmbedFails(r) \/ TranscriptRaises(r)
  BY <1>2, <1>3, <1>6 DEF Fetch, FetchFails, EmbedFails, TranscriptRaises
<1>7. CASE Transcript(r) \/ Captions(r) \/ Fail(r) \/ RunDies(r)
  BY <1>2, <1>4, <1>7 DEF Transcript, Captions, Fail, RunDies
<1>8. CASE CheckDuplicate(r)
  <2>1. CASE run' = [run EXCEPT ![r].stage = "sample", ![r].tries = 0]
    BY <1>t, <2>1 DEF Goal, Slots
  <2> QED  BY <1>4, <1>8, <2>1 DEF CheckDuplicate
<1>9. CASE Upsert(r) \/ Commit(r)
  BY <1>t, <1>9 DEF Upsert, Commit, Goal, Slots
<1> QED
  BY <1>5, <1>6, <1>7, <1>8, <1>9 DEF Proceed, GoWrong

(* Where a step takes its slot.                                            *)
LEMMA SlotAfter ==
    ASSUME TypeInv, NEW r \in Runs
    PROVE  /\ \A stage : GoTo(r, stage)
             => run'[r].stage = stage /\ run'[r].next = run[r].next
           /\ \A first, retries : Raise(r, first, retries)
             => run'[r].stage \in {first, "fail"}
           /\ EndRun(r) => run'[r] = Free /\ run'[r].stage = "free"
<1>t. run \in [Runs -> Slots] /\ run[r] \in Slots
  BY DEF TypeInv, TypeOK, Slots
<1>1. ASSUME NEW stage, GoTo(r, stage)
      PROVE  run'[r].stage = stage /\ run'[r].next = run[r].next
  BY <1>t, <1>1 DEF GoTo, Slots
<1>2. ASSUME NEW first, NEW retries, Raise(r, first, retries)
      PROVE  run'[r].stage \in {first, "fail"}
  BY <1>t, <1>2 DEF Raise, Slots
<1>3. EndRun(r) => run'[r] = Free /\ run'[r].stage = "free"
  BY <1>t DEF EndRun, Free
<1> QED  BY <1>1, <1>2, <1>3

(* A schedule takes a free slot for its video and leaves the others alone. *)
LEMMA ScheduleOwn ==
    ASSUME TypeInv, NEW v \in Videos, Schedule(v)
    PROVE  \E r \in Runs :
             /\ run[r].stage = "free" /\ run[r].video = Nobody
             /\ run'[r] = [Free EXCEPT !.stage = "scheduled", !.video = v]
             /\ run'[r].stage = "scheduled" /\ run'[r].video = v
             /\ \A q \in Runs \ {r} : run'[q] = run[q]
<1>1. PICK r \in Runs :
        /\ At(r, "free")
        /\ run' = [run EXCEPT ![r] = [Free EXCEPT !.stage = "scheduled",
                                                 !.video = v]]
  BY DEF Schedule
<1>2. run \in [Runs -> Slots] /\ SlotOK(run[r])
  BY DEF TypeInv, TypeOK, SlotsOK, Slots
<1> QED  BY <1>1, <1>2 DEF At, SlotOK, Free

LEMMA ScheduleLive ==
    ASSUME TypeInv, NEW v \in Videos, Schedule(v)
    PROVE  \A w \in Videos : Live(w)' <=> Live(w) \/ w = v
<1>1. PICK r \in Runs :
        /\ run[r].stage = "free" /\ run[r].video = Nobody
        /\ run'[r] = [Free EXCEPT !.stage = "scheduled", !.video = v]
        /\ run'[r].stage = "scheduled" /\ run'[r].video = v
        /\ \A q \in Runs \ {r} : run'[q] = run[q]
  BY ScheduleOwn
<1> QED  BY <1>1, IngestAssumption DEF Live

(* Otherwise a step leaves the slots alone.                                *)
LEMMA OtherSteps ==
    ASSUME NEW v \in Videos, Api(v) \/ Dispatcher(v) \/ Sweep(v),
           ~ Enqueue(v), ~ SweepEnqueue(v)
    PROVE  run' = run
BY DEF Api, Submit, DeleteVectors, DeleteThumbs, DeleteRow, DeleteStops,
       Dispatcher, Claim, EnqueueFails, DispatcherDies, Sweep, Age, SweepSkip,
       SweepTouch

(* What the model holds about video w is what it was.                      *)
Untouched(w) ==
    /\ status'[w] = status[w] /\ frames'[w] = frames[w]
    /\ deleting'[w] = deleting[w]
    /\ (w \in hashed') <=> (w \in hashed)
    /\ (w \in fresh') <=> (w \in fresh)
    /\ (w \in text') <=> (w \in text)
    /\ (w \in thumbs') <=> (w \in thumbs)
    /\ (w \in held') <=> (w \in held)
    /\ (w \in purged') <=> (w \in purged)

(* The API, the dispatcher and the reconciler each change one video a step.*)
LEMMA AboutOneVideo ==
    ASSUME TypeOK, NEW v \in Videos, Api(v) \/ Dispatcher(v) \/ Sweep(v),
           NEW w \in Videos \ {v}
    PROVE  Untouched(w)
<1> USE DEF rowVars, storeVars, sweepVars, Untouched, TypeOK, SetStatus,
            DeletePoints
<1>1. CASE Api(v)
  BY <1>1 DEF Api, Submit, DeleteVectors, DeleteThumbs, DeleteRow, DeleteStops
<1>2. CASE Dispatcher(v)
  BY <1>2 DEF Dispatcher, Claim, Enqueue, EnqueueFails, DispatcherDies
<1>3. CASE Sweep(v)
  BY <1>3 DEF Sweep, Age, SweepEnqueue, SweepSkip, SweepTouch
<1> QED  BY <1>1, <1>2, <1>3

(* A run changes what is held about its own video, and no row comes or     *)
(* goes by it; it takes up no other video.                                 *)
LEMMA AboutItsVideo ==
    ASSUME TypeInv, NEW r \in Runs, Proceed(r) \/ GoWrong(r)
    PROVE  /\ run[r].video \in Videos
           /\ \A w \in Videos \ {run[r].video} : Untouched(w)
           /\ UNCHANGED <<held, sweepVars, deleting>>
           /\ \A w \in Videos : Present(w)' <=> Present(w)
           /\ \A w \in Videos : Live(w)' => Live(w)
<1> USE DEF rowVars, storeVars, sweepVars
<1>t. TypeOK /\ run[r].stage # "free" /\ run[r].video \in Videos
  BY RunStepOwn DEF TypeInv, SlotsOK, SlotOK
<1> DEFINE v == run[r].video
           Own == /\ \A w \in Videos \ {v} : Untouched(w)
                  /\ UNCHANGED <<held, sweepVars, deleting>>
                  /\ \A w \in Videos : Present(w)' <=> Present(w)
<1>1. Own
  <2> USE <1>t DEF Untouched, TypeOK, Present, Statuses, Terminal
  <2>1. CASE StartRun(r) \/ Fetch(r) \/ Download(r)
    BY <2>1 DEF StartRun, Fetch, Download, SetStatus, Touch
  <2>2. CASE CheckDuplicate(r) \/ Sample(r) \/ PutThumbs(r)
    BY <2>2 DEF CheckDuplicate, Sample, PutThumbs, SetStatus, Touch
  <2>3. CASE Embed(r) \/ Clear(r) \/ Upsert(r)
    BY <2>3 DEF Embed, Clear, Upsert, SetStatus, Touch, DeletePoints
  <2>4. CASE Commit(r) \/ Transcript(r) \/ Captions(r) \/ Fail(r)
    BY <2>4 DEF Commit, Transcript, Captions, Fail, SetStatus
  <2>5. CASE GoWrong(r)
    BY <2>5 DEF GoWrong, FetchFails, SampleFails, EmbedFails,
                TranscriptRaises, RunDies
  <2> QED  BY <2>1, <2>2, <2>3, <2>4, <2>5 DEF Proceed
<1>2. ASSUME NEW w \in Videos, Live(w)' PROVE Live(w)
  <2>1. PICK q \in Runs : run'[q].video = w
    BY <1>2 DEF Live
  <2>2. w # Free.video
    BY IngestAssumption DEF Free
  <2> QED  BY <2>1, <2>2, RunStepOwn DEF Live
<1> QED  BY <1>t, <1>1, <1>2

(* TranscriptNeverFails: while Postgres answers, a run that is past its    *)
(* commit only ever goes on or ends; nothing it meets fails the flow.      *)
THEOREM TranscriptNeverFailsHolds ==
    "database" \notin Surroundings => (Spec => TranscriptNeverFails)
<1> SUFFICES ASSUME "database" \notin Surroundings
             PROVE  Spec => TranscriptNeverFails
  OBVIOUS
<1> DEFINE Past(s) == s.stage \in {"transcript", "captions"}
           Kept == \A r \in Runs : Past(run[r]) => run'[r].stage # "fail"
<1>1. TypeInv /\ [Next]_vars => Kept
  <2> SUFFICES ASSUME TypeInv, [Next]_vars, NEW r \in Runs, Past(run[r])
               PROVE  run'[r].stage # "fail"
    OBVIOUS
  <2>t. run \in [Runs -> Slots] /\ run[r] \in Slots
    BY DEF TypeInv, TypeOK, Slots
  <2>1. CASE run' = run
    BY <2>1
  <2>2. ASSUME NEW v \in Videos, Schedule(v) PROVE run'[r].stage # "fail"
    BY <2>2, ScheduleOwn
  <2>3. ASSUME NEW q \in Runs \ {r}, Proceed(q) \/ GoWrong(q)
        PROVE  run'[r].stage # "fail"
    BY <2>3, RunStepOwn
  <2>4. CASE Proceed(r)
    <3>1. Transcript(r) \/ Captions(r)
      BY <2>4 DEF Proceed, StartRun, Fetch, Download, CheckDuplicate, Sample,
                  PutThumbs, Embed, Clear, Upsert, Commit, Fail, At
    <3>2. GoTo(r, "captions") \/ EndRun(r)
      BY <3>1 DEF Transcript, Captions
    <3> QED  BY <2>t, <3>2 DEF GoTo, EndRun, Free, Slots
  <2>5. CASE GoWrong(r)
    <3>1. EndRun(r)
      BY <2>5 DEF GoWrong, FetchFails, SampleFails, EmbedFails,
                  TranscriptRaises, RunDies, At
    <3> QED  BY <2>t, <3>1 DEF EndRun, Free
  <2>6. ASSUME NEW v \in Videos, Api(v) \/ Dispatcher(v) \/ Sweep(v)
        PROVE  run' = run \/ \E w \in Videos : Schedule(w)
    BY <2>6, OtherSteps DEF Enqueue, SweepEnqueue
  <2>7. SweepSelect \/ SweepStops \/ UNCHANGED vars => run' = run
    BY DEF SweepSelect, SweepStops, vars
  <2> QED  BY <2>1, <2>2, <2>3, <2>4, <2>5, <2>6, <2>7 DEF Next
<1> QED  BY <1>1, TypeInvariant, PTL DEF Spec, TranscriptNeverFails

-----------------------------------------------------------------------------
(* While users leave alone what is in flight.                              *)

Idle(v) == ~ Live(v) /\ v \notin held \union sweep \union touching

(* Nobody works on a video whose row is gone, or whose delete has begun;   *)
(* what a user deletes has come to an end.                                 *)
LeftAlone(v) ==
    /\ ~ Present(v) => Idle(v)
    /\ deleting[v] # "no" => Idle(v) /\ status[v] \in Terminal

LEMMA LeftAloneInit == Init => \A v \in Videos : LeftAlone(v)
BY IngestAssumption DEF Init, LeftAlone, Idle, Live, Present, Free

LEMMA LeftAloneStep ==
    ASSUME TypeInv, [Next]_vars, "busy" \notin Surroundings,
           \A v \in Videos : LeftAlone(v)
    PROVE  \A v \in Videos : LeftAlone(v)'
<1> USE DEF rowVars, storeVars, sweepVars
<1>t. TypeOK
  BY DEF TypeInv
<1>d. "absent" \notin Terminal /\ "pending" \notin Terminal
      /\ "queued" \notin Terminal
  BY DEF Terminal
<1>i. ASSUME NEW w \in Videos, Untouched(w), Idle(w) => Idle(w)'
      PROVE  LeftAlone(w)'
  BY <1>i DEF LeftAlone, Untouched, Present
<1>l. ASSUME run' = run, NEW w \in Videos PROVE Live(w)' = Live(w)
  BY <1>l DEF Live
<1>1. ASSUME NEW v \in Videos, Api(v) PROVE \A w \in Videos : LeftAlone(w)'
  <2>1. run' = run /\ UNCHANGED <<held, sweep, touching>>
    BY <1>1 DEF Api, Submit, DeleteVectors, DeleteThumbs, DeleteRow,
                DeleteStops
  <2>2. \A w \in Videos : Idle(w)' = Idle(w)
    BY <2>1, <1>l DEF Idle
  <2>3. ASSUME NEW w \in Videos \ {v} PROVE LeftAlone(w)'
    BY <1>1, <1>t, <1>i, <2>2, AboutOneVideo
  <2>4. Idle(v) /\ (deleting'[v] # "no" => status'[v] \in Terminal)
    BY <1>1, <1>t, <1>d DEF Api, Submit, DeleteVectors, DeleteThumbs,
       DeleteRow, DeleteStops, Calm, Idle, LeftAlone, Present, TypeOK
  <2> QED  BY <2>2, <2>3, <2>4 DEF LeftAlone
<1>2. ASSUME NEW v \in Videos, Dispatcher(v) PROVE \A w \in Videos : LeftAlone(w)'
  <2>1. ASSUME NEW w \in Videos \ {v} PROVE Idle(w) => Idle(w)'
    <3>1. Live(w)' => Live(w)
      BY <1>2, <1>l, OtherSteps, ScheduleLive DEF Dispatcher, Enqueue, Claim,
         EnqueueFails, DispatcherDies
    <3> QED  BY <1>2, <3>1 DEF Dispatcher, Claim, Enqueue, EnqueueFails,
                               DispatcherDies, Idle
  <2>2. ASSUME NEW w \in Videos \ {v} PROVE LeftAlone(w)'
    BY <1>2, <1>t, <1>i, <2>1, AboutOneVideo
  <2>3. Present(v) /\ deleting[v] = "no"
    BY <1>2, <1>d DEF Dispatcher, Claim, Enqueue, EnqueueFails, DispatcherDies,
       LeftAlone, Idle, Present
  <2>4. Present(v)' /\ deleting'[v] = "no"
    BY <1>2, <1>t, <2>3 DEF Dispatcher, Claim, Enqueue, EnqueueFails,
       DispatcherDies, SetStatus, Present, TypeOK
  <2> QED  BY <2>2, <2>4 DEF LeftAlone
<1>3. ASSUME NEW v \in Videos, Sweep(v) PROVE \A w \in Videos : LeftAlone(w)'
  <2>1. ASSUME NEW w \in Videos \ {v} PROVE Idle(w) => Idle(w)'
    <3>1. Live(w)' => Live(w)
      BY <1>3, <1>l, OtherSteps, ScheduleLive DEF Sweep, Age, SweepEnqueue,
         SweepSkip, SweepTouch
    <3> QED  BY <1>3, <3>1 DEF Sweep, Age, SweepEnqueue, SweepSkip, SweepTouch,
                               Idle
  <2>2. ASSUME NEW w \in Videos \ {v} PROVE LeftAlone(w)'
    BY <1>3, <1>t, <1>i, <2>1, AboutOneVideo
  <2>3. CASE Age(v)
    BY <2>2, <2>3, <1>l DEF Age, LeftAlone, Idle, Present
  <2>4. CASE SweepEnqueue(v) \/ SweepSkip(v) \/ SweepTouch(v)
    <3>1. Present(v) /\ deleting[v] = "no"
      BY <2>4, <1>d DEF SweepEnqueue, SweepSkip, SweepTouch, LeftAlone, Idle
    <3>2. Present(v)' /\ deleting'[v] = "no"
      BY <2>4, <1>t, <3>1 DEF SweepEnqueue, SweepSkip, SweepTouch, SetStatus,
         Present, TypeOK
    <3> QED  BY <2>2, <3>2 DEF LeftAlone
  <2> QED  BY <1>3, <2>3, <2>4 DEF Sweep
<1>4. CASE SweepSelect \/ SweepStops
  BY <1>4, <1>l DEF SweepSelect, SweepStops, Stale, LeftAlone, Idle, Present
<1>5. ASSUME NEW r \in Runs, Proceed(r) \/ GoWrong(r)
      PROVE  \A w \in Videos : LeftAlone(w)'
  <2>1. PICK v \in Videos : v = run[r].video /\ Live(v)
    BY <1>5, AboutItsVideo DEF Live
  <2>2. ASSUME NEW w \in Videos \ {v} PROVE LeftAlone(w)'
    BY <1>5, <1>i, <2>1, AboutItsVideo DEF Idle
  <2>3. Present(v)' /\ deleting'[v] = "no"
    BY <1>5, <2>1, AboutItsVideo DEF LeftAlone, Idle
  <2> QED  BY <2>2, <2>3 DEF LeftAlone
<1>6. CASE UNCHANGED vars
  BY <1>6, <1>l DEF vars, LeftAlone, Idle, Present
<1> QED
  BY <1>1, <1>2, <1>3, <1>4, <1>5, <1>6 DEF Next

-----------------------------------------------------------------------------
(* One of each content.                                                    *)

(* OneIndexedPerContent is not inductive: a run that has passed the check  *)
(* must still be right about it when it commits, and what is indexed must  *)
(* be found by its hash.                                                   *)
PastDownload == {"dup", "sample", "thumbs", "embed", "clear", "upsert",
                 "commit"}
PastCheck    == PastDownload \ {"dup"}

FirstOfItsContent(v) ==
    \A w \in Videos \ {v} : SameContent(v, w) => status[w] # "indexed"

RunChecked(r) ==
    /\ run[r].stage \in PastDownload => run[r].video \in hashed
    /\ run[r].stage \in PastCheck => FirstOfItsContent(run[r].video)

ContentInv ==
    /\ \A v \in Videos : LeftAlone(v)
    /\ \A v \in Videos : status[v] = "indexed" => v \in hashed
    /\ \A r \in Runs : RunChecked(r)
    /\ OneIndexedPerContent

(* At any moment one run is scheduled or executing.                        *)
OneRunAtATime == \A r, q \in Runs : r = q

LEMMA ContentInit == Init => ContentInv
BY LeftAloneInit DEF Init, ContentInv, RunChecked, PastDownload, PastCheck,
                     Free, OneIndexedPerContent

(* Steps after which no row is newly indexed, none that is indexed or has  *)
(* a run loses its hash, and no run passes a check.                        *)
LEMMA ContentKept ==
    ASSUME ContentInv, \A v \in Videos : LeftAlone(v)',
           \A v \in Videos : status'[v] = "indexed" => status[v] = "indexed",
           \A v \in Videos : v \in hashed /\ (Live(v) \/ status'[v] = "indexed")
                               => v \in hashed',
           \A r \in Runs : run'[r].stage \in PastDownload
                             => /\ run'[r].video = run[r].video
                                /\ run[r].video \in Videos
                                /\ run[r].stage \in PastDownload,
           \A r \in Runs : run'[r].stage \in PastCheck
                             => run[r].stage \in PastCheck
    PROVE  ContentInv'
<1>1. OneIndexedPerContent'
  BY DEF ContentInv, OneIndexedPerContent, SameContent
<1>2. \A v \in Videos : status'[v] = "indexed" => v \in hashed'
  BY DEF ContentInv
<1>3. ASSUME NEW r \in Runs PROVE RunChecked(r)'
  <2>1. run'[r].stage \in PastDownload => run'[r].video \in hashed'
    BY DEF ContentInv, RunChecked, Live
  <2>2. ASSUME run'[r].stage \in PastCheck
        PROVE  FirstOfItsContent(run[r].video) /\ run'[r].video = run[r].video
    BY <2>2 DEF ContentInv, RunChecked, PastCheck
  <2> QED  BY <2>1, <2>2 DEF RunChecked, FirstOfItsContent, SameContent
<1> QED  BY <1>1, <1>2, <1>3 DEF ContentInv

LEMMA ContentStep ==
    ASSUME OneRunAtATime, "busy" \notin Surroundings,
           TypeInv, ContentInv, [Next]_vars
    PROVE  ContentInv'
<1> USE DEF rowVars, storeVars, sweepVars
<1>t. TypeOK /\ run \in [Runs -> Slots]
  BY DEF TypeInv, TypeOK, Slots
<1>a. \A v \in Videos : LeftAlone(v)'
  BY LeftAloneStep DEF ContentInv
<1>v. \A r \in Runs : run[r].stage \in PastDownload => run[r].video \in Videos
  BY DEF TypeInv, SlotsOK, SlotOK, PastDownload
<1>1. ASSUME run' = run,
             \A v \in Videos : status'[v] = "indexed" => status[v] = "indexed",
             \A v \in Videos : v \in hashed /\ (Live(v) \/ status'[v] = "indexed")
                                 => v \in hashed'
      PROVE  ContentInv'
  BY <1>1, <1>a, <1>v, ContentKept
<1>2. ASSUME NEW v \in Videos, Schedule(v), UNCHANGED <<status, hashed>>
      PROVE  ContentInv'
  <2>1. PICK r \in Runs :
        /\ run[r].stage = "free" /\ run[r].video = Nobody
        /\ run'[r] = [Free EXCEPT !.stage = "scheduled", !.video = v]
        /\ run'[r].stage = "scheduled" /\ run'[r].video = v
        /\ \A q \in Runs \ {r} : run'[q] = run[q]
    BY <1>2, ScheduleOwn
  <2> QED  BY <1>2, <1>a, <1>v, <2>1, ContentKept DEF PastDownload, PastCheck
<1>3. ASSUME NEW v \in Videos, Api(v) PROVE ContentInv'
  <2>1. run' = run
    BY <1>3 DEF Api, Submit, DeleteVectors, DeleteThumbs, DeleteRow,
                DeleteStops
  <2>2. CASE DeleteRow(v)
    BY <1>1, <1>t, <2>1, <2>2
       DEF DeleteRow, TypeOK, ContentInv, LeftAlone, Idle
  <2>3. CASE Submit(v) \/ DeleteVectors(v) \/ DeleteThumbs(v) \/ DeleteStops(v)
    BY <1>1, <1>t, <2>1, <2>3 DEF Submit, DeleteVectors, DeleteThumbs,
                                  DeleteStops, TypeOK
  <2> QED  BY <1>3, <2>2, <2>3 DEF Api
<1>4. ASSUME NEW v \in Videos, Dispatcher(v) PROVE ContentInv'
  <2>1. CASE Enqueue(v)
    BY <1>2, <2>1 DEF Enqueue
  <2>2. CASE Claim(v) \/ EnqueueFails(v) \/ DispatcherDies(v)
    BY <1>1, <1>t, <2>2 DEF Claim, EnqueueFails, DispatcherDies, SetStatus,
                            TypeOK
  <2> QED  BY <1>4, <2>1, <2>2 DEF Dispatcher
<1>5. ASSUME NEW v \in Videos, Sweep(v) PROVE ContentInv'
  <2>1. CASE SweepEnqueue(v)
    BY <1>2, <2>1 DEF SweepEnqueue
  <2>2. CASE Age(v) \/ SweepSkip(v) \/ SweepTouch(v)
    BY <1>1, <1>t, <2>2 DEF Age, SweepSkip, SweepTouch, SetStatus, TypeOK
  <2> QED  BY <1>5, <2>1, <2>2 DEF Sweep
<1>6. CASE SweepSelect \/ SweepStops \/ UNCHANGED vars
  BY <1>1, <1>6 DEF SweepSelect, SweepStops, vars
<1>7. ASSUME NEW r \in Runs, Proceed(r) \/ GoWrong(r) PROVE ContentInv'
  <2>0. PICK v \in Videos : v = run[r].video /\ Live(v)
    BY <1>7, AboutItsVideo DEF Live
  <2>1. Present(v)
    BY <2>0 DEF ContentInv, LeftAlone, Idle
  <2>2. \A q \in Runs : q = r
    BY DEF OneRunAtATime
  <2>3. run[r] \in Slots
    BY <1>t
  <2>k. ASSUME \A w \in Videos : status'[w] = "indexed" => status[w] = "indexed",
               hashed \subseteq hashed',
               run'[r].stage \in PastDownload
                 => run'[r].video = v /\ run[r].stage \in PastDownload,
               run'[r].stage \in PastCheck => run[r].stage \in PastCheck
        PROVE  ContentInv'
    BY <1>a, <1>v, <2>0, <2>2, <2>k, ContentKept
  <2>4. CASE Download(r)
    <3>1. /\ hashed' = hashed \union {v}
          /\ run'[r] = [run[r] EXCEPT !.stage = "dup"]
          /\ \A w \in Videos : status'[w] = "indexed" => status[w] = "indexed"
      BY <1>t, <2>0, <2>1, <2>4 DEF Download, GoTo, SetStatus, TypeOK
    <3>2. run'[r].stage = "dup" /\ run'[r].video = v
      BY <2>0, <2>3, <3>1 DEF Slots
    <3>3. \A q \in Runs : RunChecked(q)'
      BY <2>2, <3>1, <3>2 DEF RunChecked, PastCheck
    <3> QED  BY <1>a, <3>1, <3>3 DEF ContentInv, OneIndexedPerContent,
                                     SameContent
  <2>5. CASE CheckDuplicate(r)
    <3>0. run[r].stage = "dup" /\ v \in hashed /\ hashed' = hashed
      BY <2>0, <2>5
         DEF CheckDuplicate, At, ContentInv, RunChecked, PastDownload
    <3>1. CASE HasDuplicate(v)
      <4>1. run'[r] = Free
            /\ \A w \in Videos : status'[w] = "indexed" => status[w] = "indexed"
        BY <1>t, <2>0, <2>5, <3>1 DEF CheckDuplicate, EndRun, SetStatus, TypeOK
      <4> QED  BY <2>k, <3>0, <4>1 DEF PastDownload, PastCheck, Free
    <3>2. CASE ~ HasDuplicate(v)
      <4>1. run'[r].stage = "sample" /\ run'[r].video = v /\ status' = status
        BY <1>t, <2>0, <2>3, <2>5, <3>2 DEF CheckDuplicate, Slots
      <4>2. FirstOfItsContent(v)
        BY <3>2 DEF HasDuplicate, FirstOfItsContent, ContentInv
      <4>3. \A q \in Runs : RunChecked(q)'
        BY <2>2, <3>0, <4>1, <4>2
           DEF RunChecked, FirstOfItsContent, SameContent
      <4> QED  BY <1>a, <3>0, <4>1, <4>3 DEF ContentInv, OneIndexedPerContent,
                                             SameContent
    <3> QED  BY <3>1, <3>2
  <2>6. CASE Commit(r)
    <3>1. FirstOfItsContent(v) /\ v \in hashed
      BY <2>0, <2>6 DEF Commit, At, ContentInv, RunChecked, PastCheck,
                        PastDownload
    <3>2. hashed' = hashed /\ run'[r].stage = "transcript"
          /\ status' = [status EXCEPT ![v] = "indexed"]
      BY <1>t, <2>0, <2>1, <2>3, <2>6 DEF Commit, SetStatus, Slots
    <3>3. \A q \in Runs : RunChecked(q)'
      BY <2>2, <3>2 DEF RunChecked, PastDownload, PastCheck
    <3>4. OneIndexedPerContent'
      BY <1>t, <3>1, <3>2 DEF ContentInv, OneIndexedPerContent, SameContent,
                              FirstOfItsContent, TypeOK
    <3>5. \A w \in Videos : status'[w] = "indexed" => w \in hashed'
      BY <1>t, <3>1, <3>2 DEF ContentInv, TypeOK
    <3> QED  BY <1>a, <3>3, <3>4, <3>5 DEF ContentInv
  <2>7. CASE StartRun(r) \/ Fetch(r) \/ FetchFails(r) \/ TranscriptRaises(r)
               \/ Transcript(r) \/ Captions(r) \/ Fail(r) \/ RunDies(r)
               \/ SampleFails(r)
    <3>1. run'[r].stage \in {"fetch", "download", "transcript", "captions",
                             "fail", "free"}
      BY <2>7, SlotAfter DEF StartRun, Fetch, FetchFails, TranscriptRaises,
         Transcript, Captions, Fail, RunDies, SampleFails
    <3>2. /\ \A w \in Videos : status'[w] = "indexed" => status[w] = "indexed"
          /\ hashed' = hashed
      BY <1>t, <2>7 DEF StartRun, Fetch, FetchFails, TranscriptRaises,
         Transcript, Captions, Fail, RunDies, SampleFails, SetStatus, Touch,
         TypeOK
    <3> QED  BY <2>k, <3>1, <3>2 DEF PastDownload, PastCheck
  <2>8. CASE Sample(r) \/ PutThumbs(r) \/ Embed(r) \/ Clear(r) \/ Upsert(r)
               \/ EmbedFails(r)
    <3>1. run[r].stage \in PastCheck /\ run[r].stage \in PastDownload
      BY <2>8 DEF Sample, PutThumbs, Embed, Clear, Upsert, EmbedFails, At,
                  PastCheck, PastDownload
    <3>2. run'[r] = Free \/ run'[r].video = v
      BY <2>0, <1>7, RunStepOwn
    <3>3. Free.stage \notin PastDownload
      BY DEF Free, PastDownload
    <3>4. /\ \A w \in Videos : status'[w] = "indexed" => status[w] = "indexed"
          /\ hashed' = hashed
      BY <1>t, <2>8 DEF Sample, PutThumbs, Embed, Clear, Upsert, EmbedFails,
         SetStatus, Touch, TypeOK
    <3> QED  BY <2>k, <3>1, <3>2, <3>3, <3>4
  <2> QED  BY <1>7, <2>4, <2>5, <2>6, <2>7, <2>8 DEF Proceed, GoWrong
<1> QED
  BY <1>3, <1>4, <1>5, <1>6, <1>7 DEF Next

(* OneIndexedPerContent: with one run at a time and users who leave what   *)
(* is in flight alone, no user has one content indexed twice, whatever     *)
(* goes stale, is lost, dies or fails, and for any number of uploads.      *)
THEOREM OneIndexedPerContentHolds ==
    OneRunAtATime /\ "busy" \notin Surroundings
      => (Spec => []OneIndexedPerContent)
<1> SUFFICES ASSUME OneRunAtATime, "busy" \notin Surroundings
             PROVE  Spec => []OneIndexedPerContent
  OBVIOUS
<1>1. TypeInv /\ ContentInv /\ [Next]_vars => ContentInv'
  BY ContentStep
<1>2. ContentInv => OneIndexedPerContent
  BY DEF ContentInv
<1> QED  BY <1>1, <1>2, ContentInit, TypeInvariant, PTL DEF Spec

-----------------------------------------------------------------------------
(* Who has a video, while no row goes stale under whoever has it.          *)

(* A video is with the dispatcher, with the reconciler or with one run;    *)
(* only between the reconciler's enqueue and its touch may a row that has  *)
(* a run look as if it had none.                                           *)
HandedOn(v) ==
    /\ v \in held => /\ ~ Live(v) /\ v \notin sweep \union touching
                     /\ v \in fresh /\ status[v] = "queued"
    /\ v \in sweep => /\ ~ Live(v) /\ v \notin touching
                      /\ v \notin fresh /\ status[v] \notin Terminal
    /\ Live(v) /\ (status[v] = "pending" \/ v \notin fresh) => v \in touching

RunsApart ==
    \A r, q \in Runs :
        r # q /\ run[r].video = run[q].video => run[r].video = Nobody

OneTouched == \A v, w \in touching : v = w

HandsInv ==
    /\ \A v \in Videos : LeftAlone(v) /\ HandedOn(v)
    /\ RunsApart /\ OneTouched

LEMMA HandsInit == Init => HandsInv
BY LeftAloneInit, IngestAssumption
   DEF Init, HandsInv, HandedOn, RunsApart, OneTouched, Live, Free

LEMMA HandsStep ==
    ASSUME {"busy", "slow"} \cap Surroundings = {},
           TypeInv, HandsInv, [Next]_vars
    PROVE  HandsInv'
<1> USE DEF rowVars, storeVars, sweepVars
<1>t. TypeOK
  BY DEF TypeInv
<1>a. (\A v \in Videos : LeftAlone(v)) /\ (\A v \in Videos : LeftAlone(v)')
  BY LeftAloneStep DEF HandsInv
<1>h. \A v \in Videos : HandedOn(v)
  BY DEF HandsInv
<1>s. "slow" \notin Surroundings /\ "busy" \notin Surroundings
  OBVIOUS
<1>d. "pending" \notin Terminal /\ "queued" \notin Terminal
  BY DEF Terminal
<1>l. ASSUME run' = run
      PROVE  RunsApart' /\ \A w \in Videos : Live(w)' = Live(w)
  BY <1>l DEF Live, HandsInv, RunsApart
<1>k. ASSUME RunsApart', OneTouched', \A v \in Videos : HandedOn(v)'
      PROVE  HandsInv'
  BY <1>k, <1>a DEF HandsInv
<1>1. ASSUME NEW v \in Videos, Api(v) PROVE HandsInv'
  <2>1. run' = run /\ UNCHANGED <<held, sweep, touching>>
    BY <1>1 DEF Api, Submit, DeleteVectors, DeleteThumbs, DeleteRow,
                DeleteStops
  <2>2. \A w \in Videos : Idle(w)' = Idle(w)
    BY <2>1, <1>l DEF Idle
  <2>3. ASSUME NEW w \in Videos \ {v} PROVE HandedOn(w)'
    BY <1>1, <1>t, <1>h, <1>l, <2>1, AboutOneVideo DEF HandedOn, Untouched
  <2>4. Idle(v)
    BY <1>1, <1>a, <1>s DEF Api, Submit, DeleteVectors, DeleteThumbs,
       DeleteRow, DeleteStops, Calm, Idle, LeftAlone
  <2>5. HandedOn(v)'
    BY <2>2, <2>4 DEF HandedOn, Idle
  <2> QED  BY <1>k, <1>l, <2>1, <2>3, <2>5 DEF OneTouched, HandsInv
<1>2. ASSUME NEW v \in Videos, Claim(v) \/ EnqueueFails(v) \/ DispatcherDies(v)
      PROVE  HandsInv'
  <2>1. run' = run /\ UNCHANGED <<sweep, touching>>
    BY <1>2 DEF Claim, EnqueueFails, DispatcherDies
  <2>3. ASSUME NEW w \in Videos \ {v} PROVE HandedOn(w)'
    BY <1>2, <1>t, <1>h, <1>l, <2>1, AboutOneVideo
       DEF HandedOn, Untouched, Dispatcher
  <2>4. HandedOn(v)'
    <3>1. CASE Claim(v)
      BY <3>1, <1>t, <1>h, <1>l, <1>s, <2>1
         DEF Claim, SetStatus, HandedOn, Present, TypeOK
    <3>2. CASE EnqueueFails(v) \/ DispatcherDies(v)
      BY <3>2, <1>t, <1>h, <1>l, <2>1
         DEF EnqueueFails, DispatcherDies, SetStatus, HandedOn, Present, TypeOK
    <3> QED  BY <1>2, <3>1, <3>2
  <2> QED  BY <1>k, <1>l, <2>1, <2>3, <2>4 DEF OneTouched, HandsInv
<1>3. ASSUME NEW v \in Videos, Schedule(v), ~ Live(v) PROVE RunsApart'
  <2>1. PICK r \in Runs :
        /\ run[r].stage = "free" /\ run[r].video = Nobody
        /\ run'[r] = [Free EXCEPT !.stage = "scheduled", !.video = v]
        /\ run'[r].stage = "scheduled" /\ run'[r].video = v
        /\ \A q \in Runs \ {r} : run'[q] = run[q]
    BY <1>3, ScheduleOwn
  <2>2. run'[r].video = v /\ \A q \in Runs \ {r} : run'[q].video = run[q].video
    BY <2>1
  <2>3. \A q \in Runs : run[q].video # v
    BY <1>3 DEF Live
  <2>4. RunsApart
    BY DEF HandsInv
  <2> QED  BY ONLY <2>2, <2>3, <2>4 DEF RunsApart
<1>4. ASSUME NEW v \in Videos, Enqueue(v) PROVE HandsInv'
  <2>1. ~ Live(v) /\ RunsApart' /\ \A w \in Videos : Live(w)' <=> Live(w) \/ w = v
    BY <1>3, <1>4, <1>h, ScheduleLive DEF Enqueue, HandedOn
  <2>2. \A w \in Videos : HandedOn(w)'
    BY <1>4, <1>h, <2>1 DEF Enqueue, HandedOn
  <2> QED  BY <1>k, <1>4, <2>1, <2>2 DEF Enqueue, OneTouched, HandsInv
<1>5. ASSUME NEW v \in Videos, SweepEnqueue(v) PROVE HandsInv'
  <2>1. ~ Live(v) /\ RunsApart' /\ \A w \in Videos : Live(w)' <=> Live(w) \/ w = v
    BY <1>3, <1>5, <1>h, ScheduleLive DEF SweepEnqueue, HandedOn
  <2>2. \A w \in Videos : HandedOn(w)'
    BY <1>5, <1>h, <2>1 DEF SweepEnqueue, HandedOn
  <2> QED  BY <1>k, <1>5, <2>1, <2>2 DEF SweepEnqueue, OneTouched
<1>6. ASSUME NEW v \in Videos, Age(v) \/ SweepSkip(v) PROVE HandsInv'
  <2>1. run' = run /\ UNCHANGED <<status, held, touching>>
    BY <1>6 DEF Age, SweepSkip
  <2>2. \A w \in Videos : HandedOn(w)'
    BY <1>6, <1>h, <1>l, <1>s, <2>1 DEF Age, SweepSkip, Calm, HandedOn
  <2> QED  BY <1>k, <1>l, <2>1, <2>2 DEF OneTouched, HandsInv
<1>7. ASSUME NEW v \in Videos, SweepTouch(v) PROVE HandsInv'
  <2>1. run' = run /\ v \in touching /\ touching' = {} /\ Present(v)
        /\ UNCHANGED <<held, sweep>>
    BY <1>7, <1>a DEF SweepTouch, LeftAlone, Idle
  <2>2. \A w \in Videos \ {v} : w \notin touching
    BY <2>1 DEF HandsInv, OneTouched
  <2>3. ASSUME NEW w \in Videos \ {v} PROVE HandedOn(w)'
    BY <1>7, <1>t, <1>h, <1>l, <2>1, <2>2, AboutOneVideo
       DEF HandedOn, Untouched, Sweep
  <2>4. HandedOn(v)'
    BY <1>7, <1>t, <1>h, <1>l, <2>1 DEF SweepTouch, SetStatus, HandedOn, TypeOK
  <2> QED  BY <1>k, <1>l, <2>1, <2>3, <2>4 DEF OneTouched
<1>8. CASE SweepSelect \/ SweepStops
  <2>1. /\ run' = run /\ UNCHANGED <<status, fresh, held>>
        /\ touching = {} /\ touching' = {} /\ sweep' \subseteq Stale
    BY <1>8, <1>s DEF SweepSelect, SweepStops
  <2>2. \A w \in Videos : HandedOn(w)'
    BY <1>h, <1>l, <2>1 DEF Stale, HandedOn
  <2> QED  BY <1>k, <1>l, <2>1, <2>2 DEF OneTouched
<1>9. ASSUME NEW r \in Runs, Proceed(r) \/ GoWrong(r) PROVE HandsInv'
  <2>0. PICK v \in Videos : v = run[r].video /\ Live(v)
    BY <1>9, AboutItsVideo DEF Live
  <2>1. UNCHANGED <<held, sweep, touching>>
        /\ \A w \in Videos : Live(w)' => Live(w)
    BY <1>9, AboutItsVideo
  <2>2. RunsApart'
    BY <1>9, RunStepOwn DEF HandsInv, RunsApart, Free
  <2>3. ASSUME NEW w \in Videos \ {v} PROVE HandedOn(w)'
    BY <1>9, <1>h, <2>0, <2>1, AboutItsVideo DEF HandedOn, Untouched
  <2>4. /\ status'[v] = "pending" => status[v] = "pending"
        /\ v \in fresh => v \in fresh'
    <3> USE <1>t, <2>0 DEF SetStatus, Touch, TypeOK
    <3>1. CASE Proceed(r)
      BY <3>1 DEF Proceed, StartRun, Fetch, Download, CheckDuplicate, Sample,
         PutThumbs, Embed, Clear, Upsert, Commit, Transcript, Captions, Fail
    <3>2. CASE GoWrong(r)
      BY <3>2 DEF GoWrong, FetchFails, SampleFails, EmbedFails,
         TranscriptRaises, RunDies
    <3> QED  BY <1>9, <3>1, <3>2
  <2>5. HandedOn(v)'
    BY <1>h, <2>0, <2>1, <2>4 DEF HandedOn
  <2> QED  BY <1>k, <2>1, <2>2, <2>3, <2>5 DEF OneTouched, HandsInv
<1>10. CASE UNCHANGED vars
  BY <1>10, <1>a, <1>l, <1>h DEF vars, HandsInv, HandedOn, OneTouched
<1> QED
  BY <1>1, <1>2, <1>4, <1>5, <1>6, <1>7, <1>8, <1>9, <1>10
     DEF Next, Dispatcher, Sweep

-----------------------------------------------------------------------------
(* What is stored.                                                         *)

(* The stages before a run has published what it has made.                 *)
Before == {"scheduled", "fetch", "download", "dup", "sample", "thumbs",
           "embed", "clear", "upsert", "commit"}

(* A run that has yet to publish works on a row that says so, and the      *)
(* batches it has behind it are in the index.                              *)
RunTrue(r) ==
    LET v == run[r].video IN
    /\ run[r].stage \in Before => status[v] \notin Terminal
    /\ At(r, "upsert") => 1 .. (run[r].next - 1) \subseteq frames[v]
    /\ At(r, "commit") => frames[v] = AllBatches

(* What a delete has behind it is gone, if Qdrant deletes what it is asked *)
(* to, and a row goes last.                                                *)
Gone(v) ==
    /\ deleting[v] # "no" => v \in purged
    /\ "qdrant" \notin Surroundings =>
         /\ deleting[v] # "no" => frames[v] = {} /\ v \notin text
         /\ deleting[v] = "row" => v \notin thumbs
         /\ ~ Present(v) => frames[v] = {} /\ v \notin text \union thumbs

Searchable(v) == status[v] = "indexed" /\ v \notin purged => Complete(v)

StoreInv ==
    /\ \A r \in Runs : RunTrue(r)
    /\ \A v \in Videos : Gone(v) /\ Searchable(v)

LEMMA StoreInit == Init => StoreInv
BY DEF Init, StoreInv, RunTrue, Gone, Searchable, Present, At, Before, Free

(* Of a video that a step does not touch, all this stays true.             *)
LEMMA StoreKept ==
    ASSUME StoreInv, NEW w \in Videos, Untouched(w)
    PROVE  /\ Gone(w)' /\ Searchable(w)'
           /\ \A r \in Runs : run[r].video = w /\ run'[r] = run[r] => RunTrue(r)'
BY DEF StoreInv, Untouched, Gone, Searchable, RunTrue, Present, Complete, At,
       AllBatches

(* A free slot says nothing.                                               *)
LEMMA FreeTrue ==
    ASSUME NEW r \in Runs, run'[r].stage = "free"
    PROVE  RunTrue(r)'
BY DEF RunTrue, At, Before

LEMMA DeletedPoints ==
    ASSUME TypeOK, "qdrant" \notin Surroundings,
           NEW v \in Videos, DeletePoints(v)
    PROVE  frames' = [frames EXCEPT ![v] = {}] /\ text' = text \ {v}
BY DEF DeletePoints, TypeOK

(* A step of the API, the dispatcher or the reconciler about v.            *)
LEMMA StoreStepApi ==
    ASSUME {"busy", "slow"} \cap Surroundings = {},
           TypeInv, HandsInv, StoreInv,
           NEW v \in Videos, Api(v) \/ Dispatcher(v) \/ Sweep(v)
    PROVE  StoreInv'
<1> USE DEF rowVars, storeVars, sweepVars
<1>t. TypeOK /\ run \in [Runs -> Slots]
  BY DEF TypeInv, TypeOK, Slots
<1>s. "slow" \notin Surroundings /\ "busy" \notin Surroundings
  OBVIOUS
<1>d. /\ "pending" \notin Terminal /\ "queued" \notin Terminal
      /\ "absent" \notin Terminal
  BY DEF Terminal
<1>v. \A r \in Runs : run[r].stage = "free" \/ run[r].video \in Videos
  BY DEF TypeInv, SlotsOK, SlotOK
<1>g. Gone(v) /\ Searchable(v) /\ LeftAlone(v) /\ HandedOn(v)
  BY DEF StoreInv, HandsInv
<1>k. ASSUME Gone(v)', Searchable(v)',
             \A r \in Runs : run[r].video = v \/ run'[r] # run[r] => RunTrue(r)'
      PROVE  StoreInv'
  <2>1. ASSUME NEW w \in Videos PROVE Gone(w)' /\ Searchable(w)'
    BY <1>t, <1>k, StoreKept, AboutOneVideo
  <2>2. ASSUME NEW r \in Runs PROVE RunTrue(r)'
    BY <1>t, <1>k, <1>v, StoreKept, AboutOneVideo, FreeTrue
  <2> QED  BY <2>1, <2>2 DEF StoreInv
<1>i. ASSUME run' = run, ~ Live(v), Gone(v)', Searchable(v)' PROVE StoreInv'
  BY <1>i, <1>k DEF Live
<1>1. CASE Api(v)
  <2>1. run' = run
    BY <1>1 DEF Api, Submit, DeleteVectors, DeleteThumbs, DeleteRow,
                DeleteStops
  <2>2. ~ Live(v)
    BY <1>1, <1>g, <1>s DEF Api, Submit, DeleteVectors, DeleteThumbs,
       DeleteRow, DeleteStops, Calm, LeftAlone, Idle
  <2>3. Gone(v)' /\ Searchable(v)'
    <3>1. CASE Submit(v)
      BY <3>1, <1>t, <1>g, <1>s DEF Submit, Calm, Gone, Searchable, Present,
                                    TypeOK
    <3>2. CASE DeleteVectors(v)
      <4>1. "qdrant" \notin Surroundings
              => frames' = [frames EXCEPT ![v] = {}] /\ text' = text \ {v}
        BY <3>2, <1>t, DeletedPoints DEF DeleteVectors
      <4> QED  BY <3>2, <4>1, <1>t, <1>g
               DEF DeleteVectors, Gone, Searchable, Present, TypeOK
    <3>3. CASE DeleteThumbs(v) \/ DeleteStops(v)
      BY <3>3, <1>t, <1>g DEF DeleteThumbs, DeleteStops, Gone, Searchable,
                              Present, Complete, AllBatches, TypeOK
    <3>4. CASE DeleteRow(v)
      BY <3>4, <1>t, <1>g DEF DeleteRow, Gone, Searchable, Present, TypeOK
    <3> QED  BY <1>1, <3>1, <3>2, <3>3, <3>4 DEF Api
  <2> QED  BY <1>i, <2>1, <2>2, <2>3
<1>2. CASE Claim(v) \/ EnqueueFails(v) \/ DispatcherDies(v)
  <2>1. run' = run /\ ~ Live(v) /\ Present(v)
    BY <1>2, <1>g, <1>s DEF Claim, EnqueueFails, DispatcherDies, HandedOn,
                            Present
  <2>2. Gone(v)' /\ Searchable(v)'
    BY <1>2, <2>1, <1>t, <1>g DEF Claim, EnqueueFails, DispatcherDies,
       SetStatus, Gone, Searchable, Complete, AllBatches, Present, TypeOK
  <2> QED  BY <1>i, <2>1, <2>2
<1>3. CASE Enqueue(v) \/ SweepEnqueue(v)
  <2>1. ~ Live(v) /\ status[v] \notin Terminal /\ Schedule(v)
    BY <1>3, <1>g, <1>d DEF Enqueue, SweepEnqueue, HandedOn
  <2>2. PICK r \in Runs :
        /\ run[r].stage = "free" /\ run[r].video = Nobody
        /\ run'[r] = [Free EXCEPT !.stage = "scheduled", !.video = v]
        /\ run'[r].stage = "scheduled" /\ run'[r].video = v
        /\ \A q \in Runs \ {r} : run'[q] = run[q]
    BY <2>1, ScheduleOwn
  <2>3. RunTrue(r)'
    BY <1>3, <2>1, <2>2 DEF Enqueue, SweepEnqueue, RunTrue, At
  <2>4. Gone(v)' /\ Searchable(v)'
    BY <1>3, <1>g DEF Enqueue, SweepEnqueue, Gone, Searchable, Complete,
                      AllBatches, Present
  <2>5. \A q \in Runs : run[q].video # v
    BY <2>1 DEF Live
  <2> QED  BY <1>k, <2>2, <2>3, <2>4, <2>5
<1>4. CASE Age(v) \/ SweepSkip(v)
  <2>1. Gone(v)' /\ Searchable(v)' /\ run' = run
    BY <1>4, <1>g DEF Age, SweepSkip, Gone, Searchable, Complete, AllBatches,
                      Present
  <2>2. \A r \in Runs : RunTrue(r)'
    BY <1>4 DEF Age, SweepSkip, StoreInv, RunTrue, At, AllBatches
  <2> QED  BY <1>k, <2>1, <2>2
<1>5. CASE SweepTouch(v)
  <2>1. Present(v) /\ run' = run
    BY <1>5, <1>g DEF SweepTouch, LeftAlone, Idle
  <2>2. /\ status' = [status EXCEPT ![v] = "queued"]
        /\ UNCHANGED <<frames, text, thumbs, deleting, purged>>
    BY <1>5, <2>1 DEF SweepTouch, SetStatus
  <2>3. Gone(v)' /\ Searchable(v)'
    BY <2>1, <2>2, <1>t, <1>g DEF Gone, Searchable, Present, TypeOK
  <2>4. \A r \in Runs : RunTrue(r)'
    BY <2>1, <2>2, <1>t, <1>d DEF StoreInv, RunTrue, At, TypeOK, AllBatches
  <2> QED  BY <1>k, <2>3, <2>4
<1> QED  BY <1>1, <1>2, <1>3, <1>4, <1>5 DEF Dispatcher, Sweep

(* A step of run r.                                                        *)
LEMMA StoreStepRun ==
    ASSUME TypeInv, HandsInv, StoreInv,
           NEW r \in Runs, Proceed(r) \/ GoWrong(r)
    PROVE  StoreInv'
<1> USE DEF rowVars, storeVars, sweepVars
<1>t. TypeOK /\ run \in [Runs -> Slots] /\ run[r] \in Slots
  BY DEF TypeInv, TypeOK, Slots
<1>0. PICK v \in Videos : v = run[r].video /\ Live(v)
  BY AboutItsVideo DEF Live
<1>p. /\ Present(v) /\ Present(v)' /\ deleting[v] = "no" /\ deleting'[v] = "no"
  BY <1>0, AboutItsVideo DEF HandsInv, LeftAlone, Idle
<1>n. /\ "queued" \notin Terminal /\ "fetching" \notin Terminal
      /\ "sampling" \notin Terminal /\ "embedding" \notin Terminal
      /\ {"indexed", "failed", "skipped"} = Terminal
  BY DEF Terminal
<1>r. RunTrue(r) /\ Searchable(v)
  BY DEF StoreInv
<1>k. ASSUME Searchable(v)', RunTrue(r)' PROVE StoreInv'
  <2>1. Gone(v)'
    BY <1>p DEF Gone, Present
  <2>2. ASSUME NEW w \in Videos PROVE Gone(w)' /\ Searchable(w)'
    BY <1>0, <1>k, <2>1, StoreKept, AboutItsVideo
  <2>3. ASSUME NEW q \in Runs \ {r} PROVE RunTrue(q)'
    <3>1. run'[q] = run[q]
      BY RunStepOwn
    <3>2. CASE run[q].stage = "free"
      BY <3>1, <3>2, FreeTrue
    <3>3. CASE run[q].stage # "free"
      <4>1. run[q].video \in Videos /\ run[q].video # v
        BY <1>0, <3>3, IngestAssumption
           DEF TypeInv, SlotsOK, SlotOK, HandsInv, RunsApart
      <4> QED  BY <1>0, <3>1, <4>1, StoreKept, AboutItsVideo
    <3> QED  BY <3>2, <3>3
  <2> QED  BY <1>k, <2>2, <2>3 DEF StoreInv
<1>e. ASSUME run'[r].stage \in {"free", "transcript", "captions", "fail"}
      PROVE  RunTrue(r)'
  BY <1>e DEF RunTrue, At, Before
<1>u. ASSUME status'[v] \notin Terminal,
             run'[r].stage \in Before \ {"upsert", "commit"},
             run'[r].video = v
      PROVE  Searchable(v)' /\ RunTrue(r)'
  BY <1>u, <1>n DEF Searchable, RunTrue, At
<1>y. ASSUME UNCHANGED <<status, frames, purged>> PROVE Searchable(v)'
  BY <1>y, <1>r DEF Searchable, Complete, AllBatches
<1>b. ASSUME run[r].stage \in Before PROVE status[v] \notin Terminal
  BY <1>b, <1>0, <1>r DEF RunTrue
<1>m. run'[r] = Free \/ run'[r].video = v
  BY <1>0, RunStepOwn
<1>f. Free.stage = "free" /\ "free" \notin Before
  BY DEF Free, Before
<1>1. CASE StartRun(r) \/ Download(r) \/ Sample(r) \/ PutThumbs(r) \/ Embed(r)
  <2>1. run'[r].stage \in {"fetch", "dup", "thumbs", "embed", "clear"}
    BY <1>1, SlotAfter DEF StartRun, Download, Sample, PutThumbs, Embed
  <2>2. run[r].stage \in Before
    BY <1>1 DEF StartRun, Download, Sample, PutThumbs, Embed, At, Before
  <2>3. status'[v] \notin Terminal
    BY <1>1, <1>0, <1>t, <1>b, <1>n, <1>p, <2>2 DEF StartRun, Download,
       Sample, PutThumbs, Embed, SetStatus, Touch, TypeOK
  <2> QED  BY <1>k, <1>u, <1>m, <1>f, <2>1, <2>3 DEF Before
<1>2. CASE Fetch(r)
  <2>1. GoTo(r, "download") /\ status'[v] = "fetching"
    BY <1>2, <1>0, <1>t, <1>p DEF Fetch, SetStatus, TypeOK
  <2>2. run'[r].stage = "download"
    BY <2>1, SlotAfter
  <2> QED  BY <1>k, <1>u, <1>m, <1>f, <1>n, <2>1, <2>2 DEF Before
<1>3. CASE CheckDuplicate(r)
  <2>1. CASE HasDuplicate(v)
    <3>1. run'[r].stage = "free" /\ status'[v] = "skipped"
      BY <1>3, <2>1, <1>0, <1>t, <1>p, SlotAfter DEF CheckDuplicate, SetStatus,
                                                     TypeOK
    <3> QED  BY <1>k, <1>e, <3>1 DEF Searchable
  <2>2. CASE ~ HasDuplicate(v)
    <3>1. run'[r].stage = "sample" /\ run'[r].video = v /\ status' = status
      BY <1>3, <2>2, <1>0, <1>t DEF CheckDuplicate, Slots
    <3>2. run[r].stage \in Before
      BY <1>3 DEF CheckDuplicate, At, Before
    <3> QED  BY <1>k, <1>u, <1>b, <3>1, <3>2 DEF Before
  <2> QED  BY <2>1, <2>2
<1>4. CASE Clear(r)
  <2>2. run'[r].stage = "upsert" /\ run'[r].next = 1 /\ run'[r].video = v
    BY <1>4, <1>m, <1>f, SlotAfter DEF Clear, At, TypeInv, SlotsOK, SlotOK
  <2>3. status'[v] \notin Terminal
    BY <1>4, <1>b DEF Clear, At, Before
  <2>4. 1 .. (run'[r].next - 1) \subseteq frames'[v]
    BY <2>2
  <2> QED  BY <1>k, <1>n, <2>2, <2>3, <2>4 DEF RunTrue, At, Searchable
<1>5. CASE Upsert(r)
  <2> DEFINE b == run[r].next
  <2>1. /\ b \in AllBatches /\ 1 .. (b - 1) \subseteq frames[v]
        /\ frames[v] \subseteq AllBatches /\ status[v] \notin Terminal
    BY <1>t, <1>5, <1>0, <1>r, <1>b
       DEF Upsert, At, TypeInv, SlotsOK, SlotOK, RunTrue,
                                  Before, TypeOK
  <2>2. /\ frames' = [frames EXCEPT ![v] = @ \union {b}]
        /\ run'[r].next = b + 1 /\ run'[r].video = v /\ status' = status
        /\ run'[r].stage = IF b = Batches THEN "commit" ELSE "upsert"
    BY <1>5, <1>0, <1>t DEF Upsert, At, Touch, Slots
  <2>3. 1 .. b \subseteq frames'[v] /\ frames'[v] \subseteq AllBatches
    BY <1>t, <2>1, <2>2, IngestAssumption DEF TypeOK, AllBatches
  <2>4. RunTrue(r)'
    <3>1. status'[v] \notin Terminal /\ run'[r].video = v
      BY <2>1, <2>2
    <3>2. CASE b = Batches
      <4>1. frames'[v] = AllBatches /\ run'[r].stage = "commit"
        BY <2>2, <2>3, <3>2 DEF AllBatches
      <4> QED  BY <3>1, <4>1 DEF RunTrue, At, AllBatches
    <3>3. CASE b # Batches
      <4>1. run'[r].stage = "upsert" /\ run'[r].next - 1 = b
        BY <2>1, <2>2, <3>3, IngestAssumption DEF AllBatches
      <4> QED  BY <2>3, <3>1, <4>1 DEF RunTrue, At
    <3> QED  BY <3>2, <3>3
  <2> QED  BY <1>k, <1>n, <2>1, <2>2, <2>4 DEF Searchable
<1>6. CASE Commit(r)
  <2>1. frames[v] = AllBatches
    BY <1>6, <1>0, <1>r DEF Commit, RunTrue, At
  <2>2. frames' = frames /\ run'[r].stage = "transcript"
    BY <1>6, <1>t DEF Commit, Slots
  <2> QED  BY <1>k, <1>e, <2>1, <2>2 DEF Searchable, Complete, AllBatches
<1>7. CASE Transcript(r) \/ Captions(r) \/ RunDies(r) \/ TranscriptRaises(r)
             \/ SampleFails(r)
  <2>1. run'[r].stage \in {"free", "transcript", "captions", "fail"}
    BY <1>7, SlotAfter DEF Transcript, Captions, RunDies, TranscriptRaises,
                           SampleFails
  <2>2. UNCHANGED <<status, frames, purged>>
    BY <1>7 DEF Transcript, Captions, RunDies, TranscriptRaises, SampleFails
  <2> QED  BY <1>k, <1>e, <1>y, <2>1, <2>2
<1>8. CASE Fail(r)
  <2>1. run'[r].stage = "free" /\ status'[v] = "failed"
    BY <1>8, <1>0, <1>t, <1>p, SlotAfter DEF Fail, SetStatus, TypeOK
  <2> QED  BY <1>k, <1>e, <2>1 DEF Searchable
<1>9. CASE FetchFails(r) \/ EmbedFails(r)
  <2>1. run'[r].stage \in {"fetch", "embed", "fail"}
    BY <1>9, SlotAfter DEF FetchFails, EmbedFails
  <2>2. UNCHANGED <<status, frames, purged>> /\ status[v] \notin Terminal
    BY <1>9, <1>b DEF FetchFails, EmbedFails, Before
  <2> QED  BY <1>k, <1>e, <1>u, <1>m, <1>f, <1>y, <2>1, <2>2 DEF Before
<1> QED
  BY <1>1, <1>2, <1>3, <1>4, <1>5, <1>6, <1>7, <1>8, <1>9
     DEF Proceed, GoWrong

(* Users leave what is in flight alone, and no row goes stale under        *)
(* whoever has it.                                                         *)
Quiet == {"busy", "slow"} \cap Surroundings = {}

LEMMA StoreStep ==
    ASSUME Quiet, TypeInv, HandsInv, StoreInv, [Next]_vars
    PROVE  StoreInv'
<1>1. ASSUME NEW v \in Videos, Api(v) \/ Dispatcher(v) \/ Sweep(v)
      PROVE  StoreInv'
  BY <1>1, StoreStepApi DEF Quiet
<1>2. ASSUME NEW r \in Runs, Proceed(r) \/ GoWrong(r) PROVE StoreInv'
  BY <1>2, StoreStepRun DEF Quiet
<1>3. CASE SweepSelect \/ SweepStops \/ UNCHANGED vars
  <2>1. UNCHANGED <<status, frames, text, thumbs, run, deleting, purged>>
    BY <1>3 DEF SweepSelect, SweepStops, vars, rowVars, storeVars
  <2> QED  BY <2>1 DEF StoreInv, RunTrue, Gone, Searchable, Present, Complete,
                       At, AllBatches
<1> QED  BY <1>1, <1>2, <1>3 DEF Next

LEMMA QuietInvariant == Quiet => (Spec => [](TypeInv /\ HandsInv /\ StoreInv))
<1> SUFFICES ASSUME Quiet PROVE Spec => [](TypeInv /\ HandsInv /\ StoreInv)
  OBVIOUS
<1>1. TypeInv /\ HandsInv /\ [Next]_vars => HandsInv'
  BY HandsStep DEF Quiet
<1>2. TypeInv /\ HandsInv /\ StoreInv /\ [Next]_vars => StoreInv'
  BY StoreStep
<1> QED  BY <1>1, <1>2, TypeInvariant, HandsInit, StoreInit, PTL DEF Spec

(* IndexedMeansSearchable: in quiet surroundings, through task retries,    *)
(* crashes, re-enqueues, refused schedules, deletes that are interrupted   *)
(* or refused by Qdrant, and failures of the database, for any number of   *)
(* videos, runs and batches, a row that says indexed has all its points,   *)
(* or its user's delete took them.                                         *)
THEOREM IndexedMeansSearchableHolds ==
    Quiet => (Spec => []IndexedMeansSearchable)
<1> SUFFICES ASSUME Quiet PROVE Spec => []IndexedMeansSearchable
  OBVIOUS
<1>1. StoreInv => IndexedMeansSearchable
  BY DEF StoreInv, Searchable, IndexedMeansSearchable
<1> QED  BY <1>1, QuietInvariant, PTL

(* NothingLeftBehind: if besides Qdrant deletes what it is asked to,       *)
(* nothing is stored for a video without a row.                            *)
THEOREM NothingLeftBehindHolds ==
    Quiet /\ "qdrant" \notin Surroundings => (Spec => []NothingLeftBehind)
<1> SUFFICES ASSUME Quiet, "qdrant" \notin Surroundings
             PROVE  Spec => []NothingLeftBehind
  OBVIOUS
<1>1. StoreInv => NothingLeftBehind
  BY DEF StoreInv, Gone, Present, NothingLeftBehind
<1> QED  BY <1>1, QuietInvariant, PTL

-----------------------------------------------------------------------------
(* Ingest implements SourceLifecycle.                                      *)

(* The abstract variables, as the refinement mapping of VideoIngest has    *)
(* them.                                                                   *)
PhaseNow ==
    [v \in Videos |->
       CASE status[v] = "absent"  -> "absent"
         [] status[v] = "indexed" -> "indexed"
         [] status[v] \in {"failed", "skipped"} -> "ended"
         [] OTHER -> "open"]
SearchableNow == {v \in Videos : Complete(v)}
TracesNow == {v \in Videos : frames[v] # {}} \union text \union thumbs

LEMMA PhaseCases ==
    ASSUME TypeOK, NEW v \in Videos
    PROVE  /\ PhaseNow[v] = "absent" <=> ~ Present(v)
           /\ PhaseNow[v] = "indexed" <=> status[v] = "indexed"
           /\ PhaseNow[v] = "ended" <=> status[v] \in {"failed", "skipped"}
           /\ PhaseNow[v] = "open" <=> Present(v) /\ status[v] \notin Terminal
BY DEF PhaseNow, Present, Terminal, TypeOK

LEMMA PhaseSet ==
    ASSUME NEW v \in Videos, \A w \in Videos \ {v} : Untouched(w)
    PROVE  /\ PhaseNow' = [PhaseNow EXCEPT ![v] = PhaseNow'[v]]
           /\ SearchableNow' \ {v} = SearchableNow \ {v}
<1>1. \A w \in Videos \ {v} : status'[w] = status[w] /\ frames'[w] = frames[w]
  BY DEF Untouched
<1>2. PhaseNow' = [PhaseNow EXCEPT ![v] = PhaseNow'[v]]
  BY <1>1 DEF PhaseNow
<1>3. SearchableNow' \ {v} = SearchableNow \ {v}
  BY <1>1 DEF SearchableNow, Complete, AllBatches
<1> QED  BY <1>2, <1>3

LEMMA TracesSet ==
    ASSUME TypeOK, TypeOK', NEW v \in Videos,
           \A w \in Videos \ {v} : Untouched(w)
    PROVE  TracesNow' \ {v} = TracesNow \ {v}
BY DEF TracesNow, Untouched, TypeOK

(* The abstract actions in terms of the abstract variables.                *)
LEMMA AbstractActions ==
    ASSUME NEW v \in Videos
    PROVE  /\ /\ PhaseNow' = [PhaseNow EXCEPT ![v] = "open"]
              /\ UNCHANGED <<SearchableNow, TracesNow, purged>>
              => Lifecycle!Open(v)
           /\ /\ PhaseNow[v] = "open" /\ UNCHANGED <<PhaseNow, purged>>
              /\ SearchableNow' \ {v} = SearchableNow \ {v}
              /\ TracesNow' \ {v} = TracesNow \ {v}
              => Lifecycle!Work(v)
           /\ /\ PhaseNow[v] = "open" /\ v \in SearchableNow
              /\ PhaseNow' = [PhaseNow EXCEPT ![v] = "indexed"]
              /\ purged' = purged \ {v}
              /\ UNCHANGED <<SearchableNow, TracesNow>>
              => Lifecycle!Publish(v)
           /\ /\ PhaseNow[v] = "open"
              /\ PhaseNow' = [PhaseNow EXCEPT ![v] = "ended"]
              /\ UNCHANGED <<SearchableNow, TracesNow, purged>>
              => Lifecycle!GiveUp(v)
           /\ /\ PhaseNow[v] = "indexed" /\ TracesNow' = TracesNow \union {v}
              /\ UNCHANGED <<PhaseNow, SearchableNow, purged>>
              => Lifecycle!Enrich(v)
           /\ /\ PhaseNow[v] \in {"indexed", "ended"}
              /\ SearchableNow' \in {SearchableNow, SearchableNow \ {v}}
              /\ TracesNow' \in {TracesNow, TracesNow \ {v}}
              /\ purged' = purged \union {v} /\ UNCHANGED PhaseNow
              => Lifecycle!Withdraw(v)
           /\ /\ v \in purged /\ v \notin TracesNow
              /\ PhaseNow' = [PhaseNow EXCEPT ![v] = "absent"]
              /\ purged' = purged \ {v}
              /\ UNCHANGED <<SearchableNow, TracesNow>>
              => Lifecycle!Remove(v)
BY DEF PhaseNow, SearchableNow, TracesNow, Lifecycle!Open, Lifecycle!Work,
       Lifecycle!OnlyAbout, Lifecycle!Publish, Lifecycle!GiveUp,
       Lifecycle!Enrich, Lifecycle!Withdraw, Lifecycle!Remove

LEMMA AbstractStutter ==
    UNCHANGED <<PhaseNow, SearchableNow, TracesNow, purged>>
      => UNCHANGED Lifecycle!vars
BY DEF PhaseNow, SearchableNow, TracesNow, Lifecycle!vars

LEMMA AbstractInit == Init => Lifecycle!Init
BY IngestAssumption DEF Init, Lifecycle!Init, Complete, AllBatches

(* A run that has yet to fail has an open row; one that has published has  *)
(* an indexed row, or one that the reconciler has touched since.           *)
RunEnds(r) ==
    /\ At(r, "fail") => status[run[r].video] \notin Terminal
    /\ run[r].stage \in {"transcript", "captions"}
         => status[run[r].video] \in {"indexed", "queued"}

EndsInv == \A r \in Runs : RunEnds(r)

(* Besides, Qdrant and Postgres answer.                                    *)
QuietInside == Quiet /\ {"qdrant", "database"} \cap Surroundings = {}

QuietInv == TypeInv /\ HandsInv /\ StoreInv /\ EndsInv

LEMMA EndsInit == Init => EndsInv
BY DEF Init, EndsInv, RunEnds, At, Free

LEMMA EndsStep ==
    ASSUME QuietInside, QuietInv, [Next]_vars
    PROVE  EndsInv'
<1> USE DEF rowVars, storeVars, sweepVars
<1>t. TypeOK /\ run \in [Runs -> Slots] /\ TypeInv /\ HandsInv
  BY DEF QuietInv, TypeInv, TypeOK, Slots
<1>q. /\ "slow" \notin Surroundings /\ "busy" \notin Surroundings
      /\ "database" \notin Surroundings
  BY DEF QuietInside, Quiet
<1>d. "queued" \notin Terminal
  BY DEF Terminal
<1>k. ASSUME NEW r \in Runs, run'[r] = run[r],
             status'[run[r].video] \in {status[run[r].video], "queued"}
      PROVE  RunEnds(r)'
  BY <1>k, <1>d DEF QuietInv, EndsInv, RunEnds, At
<1>f. ASSUME NEW r \in Runs,
             run'[r].stage \notin {"transcript", "captions", "fail"}
      PROVE  RunEnds(r)'
  BY <1>f DEF RunEnds, At
<1>v. \A r \in Runs : run[r].stage = "free" \/ run[r].video \in Videos
  BY <1>t DEF TypeInv, SlotsOK, SlotOK
<1>1. ASSUME NEW v \in Videos, Api(v) \/ Dispatcher(v) \/ Sweep(v),
             NEW r \in Runs
      PROVE  RunEnds(r)'
  <2>1. CASE run[r].stage = "free"
    <3>1. CASE run' = run
      BY <2>1, <3>1, <1>f
    <3>2. CASE Schedule(v)
      <4>1. run'[r] = run[r] \/ run'[r].stage = "scheduled"
        BY <1>t, <3>2, ScheduleOwn
      <4> QED  BY <2>1, <4>1, <1>f
    <3> QED  BY <1>1, <3>1, <3>2, OtherSteps DEF Enqueue, SweepEnqueue
  <2>2. CASE run[r].stage # "free" /\ run[r].video # v
    <3>1. run[r].video \in Videos \ {v}
      BY <2>2, <1>v
    <3>2. status'[run[r].video] = status[run[r].video]
      BY <1>1, <1>t, <3>1, AboutOneVideo DEF Untouched
    <3>3. run'[r] = run[r]
      <4>1. CASE run' = run
        BY <4>1
      <4>2. CASE Schedule(v)
        BY <1>t, <4>2, <2>2, ScheduleOwn
      <4> QED  BY <1>1, <4>1, <4>2, OtherSteps DEF Enqueue, SweepEnqueue
    <3> QED  BY <1>k, <3>2, <3>3
  <2>3. CASE run[r].video = v
    <3>1. Live(v) /\ Present(v) /\ deleting[v] = "no" /\ HandedOn(v)
      BY <2>3, <1>t DEF Live, HandsInv, LeftAlone, Idle
    <3>2. run' = run /\ status'[v] \in {status[v], "queued"}
      BY <1>1, <1>t, <1>q, <3>1
         DEF Api, Submit, DeleteVectors, DeleteThumbs, DeleteRow, DeleteStops,
             Dispatcher, Claim, Enqueue, EnqueueFails, DispatcherDies,
             Sweep, Age, SweepEnqueue, SweepSkip, SweepTouch,
             Calm, SetStatus, HandedOn, TypeOK
    <3> QED  BY <1>k, <2>3, <3>2
  <2> QED  BY <2>1, <2>2, <2>3
<1>2. ASSUME NEW q \in Runs, Proceed(q) \/ GoWrong(q), NEW r \in Runs \ {q}
      PROVE  RunEnds(r)'
  <2>0. PICK v \in Videos : v = run[q].video
    BY <1>2, <1>t, AboutItsVideo
  <2>1. run'[r] = run[r]
    BY <1>2, <1>t, RunStepOwn
  <2>2. CASE run[r].stage = "free"
    BY <1>f, <2>1, <2>2
  <2>3. CASE run[r].stage # "free"
    <3>1. run[r].video \in Videos \ {v}
      BY <2>0, <2>3, <1>t, <1>v, IngestAssumption DEF HandsInv, RunsApart
    <3>2. status'[run[r].video] = status[run[r].video]
      BY <1>2, <1>t, <2>0, <3>1, AboutItsVideo DEF Untouched
    <3> QED  BY <1>k, <2>1, <3>2
  <2> QED  BY <2>2, <2>3
<1>3. ASSUME NEW r \in Runs, Proceed(r) \/ GoWrong(r) PROVE RunEnds(r)'
  <2>0. PICK v \in Videos : v = run[r].video /\ Live(v)
    BY <1>3, <1>t, AboutItsVideo DEF Live
  <2>1. RunTrue(r) /\ RunEnds(r) /\ Present(v)
    BY <2>0 DEF QuietInv, StoreInv, EndsInv, HandsInv, LeftAlone, Idle
  <2>2. run'[r] = Free \/ run'[r].video = v
    BY <1>3, <1>t, <2>0, RunStepOwn
  <2>3. Free.stage = "free"
    BY DEF Free
  <2>4. CASE SampleFails(r) \/ FetchFails(r) \/ EmbedFails(r) \/ Fetch(r)
    <3>1. run[r].stage \in Before /\ run'[r].stage \in
            {"fetch", "download", "embed", "fail"}
      BY <2>4, <1>t, SlotAfter DEF SampleFails, FetchFails, EmbedFails, Fetch,
                                   At, Before
    <3>2. status'[v] \notin Terminal
      BY <2>0, <2>1, <2>4, <3>1, <1>t
         DEF SampleFails, FetchFails, EmbedFails, Fetch, RunTrue, SetStatus,
             Present, TypeOK, Terminal
    <3> QED  BY <2>2, <2>3, <3>1, <3>2 DEF RunEnds, At
  <2>5. CASE Commit(r)
    <3>1. status'[v] = "indexed" /\ run'[r].stage = "transcript"
      BY <1>t, <2>0, <2>1, <2>5 DEF Commit, SetStatus, TypeOK, Slots
    <3> QED  BY <2>2, <2>3, <3>1 DEF RunEnds, At
  <2>6. CASE Transcript(r) \/ Captions(r)
    <3>1. run'[r].stage \in {"captions", "free"} /\ status' = status
          /\ run[r].stage \in {"transcript", "captions"}
      BY <1>t, <2>6, SlotAfter DEF Transcript, Captions, At
    <3> QED  BY <2>0, <2>1, <2>2, <2>3, <3>1 DEF RunEnds, At
  <2>7. CASE TranscriptRaises(r)
    BY <2>7, <1>q DEF TranscriptRaises
  <2>8. CASE \/ StartRun(r) \/ Download(r) \/ CheckDuplicate(r) \/ Sample(r)
             \/ PutThumbs(r) \/ Embed(r) \/ Clear(r) \/ Upsert(r)
             \/ Fail(r) \/ RunDies(r)
    <3>1. CASE CheckDuplicate(r)
      <4>1. run'[r].stage \in {"free", "sample"}
        BY <1>t, <3>1, SlotAfter DEF CheckDuplicate, Slots
      <4> QED  BY <1>f, <4>1
    <3>2. CASE Upsert(r)
      <4>1. run'[r].stage \in {"upsert", "commit"}
        BY <1>t, <3>2 DEF Upsert, At, Slots
      <4> QED  BY <1>f, <4>1
    <3>3. CASE ~ CheckDuplicate(r) /\ ~ Upsert(r)
      <4>1. run'[r].stage \in {"free", "fetch", "dup", "thumbs", "embed",
                               "clear", "upsert"}
        BY <1>t, <2>8, <3>3, SlotAfter
           DEF StartRun, Download, Sample, PutThumbs, Embed, Clear, Fail,
               RunDies
      <4> QED  BY <1>f, <4>1
    <3> QED  BY <3>1, <3>2, <3>3
  <2> QED  BY <1>3, <2>4, <2>5, <2>6, <2>7, <2>8 DEF Proceed, GoWrong
<1>4. CASE SweepSelect \/ SweepStops \/ UNCHANGED vars
  <2>1. UNCHANGED <<status, run>>
    BY <1>4 DEF SweepSelect, SweepStops, vars
  <2> QED  BY <2>1, <1>k DEF EndsInv
<1>5. ASSUME NEW r \in Runs, [Next]_vars PROVE RunEnds(r)'
  BY <1>1, <1>2, <1>3, <1>4 DEF Next, EndsInv
<1> QED  BY <1>5 DEF EndsInv

(* A step of the concrete specification is a step of the abstract one.     *)
LEMMA RefineApi ==
    ASSUME QuietInside, QuietInv, TypeOK', NEW v \in Videos, Api(v)
    PROVE  Lifecycle!Next \/ UNCHANGED Lifecycle!vars
<1> USE DEF rowVars, storeVars, sweepVars
<1>t. /\ TypeOK /\ LeftAlone(v) /\ Gone(v)
      /\ "busy" \notin Surroundings /\ "qdrant" \notin Surroundings
  BY DEF QuietInv, TypeInv, HandsInv, StoreInv, QuietInside, Quiet
<1>o. \A w \in Videos \ {v} : Untouched(w)
  BY <1>t, AboutOneVideo
<1>p. /\ PhaseNow' = [PhaseNow EXCEPT ![v] = PhaseNow'[v]]
      /\ SearchableNow' \ {v} = SearchableNow \ {v}
      /\ TracesNow' \ {v} = TracesNow \ {v}
  BY <1>t, <1>o, PhaseSet, TracesSet
<1>n. Lifecycle!Open(v) \/ Lifecycle!Withdraw(v) \/ Lifecycle!Remove(v)
        => Lifecycle!Next
  BY DEF Lifecycle!Next
<1>s. frames' = frames => SearchableNow' = SearchableNow
  BY DEF SearchableNow, Complete, AllBatches
<1>r. UNCHANGED <<frames, text, thumbs>> => TracesNow' = TracesNow
  BY DEF TracesNow
<1>f. status' = status => PhaseNow' = PhaseNow
  BY DEF PhaseNow
<1>w. /\ \A w \in Videos : w \in SearchableNow <=> frames[w] = AllBatches
      /\ v \in TracesNow <=> frames[v] # {} \/ v \in text \/ v \in thumbs
      /\ v \in TracesNow' <=> frames'[v] # {} \/ v \in text' \/ v \in thumbs'
      /\ v \in SearchableNow' <=> frames'[v] = AllBatches
  BY DEF SearchableNow, TracesNow, Complete, AllBatches
<1>b. AllBatches # {}
  BY IngestAssumption DEF AllBatches
<1>1. CASE Submit(v)
  <2>1. PhaseNow'[v] = "open"
    BY <1>1, <1>t DEF Submit, PhaseNow, TypeOK
  <2>2. UNCHANGED <<SearchableNow, TracesNow, purged>>
    BY <1>1, <1>s, <1>r DEF Submit
  <2> QED  BY <1>n, <1>p, <2>1, <2>2, AbstractActions
<1>2. CASE DeleteVectors(v)
  <2>1. /\ frames'[v] = {} /\ v \notin text' /\ thumbs' = thumbs
        /\ purged' = purged \union {v} /\ status[v] \in Terminal
        /\ PhaseNow' = PhaseNow
    BY <1>2, <1>t, <1>f, DeletedPoints DEF DeleteVectors, TypeOK
  <2>2. PhaseNow[v] \in {"indexed", "ended"}
    BY <1>t, <2>1, PhaseCases DEF Terminal
  <2>3. SearchableNow' = SearchableNow \ {v}
    BY <1>p, <1>w, <1>b, <2>1
  <2>4. TracesNow' \in {TracesNow, TracesNow \ {v}}
    BY <1>p, <1>w, <2>1
  <2> QED  BY <1>n, <2>1, <2>2, <2>3, <2>4, AbstractActions
<1>3. CASE DeleteThumbs(v)
  <2>1. /\ deleting[v] # "no" /\ v \notin thumbs'
        /\ UNCHANGED <<frames, text, purged, status>>
    BY <1>3 DEF DeleteThumbs
  <2>2. PhaseNow[v] \in {"indexed", "ended"} /\ purged' = purged \union {v}
        /\ frames'[v] = {} /\ v \notin text'
    BY <1>t, <2>1, PhaseCases DEF Terminal, LeftAlone, Gone
  <2>3. TracesNow' = TracesNow \ {v}
    BY <1>p, <1>w, <2>1, <2>2
  <2> QED  BY <1>n, <1>s, <1>f, <2>1, <2>2, <2>3, AbstractActions
<1>4. CASE DeleteRow(v)
  <2>1. v \in purged /\ v \notin TracesNow
    BY <1>4, <1>t, <1>w DEF DeleteRow, Gone
  <2>2. PhaseNow'[v] = "absent" /\ purged' = purged \ {v}
        /\ UNCHANGED <<SearchableNow, TracesNow>>
    BY <1>4, <1>t, <1>s, <1>r DEF DeleteRow, PhaseNow, TypeOK
  <2> QED  BY <1>n, <1>p, <2>1, <2>2, AbstractActions
<1>5. CASE DeleteStops(v)
  BY <1>5, <1>s, <1>r, <1>f, AbstractStutter DEF DeleteStops
<1> QED  BY <1>1, <1>2, <1>3, <1>4, <1>5 DEF Api

LEMMA RefineQueue ==
    ASSUME QuietInside, QuietInv, TypeOK',
           NEW v \in Videos, Dispatcher(v) \/ Sweep(v)
    PROVE  Lifecycle!Next \/ UNCHANGED Lifecycle!vars
<1> USE DEF rowVars, storeVars, sweepVars
<1>t. /\ TypeOK /\ LeftAlone(v)
  BY DEF QuietInv, TypeInv, HandsInv
<1>p. PhaseNow' = [PhaseNow EXCEPT ![v] = PhaseNow'[v]]
  BY <1>t, AboutOneVideo, PhaseSet
<1>n. Lifecycle!Open(v) => Lifecycle!Next
  BY DEF Lifecycle!Next
<1>s. UNCHANGED <<frames, text, thumbs, purged>>
  BY DEF Dispatcher, Claim, Enqueue, EnqueueFails, DispatcherDies, Sweep, Age,
         SweepEnqueue, SweepSkip, SweepTouch
<1>u. UNCHANGED <<SearchableNow, TracesNow, purged>>
  BY <1>s DEF SearchableNow, Complete, AllBatches, TracesNow
<1>1. CASE Claim(v) \/ EnqueueFails(v) \/ SweepTouch(v)
  <2>1. Present(v)
    BY <1>1, <1>t DEF Claim, EnqueueFails, SweepTouch, LeftAlone, Idle, Present
  <2>2. status'[v] \in {"queued", "pending"}
    BY <1>1, <2>1, <1>t DEF Claim, EnqueueFails, SweepTouch, SetStatus, TypeOK
  <2>3. PhaseNow'[v] = "open"
    BY <2>2 DEF PhaseNow
  <2> QED  BY <1>n, <1>p, <1>u, <2>3, AbstractActions
<1>2. CASE Enqueue(v) \/ DispatcherDies(v) \/ Age(v) \/ SweepEnqueue(v)
             \/ SweepSkip(v)
  <2>1. PhaseNow' = PhaseNow
    BY <1>2 DEF Enqueue, DispatcherDies, Age, SweepEnqueue, SweepSkip, PhaseNow
  <2> QED  BY <1>u, <2>1, AbstractStutter
<1> QED  BY <1>1, <1>2 DEF Dispatcher, Sweep

LEMMA RefineRun ==
    ASSUME QuietInside, QuietInv, TypeOK',
           NEW r \in Runs, Proceed(r) \/ GoWrong(r)
    PROVE  Lifecycle!Next \/ UNCHANGED Lifecycle!vars
<1> USE DEF rowVars, storeVars, sweepVars
<1>t. /\ TypeOK /\ RunTrue(r) /\ RunEnds(r) /\ TypeInv
      /\ "database" \notin Surroundings
  BY DEF QuietInv, TypeInv, StoreInv, EndsInv, QuietInside
<1>0. PICK v \in Videos : v = run[r].video /\ Live(v) /\ Present(v)
  BY <1>t, AboutItsVideo DEF Live, QuietInv, HandsInv, LeftAlone, Idle
<1>o. \A w \in Videos \ {v} : Untouched(w)
  BY <1>t, <1>0, AboutItsVideo
<1>p. /\ PhaseNow' = [PhaseNow EXCEPT ![v] = PhaseNow'[v]]
      /\ SearchableNow' \ {v} = SearchableNow \ {v}
      /\ TracesNow' \ {v} = TracesNow \ {v}
  BY <1>t, <1>o, PhaseSet, TracesSet
<1>n. Lifecycle!Work(v) \/ Lifecycle!Publish(v) \/ Lifecycle!GiveUp(v)
        \/ Lifecycle!Enrich(v) => Lifecycle!Next
  BY DEF Lifecycle!Next
<1>s. frames' = frames => SearchableNow' = SearchableNow
  BY DEF SearchableNow, Complete, AllBatches
<1>r. UNCHANGED <<frames, text, thumbs>> => TracesNow' = TracesNow
  BY DEF TracesNow
<1>f. PhaseNow \in [Videos -> {"absent", "open", "indexed", "ended"}]
  BY DEF PhaseNow
<1>b. ASSUME run[r].stage \in Before PROVE PhaseNow[v] = "open"
  BY <1>b, <1>t, <1>0, PhaseCases DEF RunTrue
<1>w. ASSUME run[r].stage \in Before, purged' = purged,
             status'[v] \in Statuses \ Terminal
      PROVE  Lifecycle!Next
  <2>1. PhaseNow[v] = "open" /\ PhaseNow'[v] = "open"
    BY <1>b, <1>w DEF PhaseNow, Statuses, Terminal
  <2>2. PhaseNow' = PhaseNow
    BY <1>f, <1>p, <2>1
  <2> QED  BY <1>n, <1>p, <1>w, <2>1, <2>2, AbstractActions
<1>e. ASSUME UNCHANGED <<status, frames, text, thumbs, purged>>
      PROVE  UNCHANGED Lifecycle!vars
  <2>1. PhaseNow' = PhaseNow
    BY <1>e DEF PhaseNow
  <2> QED  BY <1>e, <1>s, <1>r, <2>1, AbstractStutter
<1>1. CASE StartRun(r) \/ Fetch(r) \/ Download(r) \/ Sample(r) \/ PutThumbs(r)
             \/ Embed(r) \/ Clear(r) \/ Upsert(r) \/ SampleFails(r)
  <2>1. run[r].stage \in Before /\ purged' = purged
    BY <1>1 DEF StartRun, Fetch, Download, Sample, PutThumbs, Embed, Clear,
                Upsert, SampleFails, At, Before
  <2>2. status[v] \in Statuses \ Terminal
    BY <1>t, <1>0, <2>1 DEF RunTrue, Present, TypeOK
  <2>3. status'[v] \in Statuses \ Terminal
    BY <1>1, <1>t, <1>0, <2>2 DEF StartRun, Fetch, Download, Sample, PutThumbs,
       Embed, Clear, Upsert, SampleFails, SetStatus, Touch, TypeOK, Statuses,
       Terminal
  <2> QED  BY <1>w, <2>1, <2>3
<1>2. CASE CheckDuplicate(r) \/ Fail(r)
  <2>1. PhaseNow[v] = "open"
    BY <1>2, <1>b, <1>t, <1>0, PhaseCases
       DEF CheckDuplicate, Fail, At, Before, RunEnds
  <2>2. UNCHANGED <<frames, text, thumbs, purged>>
        /\ (status' = status \/ status'[v] \in {"skipped", "failed"})
    BY <1>2, <1>t, <1>0 DEF CheckDuplicate, Fail, SetStatus, TypeOK
  <2>3. CASE status' = status
    BY <1>e, <2>2, <2>3
  <2>4. CASE status'[v] \in {"skipped", "failed"}
    <3>1. PhaseNow'[v] = "ended"
      BY <2>4 DEF PhaseNow
    <3> QED  BY <1>n, <1>p, <1>s, <1>r, <2>1, <2>2, <3>1, AbstractActions
  <2> QED  BY <2>2, <2>3, <2>4
<1>3. CASE Commit(r)
  <2>1. PhaseNow[v] = "open" /\ v \in SearchableNow
    BY <1>3, <1>b, <1>t, <1>0
       DEF Commit, At, Before, RunTrue, SearchableNow, Complete
  <2>2. UNCHANGED <<frames, text, thumbs>> /\ purged' = purged \ {v}
        /\ status'[v] = "indexed"
    BY <1>3, <1>t, <1>0 DEF Commit, SetStatus, TypeOK
  <2>3. PhaseNow'[v] = "indexed"
    BY <2>2 DEF PhaseNow
  <2> QED  BY <1>n, <1>p, <1>s, <1>r, <2>1, <2>2, <2>3, AbstractActions
<1>4. CASE Captions(r)
  <2>1. /\ UNCHANGED <<status, frames, thumbs, purged>>
        /\ text' \in {text, text \union {v}}
        /\ status[v] \in {"indexed", "queued"}
    BY <1>4, <1>t, <1>0 DEF Captions, RunEnds, At
  <2>2. UNCHANGED <<PhaseNow, SearchableNow>>
    BY <2>1, <1>s DEF PhaseNow
  <2>3. CASE text' = text
    BY <1>e, <2>1, <2>3
  <2>4. CASE text' = text \union {v} /\ status[v] = "indexed"
    <3>1. PhaseNow[v] = "indexed" /\ TracesNow' = TracesNow \union {v}
      BY <2>1, <2>4, <1>t, PhaseCases DEF TracesNow
    <3> QED  BY <1>n, <2>1, <2>2, <3>1, AbstractActions
  <2>5. CASE status[v] = "queued"
    <3>1. PhaseNow[v] = "open"
      BY <2>5 DEF PhaseNow
    <3> QED  BY <1>n, <1>p, <2>1, <2>2, <3>1, AbstractActions
  <2> QED  BY <2>1, <2>3, <2>4, <2>5
<1>5. CASE Transcript(r) \/ FetchFails(r) \/ EmbedFails(r) \/ RunDies(r)
             \/ TranscriptRaises(r)
  BY <1>5, <1>e DEF Transcript, FetchFails, EmbedFails, RunDies,
                    TranscriptRaises
<1> QED  BY <1>1, <1>2, <1>3, <1>4, <1>5 DEF Proceed, GoWrong

LEMMA RefineStep ==
    ASSUME QuietInside, QuietInv, TypeOK', [Next]_vars
    PROVE  [Lifecycle!Next]_(Lifecycle!vars)
<1>1. ASSUME NEW v \in Videos, Api(v) \/ Dispatcher(v) \/ Sweep(v)
      PROVE  Lifecycle!Next \/ UNCHANGED Lifecycle!vars
  BY <1>1, RefineApi, RefineQueue
<1>2. ASSUME NEW r \in Runs, Proceed(r) \/ GoWrong(r)
      PROVE  Lifecycle!Next \/ UNCHANGED Lifecycle!vars
  BY <1>2, RefineRun
<1>3. CASE SweepSelect \/ SweepStops \/ UNCHANGED vars
  <2>1. UNCHANGED <<status, frames, text, thumbs, purged>>
    BY <1>3 DEF SweepSelect, SweepStops, vars, rowVars, storeVars
  <2>2. UNCHANGED <<PhaseNow, SearchableNow, TracesNow>>
    BY <2>1 DEF PhaseNow, SearchableNow, TracesNow, Complete, AllBatches
  <2> QED  BY <2>1, <2>2, AbstractStutter
<1> QED  BY <1>1, <1>2, <1>3 DEF Next

(* ImplementsLifecycle: in quiet surroundings in which Qdrant and Postgres *)
(* answer, ingest is SourceLifecycle: nothing is published before all of   *)
(* it can be searched, nothing published loses a point but by a delete or  *)
(* a new run, and a removed video leaves no trace, for any number of       *)
(* videos, runs, batches, retries and crashes.                             *)
THEOREM ImplementsLifecycleHolds ==
    QuietInside => (Spec => ImplementsLifecycle)
<1> SUFFICES ASSUME QuietInside PROVE Spec => ImplementsLifecycle
  OBVIOUS
<1>1. Spec => [](TypeInv /\ HandsInv /\ StoreInv)
  BY QuietInvariant DEF QuietInside
<1>2. TypeInv /\ HandsInv /\ StoreInv /\ EndsInv /\ [Next]_vars => EndsInv'
  BY EndsStep DEF QuietInv
<1>3. TypeInv /\ HandsInv /\ StoreInv /\ EndsInv /\ TypeInv' /\ [Next]_vars
        => [Lifecycle!Next]_(Lifecycle!vars)
  BY RefineStep DEF QuietInv, TypeInv
<1> QED
  BY <1>1, <1>2, <1>3, EndsInit, AbstractInit, PTL
     DEF Spec, ImplementsLifecycle, Lifecycle!Spec
=============================================================================
