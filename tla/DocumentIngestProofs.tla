------------------------- MODULE DocumentIngestProofs -------------------------
(* Theorems about DocumentIngest for every set of documents and runs,      *)
(* every yield of a parse, every number of retries and bound on crashes.   *)
EXTENDS DocumentIngest, TLAPS

-----------------------------------------------------------------------------
(* Types, whatever the surroundings do.                                    *)

Slots == [stage : Stages, doc : Documents \union {Nobody},
          tries : 0 .. (ParseRetries + EmbedRetries), made : Nat]

(* That the points of a document stay among those it may have rests on     *)
(* what its run has made being one of its yields.                          *)
SlotOK(s) ==
    /\ s.stage = "free" => s.doc = Nobody
    /\ s.stage # "free" => s.doc \in Documents
    /\ s.stage \in {"embed", "clear", "upsert", "complete"}
         => s.made \in Yields[s.doc]

TypeInv ==
    /\ TypeOK /\ run \in [Runs -> Slots]
    /\ \A r \in Runs : SlotOK(run[r])

SlotsTyped == run' \in [Runs -> Slots] /\ \A r \in Runs : SlotOK(run'[r])

LEMMA FreeSlot == Free \in Slots /\ SlotOK(Free) /\ Free.stage = "free"
BY DocumentAssumption DEF Free, Slots, SlotOK, Stages

LEMMA SlotSet ==
    ASSUME TypeInv, NEW r \in Runs, NEW s \in Slots, SlotOK(s),
           run' = [run EXCEPT ![r] = s]
    PROVE  SlotsTyped /\ run'[r] = s /\ \A q \in Runs \ {r} : run'[q] = run[q]
BY DEF TypeInv, SlotsTyped

LEMMA YieldsAreNumbers ==
    ASSUME NEW d \in Documents, NEW n \in Yields[d]
    PROVE  n \in Nat /\ 1 .. n \subseteq AllPoints
BY DocumentAssumption DEF AllPoints

(* What a step of run r makes of its slot, and that it makes nothing of    *)
(* the others.                                                             *)
Moves(r) ==
    /\ SlotsTyped
    /\ \A q \in Runs \ {r} : run'[q] = run[q]
    /\ run'[r].stage = "free" \/ run'[r].doc = run[r].doc

LEMMA GoToMoves ==
    ASSUME TypeInv, NEW r \in Runs, NEW stage \in Stages \ {"free"},
           run[r].stage # "free", GoTo(r, stage),
           stage \in {"embed", "clear", "upsert", "complete"}
             => run[r].stage \in {"embed", "clear", "upsert", "complete"}
    PROVE  Moves(r) /\ run'[r].stage = stage /\ run'[r].made = run[r].made
<1> DEFINE s == [run[r] EXCEPT !.stage = stage]
<1>1. run[r] \in Slots /\ SlotOK(run[r])
  BY DEF TypeInv
<1>2. s \in Slots /\ SlotOK(s) /\ s.stage = stage /\ s.doc = run[r].doc
      /\ s.made = run[r].made
  BY <1>1 DEF Slots, SlotOK
<1>3. run' = [run EXCEPT ![r] = s]
  BY DEF GoTo
<1> QED  BY <1>2, <1>3, SlotSet DEF Moves

LEMMA RaiseMoves ==
    ASSUME TypeInv, NEW r \in Runs, run[r].stage # "free",
           NEW first \in {"parse", "embed"},
           first = "embed" => run[r].stage \in {"clear", "upsert", "complete"},
           NEW retries \in 0 .. (ParseRetries + EmbedRetries),
           Raise(r, first, retries)
    PROVE  Moves(r) /\ run'[r].stage \in {first, "fail"}
<1> DEFINE more == [run[r] EXCEPT !.tries = run[r].tries + 1]
           again == [more EXCEPT !.stage = first]
           over  == [run[r] EXCEPT !.stage = "fail"]
<1>1. run[r] \in Slots /\ SlotOK(run[r])
  BY DEF TypeInv
<1>2. run' = [run EXCEPT ![r] = IF run[r].tries < retries THEN again ELSE over]
  BY DEF Raise
<1>3. CASE run[r].tries < retries
  <2>1. more \in Slots /\ more.doc = run[r].doc /\ more.made = run[r].made
    BY <1>1, <1>3, DocumentAssumption DEF Slots
  <2>2. again \in Slots /\ SlotOK(again) /\ again.doc = run[r].doc
        /\ again.stage = first
    BY <1>1, <2>1 DEF Slots, SlotOK, Stages
  <2> QED  BY <1>2, <1>3, <2>2, SlotSet DEF Moves
<1>4. CASE ~ (run[r].tries < retries)
  <2>1. over \in Slots /\ SlotOK(over) /\ over.doc = run[r].doc
        /\ over.stage = "fail"
    BY <1>1 DEF Slots, SlotOK, Stages
  <2> QED  BY <1>2, <1>4, <2>1, SlotSet DEF Moves
<1> QED  BY <1>3, <1>4

LEMMA EndMoves ==
    ASSUME TypeInv, NEW r \in Runs, EndRun(r)
    PROVE  Moves(r) /\ run'[r].stage = "free"
BY FreeSlot, SlotSet DEF EndRun, Moves

LEMMA ParsedMoves ==
    ASSUME TypeInv, NEW r \in Runs, run[r].stage # "free",
           run' = [run EXCEPT ![r].stage = "chunk", ![r].tries = 0]
    PROVE  Moves(r) /\ run'[r].stage = "chunk"
<1> DEFINE s == [[run[r] EXCEPT !.stage = "chunk"] EXCEPT !.tries = 0]
<1>1. run[r] \in Slots /\ SlotOK(run[r])
      /\ 0 \in 0 .. (ParseRetries + EmbedRetries)
  BY DocumentAssumption DEF TypeInv
<1>2. s \in Slots /\ SlotOK(s) /\ s.stage = "chunk" /\ s.doc = run[r].doc
  BY <1>1 DEF Slots, SlotOK, Stages
<1>3. run' = [run EXCEPT ![r] = s]
  OBVIOUS
<1> QED  BY <1>2, <1>3, SlotSet DEF Moves

LEMMA ChunkedMoves ==
    ASSUME TypeInv, NEW r \in Runs, run[r].stage # "free",
           NEW n \in Yields[run[r].doc],
           run' = [run EXCEPT ![r].stage = "embed", ![r].made = n]
    PROVE  Moves(r) /\ run'[r].stage = "embed"
<1> DEFINE s == [[run[r] EXCEPT !.stage = "embed"] EXCEPT !.made = n]
<1>1. run[r] \in Slots /\ SlotOK(run[r]) /\ n \in Nat
  BY YieldsAreNumbers DEF TypeInv, SlotOK
<1>2. s \in Slots /\ SlotOK(s) /\ s.stage = "embed" /\ s.doc = run[r].doc
  BY <1>1 DEF Slots, SlotOK, Stages
<1>3. run' = [run EXCEPT ![r] = s]
  OBVIOUS
<1> QED  BY <1>2, <1>3, SlotSet DEF Moves

(* A step of run r, and where it may take the run.                         *)
LEMMA RunMoves ==
    ASSUME TypeInv, NEW r \in Runs, Proceed(r) \/ EmbedFails(r) \/ RunDies(r)
    PROVE  Moves(r) /\ run[r].stage # "free" /\ run[r].doc \in Documents
<1>1. run[r].stage # "free" /\ run[r].doc \in Documents
  BY DEF Proceed, StartRun, Parse, Chunk, EmbedNothing, Embed, Clear, Upsert,
         Complete, Fail, EmbedFails, RunDies, At, TypeInv, SlotOK
<1>a. ParseRetries \in 0 .. (ParseRetries + EmbedRetries)
      /\ EmbedRetries \in 0 .. (ParseRetries + EmbedRetries)
  BY DocumentAssumption
<1>2. CASE StartRun(r) \/ Embed(r) \/ Clear(r) \/ Upsert(r)
  <2>1. PICK stage \in {"parse", "clear", "upsert", "complete"} : GoTo(r, stage)
    BY <1>2 DEF StartRun, Embed, Clear, Upsert
  <2>2. stage # "parse"
          => run[r].stage \in {"embed", "clear", "upsert", "complete"}
    <3>1. CASE StartRun(r)
      BY <1>1, <2>1, <3>1, GoToMoves DEF StartRun, GoTo, TypeInv, Slots, Stages
    <3>2. CASE Embed(r) \/ Clear(r) \/ Upsert(r)
      BY <3>2 DEF Embed, Clear, Upsert, At
    <3> QED  BY <1>2, <3>1, <3>2
  <2> QED  BY <1>1, <2>1, <2>2, GoToMoves DEF Stages
<1>3. CASE Parse(r)
  BY <1>1, <1>3, <1>a, ParsedMoves, RaiseMoves DEF Parse
<1>4. CASE Chunk(r)
  BY <1>1, <1>4, ChunkedMoves DEF Chunk
<1>5. CASE EmbedNothing(r) \/ Complete(r) \/ Fail(r) \/ RunDies(r)
  BY <1>1, <1>5, EndMoves DEF EmbedNothing, Complete, PublishCount, Fail,
                              RunDies
<1>6. CASE EmbedFails(r)
  BY <1>1, <1>6, <1>a, RaiseMoves DEF EmbedFails
<1> QED  BY <1>1, <1>2, <1>3, <1>4, <1>5, <1>6 DEF Proceed

(* A schedule takes a free slot for its document.                          *)
LEMMA ScheduleOwn ==
    ASSUME TypeInv, NEW d \in Documents, Schedule(d)
    PROVE  SlotsTyped /\ \E r \in Runs :
             /\ run[r].stage = "free" /\ run[r].doc = Nobody
             /\ run'[r].stage = "scheduled" /\ run'[r].doc = d
             /\ \A q \in Runs \ {r} : run'[q] = run[q]
<1> DEFINE s == [[Free EXCEPT !.stage = "scheduled"] EXCEPT !.doc = d]
<1>1. s \in Slots /\ SlotOK(s) /\ s.stage = "scheduled" /\ s.doc = d
  BY FreeSlot DEF Slots, SlotOK, Stages
<1>2. PICK r \in Runs : At(r, "free") /\ run' = [run EXCEPT ![r] = s]
  BY DEF Schedule
<1>3. run[r].stage = "free" /\ run[r].doc = Nobody
  BY <1>2 DEF At, TypeInv, SlotOK
<1> QED  BY <1>1, <1>2, <1>3, SlotSet

LEMMA ScheduleLive ==
    ASSUME TypeInv, NEW d \in Documents, Schedule(d)
    PROVE  \A e \in Documents : Live(e)' <=> Live(e) \/ e = d
<1>1. PICK r \in Runs :
        /\ run[r].stage = "free" /\ run[r].doc = Nobody
        /\ run'[r].stage = "scheduled" /\ run'[r].doc = d
        /\ \A q \in Runs \ {r} : run'[q] = run[q]
  BY ScheduleOwn
<1> QED  BY <1>1, DocumentAssumption DEF Live

LEMMA TypeInit == Init => TypeInv
BY FreeSlot, DocumentAssumption DEF Init, TypeInv, TypeOK, Slots

LEMMA StatusType ==
    ASSUME TypeInv, NEW d \in Documents, NEW s \in Unfinished \union Terminal,
           SetStatus(d, s)
    PROVE  status' \in [Documents -> Unfinished \union Terminal \union {"absent"}]
             /\ fresh' \subseteq Documents
BY DEF TypeInv, TypeOK, SetStatus

LEMMA PointsType ==
    ASSUME TypeInv, NEW d \in Documents, DeletePoints(d)
    PROVE  points' \in [Documents -> SUBSET AllPoints]
BY DEF TypeInv, TypeOK, DeletePoints

LEMMA CountType ==
    ASSUME TypeInv, NEW r \in Runs, run[r].doc \in Documents, NEW n \in Nat,
           PublishCount(r, n)
    PROVE  /\ status' \in [Documents -> Unfinished \union Terminal \union {"absent"}]
           /\ count' \in [Documents -> Nat]
           /\ fresh' \subseteq Documents /\ purged' \subseteq Documents
<1>1. SetStatus(run[r].doc, "indexed") /\ "indexed" \in Unfinished \union Terminal
  BY DEF PublishCount, Terminal
<1>2. count' \in [Documents -> Nat] /\ purged' \subseteq Documents
  BY DEF PublishCount, TypeInv, TypeOK
<1> QED  BY <1>1, <1>2, StatusType

LEMMA TypeStep == TypeInv /\ [Next]_vars => TypeInv'
<1> SUFFICES ASSUME TypeInv, [Next]_vars PROVE TypeInv'
  OBVIOUS
<1> USE DEF rowVars
<1>t. TypeOK /\ run \in [Runs -> Slots]
  BY DEF TypeInv
<1>s. ASSUME run' = run PROVE SlotsTyped
  BY <1>s DEF TypeInv, SlotsTyped
<1>c. ASSUME crashes < MaxCrashes, crashes' = crashes + 1
      PROVE  crashes' \in 0 .. MaxCrashes
  BY <1>c, <1>t, DocumentAssumption DEF TypeOK
<1>n. {"pending", "queued", "parsing", "chunking", "embedding", "indexed",
       "failed"} \subseteq Unfinished \union Terminal
  BY DEF Unfinished, Terminal
<1>k. ASSUME SlotsTyped,
             status' \in [Documents -> Unfinished \union Terminal \union {"absent"}],
             count' \in [Documents -> Nat],
             points' \in [Documents -> SUBSET AllPoints],
             fresh' \subseteq Documents, tasks' \subseteq Documents,
             sweep' \subseteq Documents, touching' \subseteq Documents,
             deleting' \subseteq Documents, purged' \subseteq Documents,
             crashes' \in 0 .. MaxCrashes
      PROVE  TypeInv'
  BY <1>k DEF SlotsTyped, TypeInv, TypeOK, Slots
<1>1. ASSUME NEW d \in Documents, Api(d) PROVE TypeInv'
  <2>1. CASE Register(d)
    BY <1>t, <1>s, <1>n, <1>k, <2>1 DEF Register, UpsertPending, TypeOK
  <2>2. CASE RunTask(d)
    <3>1. SlotsTyped
      BY <1>s, <2>2, ScheduleOwn DEF RunTask
    <3> QED  BY <1>t, <1>n, <1>k, <2>2, <3>1, StatusType DEF RunTask, TypeOK
  <2>3. CASE Retry(d)
    BY <1>t, <1>s, <1>n, <1>k, <2>3, StatusType DEF Retry, TypeOK
  <2>4. CASE DeleteVectors(d)
    BY <1>t, <1>s, <1>k, <2>4, PointsType DEF DeleteVectors, TypeOK
  <2>5. CASE DeleteRow(d)
    BY <1>t, <1>s, <1>k, <2>5 DEF DeleteRow, TypeOK
  <2> QED  BY <1>1, <2>1, <2>2, <2>3, <2>4, <2>5 DEF Api
<1>2. ASSUME NEW d \in Documents, Sweep(d) PROVE TypeInv'
  <2>1. CASE Age(d) \/ SweepSkip(d)
    BY <1>t, <1>s, <1>k, <2>1 DEF Age, SweepSkip, TypeOK
  <2>2. CASE SweepEnqueue(d)
    <3>1. SlotsTyped
      BY <1>s, <2>2, ScheduleOwn DEF SweepEnqueue
    <3> QED  BY <1>t, <1>k, <2>2, <3>1 DEF SweepEnqueue, TypeOK
  <2>3. CASE SweepTouch(d)
    BY <1>t, <1>s, <1>n, <1>k, <2>3, StatusType DEF SweepTouch, TypeOK
  <2> QED  BY <1>2, <2>1, <2>2, <2>3 DEF Sweep
<1>3. CASE SweepSelect
  BY <1>t, <1>s, <1>k, <1>3 DEF SweepSelect, Stale, TypeOK
<1>4. CASE ApiDies
  BY <1>t, <1>s, <1>c, <1>k, <1>4 DEF ApiDies, TypeOK
<1>5. ASSUME NEW r \in Runs, Proceed(r) \/ EmbedFails(r) \/ RunDies(r)
      PROVE  TypeInv'
  <2>r. SlotsTyped /\ run[r].stage # "free" /\ run[r].doc \in Documents
        /\ run[r].made \in Nat
    BY <1>5, <1>t, RunMoves DEF Moves, Slots
  <2>1. CASE StartRun(r)
    BY <1>t, <1>k, <2>r, <2>1 DEF StartRun, TypeOK
  <2>2. CASE Parse(r) \/ Chunk(r) \/ Embed(r) \/ Fail(r)
    <3>1. PICK s \in {"parsing", "chunking", "embedding", "failed"} :
            SetStatus(run[r].doc, s)
      BY <2>2 DEF Parse, Chunk, Embed, Fail
    <3>2. UNCHANGED <<count, points, tasks, sweep, touching, deleting, crashes,
                      purged>>
      BY <2>2 DEF Parse, Chunk, Embed, Fail
    <3> QED  BY <1>t, <1>n, <1>k, <2>r, <3>1, <3>2, StatusType DEF TypeOK
  <2>3. CASE EmbedNothing(r) \/ Complete(r)
    <3>1. PICK n \in Nat : PublishCount(r, n)
      BY <2>3, <2>r DEF EmbedNothing, Complete
    <3>2. UNCHANGED <<points, tasks, sweep, touching, deleting, crashes>>
      BY <2>3 DEF EmbedNothing, Complete
    <3> QED  BY <1>t, <1>k, <2>r, <3>1, <3>2, CountType DEF TypeOK
  <2>4. CASE Clear(r)
    BY <1>t, <1>k, <2>r, <2>4, PointsType DEF Clear, TypeOK
  <2>5. CASE Upsert(r)
    <3>1. 1 .. run[r].made \subseteq AllPoints
      BY <2>5, <2>r, YieldsAreNumbers DEF Upsert, At, TypeInv, SlotOK
    <3>2. points' \in [Documents -> SUBSET AllPoints]
      BY <1>t, <2>5, <2>r, <3>1 DEF Upsert, TypeOK
    <3> QED  BY <1>t, <1>k, <2>r, <2>5, <3>2 DEF Upsert, TypeOK
  <2>6. CASE EmbedFails(r)
    BY <1>t, <1>k, <2>r, <2>6 DEF EmbedFails, TypeOK
  <2>7. CASE RunDies(r)
    BY <1>t, <1>c, <1>k, <2>r, <2>7 DEF RunDies, TypeOK
  <2> QED
    BY <1>5, <2>1, <2>2, <2>3, <2>4, <2>5, <2>6, <2>7 DEF Proceed
<1>6. CASE UNCHANGED vars
  BY <1>t, <1>s, <1>k, <1>6 DEF vars, TypeOK
<1> QED
  BY <1>1, <1>2, <1>3, <1>4, <1>5, <1>6 DEF Next

(* TypeOK: whatever the surroundings do, every variable keeps its type; in *)
(* particular no run goes past its last retry, and the index holds no      *)
(* chunk that no parse of the document could give.                         *)
THEOREM TypeCorrect == Spec => []TypeOK
<1>1. TypeInv => TypeOK
  BY DEF TypeInv
<1> QED  BY <1>1, TypeInit, TypeStep, PTL DEF Spec

LEMMA TypeInvariant == Spec => []TypeInv
BY TypeInit, TypeStep, PTL DEF Spec

-----------------------------------------------------------------------------
(* Whose document a step is about.                                         *)

(* What the model holds about document e is what it was.                   *)
Untouched(e) ==
    /\ status'[e] = status[e] /\ count'[e] = count[e]
    /\ points'[e] = points[e]
    /\ (e \in fresh') <=> (e \in fresh)
    /\ (e \in tasks') <=> (e \in tasks)
    /\ (e \in deleting') <=> (e \in deleting)
    /\ (e \in purged') <=> (e \in purged)

(* The API and the reconciler each change one document a step.             *)
LEMMA AboutOneDocument ==
    ASSUME TypeInv, NEW d \in Documents, Api(d) \/ Sweep(d),
           NEW e \in Documents \ {d}
    PROVE  Untouched(e)
<1> USE DEF rowVars, Untouched, TypeOK, TypeInv, SetStatus
<1>1. CASE Api(d)
  BY <1>1 DEF Api, Register, UpsertPending, RunTask, Retry, DeleteVectors,
              DeletePoints, DeleteRow
<1>2. CASE Sweep(d)
  BY <1>2 DEF Sweep, Age, SweepEnqueue, SweepSkip, SweepTouch
<1> QED  BY <1>1, <1>2

(* Only a background task and the reconciler take a slot.                  *)
LEMMA SlotsAlone ==
    ASSUME NEW d \in Documents, Api(d) \/ Sweep(d)
    PROVE  run' = run \/ (Schedule(d) /\ (RunTask(d) \/ SweepEnqueue(d)))
BY DEF Api, Register, RunTask, Retry, DeleteVectors, DeleteRow, Sweep, Age,
       SweepEnqueue, SweepSkip, SweepTouch, rowVars

(* A run changes what is held about its own document, and no row comes or  *)
(* goes by it; it takes up no other document.                              *)
LEMMA AboutItsDocument ==
    ASSUME TypeInv, NEW r \in Runs, Proceed(r) \/ EmbedFails(r) \/ RunDies(r)
    PROVE  /\ run[r].doc \in Documents
           /\ \A e \in Documents \ {run[r].doc} : Untouched(e)
           /\ UNCHANGED <<tasks, sweep, touching, deleting>>
           /\ \A e \in Documents : Present(e)' <=> Present(e)
           /\ \A e \in Documents : Live(e)' => Live(e)
<1> USE DEF rowVars
<1>t. TypeOK /\ Moves(r) /\ run[r].doc \in Documents
  BY RunMoves DEF TypeInv
<1> DEFINE d == run[r].doc
           Own == /\ \A e \in Documents \ {d} : Untouched(e)
                  /\ UNCHANGED <<tasks, sweep, touching, deleting>>
                  /\ \A e \in Documents : Present(e)' <=> Present(e)
<1>1. Own
  <2> USE <1>t DEF Untouched, TypeOK, Present, Unfinished, Terminal
  <2>1. CASE StartRun(r) \/ Parse(r) \/ Chunk(r) \/ Embed(r)
    BY <2>1 DEF StartRun, Parse, Chunk, Embed, SetStatus
  <2>2. CASE EmbedNothing(r) \/ Complete(r)
    BY <2>2 DEF EmbedNothing, Complete, PublishCount, SetStatus
  <2>3. CASE Clear(r) \/ Upsert(r)
    BY <2>3 DEF Clear, Upsert, DeletePoints
  <2>4. CASE Fail(r) \/ EmbedFails(r) \/ RunDies(r)
    BY <2>4 DEF Fail, EmbedFails, RunDies, SetStatus
  <2> QED  BY <2>1, <2>2, <2>3, <2>4 DEF Proceed
<1>2. ASSUME NEW e \in Documents, Live(e)' PROVE Live(e)
  <2>1. PICK q \in Runs : run'[q].doc = e
    BY <1>2 DEF Live
  <2>2. run'[q].stage = "free" => run'[q].doc = Nobody
    BY <1>t DEF Moves, SlotsTyped, SlotOK
  <2>3. run'[q].doc = run[q].doc
    BY <1>t, <2>1, <2>2, DocumentAssumption DEF Moves
  <2> QED  BY <2>1, <2>3 DEF Live
<1> QED  BY <1>t, <1>1, <1>2

-----------------------------------------------------------------------------
(* Who has a document, while users leave alone what is in flight and no    *)
(* row goes stale under whoever has it.                                    *)

Quiet == {"busy", "slow"} \cap Surroundings = {}

Idle(d) == ~ Live(d) /\ d \notin tasks \union sweep \union touching

(* Nobody works on a document whose row is gone, or whose delete has       *)
(* begun; what a user deletes has come to an end.                          *)
LeftAlone(d) ==
    /\ ~ Present(d) => Idle(d)
    /\ d \in deleting => Idle(d) /\ status[d] \in Terminal

(* A document is with its background task, with the reconciler or with one *)
(* run; only between the reconciler's enqueue and its touch may a row that *)
(* has a run look as if it had none.                                       *)
HandedOn(d) ==
    /\ d \in tasks => /\ ~ Live(d) /\ d \notin sweep \union touching
                      /\ d \in fresh /\ status[d] = "pending"
    /\ d \in sweep => /\ ~ Live(d) /\ d \notin touching
                      /\ d \notin fresh /\ status[d] \in Unfinished
    /\ Live(d) /\ d \notin fresh => d \in touching

RunsApart ==
    \A r, q \in Runs :
        r # q /\ run[r].doc = run[q].doc => run[r].doc = Nobody

OneTouched == \A d, e \in touching : d = e

HandsInv ==
    /\ \A d \in Documents : LeftAlone(d) /\ HandedOn(d)
    /\ RunsApart /\ OneTouched

LEMMA HandsInit == Init => HandsInv
BY DocumentAssumption DEF Init, HandsInv, LeftAlone, HandedOn, Idle, RunsApart,
                          OneTouched, Live, Present, Free

LEMMA HandsStep ==
    ASSUME Quiet, TypeInv, HandsInv, [Next]_vars
    PROVE  HandsInv'
<1> USE DEF rowVars
<1>t. TypeOK
  BY DEF TypeInv
<1>h. \A d \in Documents : LeftAlone(d) /\ HandedOn(d)
  BY DEF HandsInv
<1>s. "slow" \notin Surroundings /\ "busy" \notin Surroundings
  BY DEF Quiet
<1>d. /\ {"pending", "queued"} \subseteq Unfinished
      /\ Unfinished \cap Terminal = {} /\ "absent" \notin Unfinished
      /\ "absent" \notin Terminal /\ "failed" \notin Unfinished
  BY DEF Terminal, Unfinished
<1>l. ASSUME run' = run
      PROVE  RunsApart' /\ \A e \in Documents : Live(e)' = Live(e)
  BY <1>l DEF Live, HandsInv, RunsApart
<1>k. ASSUME RunsApart', OneTouched',
             \A e \in Documents : LeftAlone(e)' /\ HandedOn(e)'
      PROVE  HandsInv'
  BY <1>k DEF HandsInv
<1>o. ASSUME NEW e \in Documents, Untouched(e), Live(e)' => Live(e),
             (e \in sweep') <=> (e \in sweep),
             (e \in touching') <=> (e \in touching)
      PROVE  LeftAlone(e)' /\ HandedOn(e)'
  BY <1>o, <1>h DEF LeftAlone, HandedOn, Idle, Present, Untouched
<1>a. ASSUME NEW d \in Documents, Schedule(d), ~ Live(d)
      PROVE  RunsApart' /\ \A e \in Documents : Live(e)' <=> Live(e) \/ e = d
  <2>1. PICK r \in Runs :
          /\ run[r].stage = "free" /\ run[r].doc = Nobody
          /\ run'[r].stage = "scheduled" /\ run'[r].doc = d
          /\ \A q \in Runs \ {r} : run'[q] = run[q]
    BY <1>a, ScheduleOwn
  <2>2. run'[r].doc = d /\ \A q \in Runs \ {r} : run'[q].doc = run[q].doc
    BY <2>1
  <2>3. \A q \in Runs : run[q].doc # d
    BY <1>a DEF Live
  <2>4. RunsApart
    BY DEF HandsInv
  <2>5. RunsApart'
    BY ONLY <2>2, <2>3, <2>4 DEF RunsApart
  <2> QED  BY <1>a, <2>5, ScheduleLive
<1>1. ASSUME NEW d \in Documents,
             Register(d) \/ Retry(d) \/ DeleteVectors(d) \/ DeleteRow(d)
      PROVE  HandsInv'
  <2>1. run' = run /\ UNCHANGED <<sweep, touching>>
    BY <1>1 DEF Register, Retry, DeleteVectors, DeleteRow
  <2>2. Idle(d)
    BY <1>1, <1>h, <1>s DEF Register, Retry, DeleteVectors, DeleteRow, Calm,
                            Idle, LeftAlone
  <2>3. ASSUME NEW e \in Documents \ {d} PROVE LeftAlone(e)' /\ HandedOn(e)'
    BY <1>1, <1>l, <1>o, <2>1, AboutOneDocument DEF Api
  <2>4. LeftAlone(d)' /\ HandedOn(d)'
    <3>1. CASE Register(d)
      BY <3>1, <1>t, <1>d, <1>l, <2>1, <2>2
         DEF Register, UpsertPending, Calm, LeftAlone, HandedOn, Idle, Present,
             TypeOK
    <3>2. CASE Retry(d)
      BY <3>2, <1>t, <1>d, <1>l, <1>s, <2>1, <2>2
         DEF Retry, SetStatus, Calm, LeftAlone, HandedOn, Idle, Present, TypeOK
    <3>3. CASE DeleteVectors(d)
      BY <3>3, <1>l, <1>s, <2>1, <2>2
         DEF DeleteVectors, Calm, LeftAlone, HandedOn, Idle, Present
    <3>4. CASE DeleteRow(d)
      BY <3>4, <1>l, <2>1, <2>2 DEF DeleteRow, LeftAlone, HandedOn, Idle
    <3> QED  BY <1>1, <3>1, <3>2, <3>3, <3>4
  <2> QED  BY <1>k, <1>l, <2>1, <2>3, <2>4 DEF OneTouched, HandsInv
<1>2. ASSUME NEW d \in Documents, RunTask(d) PROVE HandsInv'
  <2>0. /\ d \in tasks /\ d \notin tasks' /\ UNCHANGED <<sweep, touching>>
        /\ ~ Live(d) /\ d \in fresh /\ status[d] = "pending"
        /\ d \notin sweep \union touching /\ Present(d) /\ d \notin deleting
    BY <1>2, <1>h DEF RunTask, HandedOn, LeftAlone, Idle, Present
  <2>1. RunsApart' /\ \A e \in Documents \ {d} : Live(e)' <=> Live(e)
    BY <1>2, <1>a, <1>l, <2>0 DEF RunTask
  <2>2. ASSUME NEW e \in Documents \ {d} PROVE LeftAlone(e)' /\ HandedOn(e)'
    BY <1>2, <1>o, <2>0, <2>1, AboutOneDocument DEF Api
  <2>3. Present(d)' /\ d \in fresh' /\ d \notin deleting'
    BY <1>2, <1>t, <2>0 DEF RunTask, SetStatus, Present, TypeOK
  <2> QED  BY <1>k, <2>0, <2>1, <2>2, <2>3
           DEF LeftAlone, HandedOn, OneTouched, HandsInv
<1>3. ASSUME NEW d \in Documents, Age(d) \/ SweepSkip(d) PROVE HandsInv'
  <2>1. run' = run /\ UNCHANGED <<status, tasks, touching, deleting>>
    BY <1>3 DEF Age, SweepSkip
  <2>2. \A e \in Documents : LeftAlone(e)' /\ HandedOn(e)'
    BY <1>3, <1>h, <1>l, <1>s, <2>1
       DEF Age, SweepSkip, Calm, LeftAlone, HandedOn, Idle, Present
  <2> QED  BY <1>k, <1>l, <2>1, <2>2 DEF OneTouched, HandsInv
<1>4. ASSUME NEW d \in Documents, SweepEnqueue(d) PROVE HandsInv'
  <2>0. /\ d \in sweep /\ touching = {} /\ sweep' = sweep \ {d}
        /\ touching' = {d} /\ ~ Live(d) /\ Present(d) /\ d \notin tasks
        /\ d \notin deleting /\ UNCHANGED <<status, fresh, tasks, deleting>>
    BY <1>4, <1>h DEF SweepEnqueue, HandedOn, LeftAlone, Idle
  <2>1. RunsApart' /\ \A e \in Documents \ {d} : Live(e)' <=> Live(e)
    BY <1>4, <1>a, <1>l, <2>0 DEF SweepEnqueue
  <2>2. \A e \in Documents : LeftAlone(e)' /\ HandedOn(e)'
    BY <1>h, <2>0, <2>1 DEF LeftAlone, HandedOn, Idle, Present
  <2> QED  BY <1>k, <2>0, <2>1, <2>2 DEF OneTouched
<1>5. ASSUME NEW d \in Documents, SweepTouch(d) PROVE HandsInv'
  <2>1. run' = run /\ d \in touching /\ touching' = {} /\ Present(d)
        /\ d \notin tasks /\ d \notin sweep /\ d \notin deleting
        /\ UNCHANGED <<tasks, sweep, deleting>>
    BY <1>5, <1>h DEF SweepTouch, LeftAlone, HandedOn, Idle
  <2>2. \A e \in Documents \ {d} : e \notin touching
    BY <2>1 DEF HandsInv, OneTouched
  <2>3. ASSUME NEW e \in Documents \ {d} PROVE LeftAlone(e)' /\ HandedOn(e)'
    BY <1>5, <1>l, <1>o, <2>1, <2>2, AboutOneDocument DEF Sweep
  <2>4. LeftAlone(d)' /\ HandedOn(d)'
    BY <1>5, <1>t, <2>1
       DEF SweepTouch, SetStatus, LeftAlone, HandedOn, Present, TypeOK
  <2> QED  BY <1>k, <1>l, <2>1, <2>3, <2>4 DEF OneTouched
<1>6. CASE SweepSelect
  <2>1. /\ run' = run /\ UNCHANGED <<status, fresh, tasks, deleting>>
        /\ touching = {} /\ touching' = {} /\ sweep' = Stale
    BY <1>6 DEF SweepSelect
  <2>2. \A e \in Documents : LeftAlone(e)' /\ HandedOn(e)'
    BY <1>h, <1>l, <1>d, <2>1
       DEF Stale, LeftAlone, HandedOn, Idle, Present
  <2> QED  BY <1>k, <1>l, <2>1, <2>2 DEF OneTouched
<1>7. CASE ApiDies
  <2>1. /\ run' = run /\ UNCHANGED <<status, fresh>> /\ touching = {}
        /\ tasks' = {} /\ sweep' = {} /\ touching' = {} /\ deleting' = {}
    BY <1>7, <1>s DEF ApiDies
  <2>2. \A e \in Documents : LeftAlone(e)' /\ HandedOn(e)'
    BY <1>h, <1>l, <2>1 DEF LeftAlone, HandedOn, Idle, Present
  <2> QED  BY <1>k, <1>l, <2>1, <2>2 DEF OneTouched
<1>8. ASSUME NEW r \in Runs, Proceed(r) \/ EmbedFails(r) \/ RunDies(r)
      PROVE  HandsInv'
  <2>0. PICK d \in Documents : d = run[r].doc /\ Live(d)
    BY <1>8, AboutItsDocument DEF Live
  <2>1. UNCHANGED <<tasks, sweep, touching, deleting>>
        /\ (\A e \in Documents : Live(e)' => Live(e))
        /\ Present(d) /\ Present(d)' /\ d \notin deleting
        /\ d \notin tasks /\ d \notin sweep
    BY <1>8, <1>h, <2>0, AboutItsDocument DEF LeftAlone, HandedOn, Idle
  <2>2. RunsApart'
    <3>1. \A q \in Runs : run'[q].doc = run[q].doc \/ run'[q].doc = Nobody
      BY <1>8, RunMoves DEF Moves, SlotsTyped, SlotOK
    <3>2. RunsApart
      BY DEF HandsInv
    <3> QED  BY ONLY <3>1, <3>2 DEF RunsApart
  <2>3. ASSUME NEW e \in Documents \ {d} PROVE LeftAlone(e)' /\ HandedOn(e)'
    BY <1>8, <1>o, <2>0, <2>1, AboutItsDocument
  <2>4. d \in fresh => d \in fresh'
    BY <1>8, <2>0 DEF Proceed, StartRun, Parse, Chunk, EmbedNothing, Embed,
       Clear, Upsert, Complete, PublishCount, Fail, EmbedFails, RunDies,
       SetStatus
  <2>5. LeftAlone(d)' /\ HandedOn(d)'
    BY <1>h, <2>0, <2>1, <2>4 DEF LeftAlone, HandedOn
  <2> QED  BY <1>k, <2>1, <2>2, <2>3, <2>5 DEF OneTouched, HandsInv
<1>9. CASE UNCHANGED vars
  <2>1. \A e \in Documents : Untouched(e)
    BY <1>9 DEF vars, Untouched
  <2> QED  BY <1>9, <1>k, <1>l, <1>o, <2>1 DEF vars, OneTouched, HandsInv
<1> QED
  BY <1>1, <1>2, <1>3, <1>4, <1>5, <1>6, <1>7, <1>8, <1>9
     DEF Next, Api, Sweep

-----------------------------------------------------------------------------
(* What is stored, while Qdrant deletes what it is asked to.               *)

QuietInside == Quiet /\ "qdrant" \notin Surroundings

(* A run works on a row that has not come to an end, on a cleared index    *)
(* when it upserts, and it publishes when its chunks and no others are in. *)
RunTrue(r) ==
    LET d == run[r].doc IN
    /\ ~ At(r, "free") => status[d] \in Unfinished
    /\ At(r, "upsert") => points[d] = {}
    /\ At(r, "complete") => points[d] = 1 .. run[r].made

(* What a delete has behind it is gone, and so is what has no row.         *)
Gone(d) ==
    /\ d \in deleting => d \in purged /\ points[d] = {}
    /\ ~ Present(d) => points[d] = {}

(* Every parse of every document yields a chunk.                           *)
NoEmptyParse == \A d \in Documents : 0 \notin Yields[d]

Counted(d) ==
    NoEmptyParse =>
        (status[d] = "indexed" /\ d \notin purged => points[d] = 1 .. count[d])

StoreInv ==
    /\ \A r \in Runs : RunTrue(r)
    /\ \A d \in Documents : Gone(d) /\ Counted(d)

LEMMA StoreInit == Init => StoreInv
BY DEF Init, StoreInv, RunTrue, Gone, Counted, Present, At, Free

(* Of a document that a step does not touch, all this stays true.          *)
LEMMA StoreKept ==
    ASSUME StoreInv, NEW e \in Documents, Untouched(e)
    PROVE  /\ Gone(e)' /\ Counted(e)'
           /\ \A r \in Runs : run[r].doc = e /\ run'[r] = run[r] => RunTrue(r)'
BY DEF StoreInv, Untouched, Gone, Counted, RunTrue, Present, At

(* A free slot says nothing.                                               *)
LEMMA FreeTrue ==
    ASSUME NEW r \in Runs, run'[r].stage = "free"
    PROVE  RunTrue(r)'
BY DEF RunTrue, At

(* A step of the API or the reconciler about d.                            *)
LEMMA StoreStepApi ==
    ASSUME QuietInside, TypeInv, HandsInv, StoreInv,
           NEW d \in Documents, Api(d) \/ Sweep(d)
    PROVE  StoreInv'
<1> USE DEF rowVars
<1>t. TypeOK
  BY DEF TypeInv
<1>s. /\ "slow" \notin Surroundings /\ "busy" \notin Surroundings
      /\ "qdrant" \notin Surroundings
  BY DEF QuietInside, Quiet
<1>d. /\ {"pending", "queued"} \subseteq Unfinished
      /\ "indexed" \notin Unfinished /\ "absent" \notin Unfinished
      /\ "absent" \notin Terminal
  BY DEF Terminal, Unfinished
<1>v. \A r \in Runs : run[r].stage = "free" \/ run[r].doc \in Documents
  BY DEF TypeInv, SlotOK
<1>g. Gone(d) /\ Counted(d) /\ LeftAlone(d) /\ HandedOn(d)
  BY DEF StoreInv, HandsInv
<1>k. ASSUME Gone(d)', Counted(d)',
             \A r \in Runs : run[r].doc = d \/ run'[r] # run[r] => RunTrue(r)'
      PROVE  StoreInv'
  <2>1. ASSUME NEW e \in Documents PROVE Gone(e)' /\ Counted(e)'
    BY <1>k, StoreKept, AboutOneDocument
  <2>2. ASSUME NEW r \in Runs PROVE RunTrue(r)'
    BY <1>k, <1>v, StoreKept, AboutOneDocument, FreeTrue
  <2> QED  BY <2>1, <2>2 DEF StoreInv
<1>i. ASSUME run' = run, ~ Live(d), Gone(d)', Counted(d)' PROVE StoreInv'
  BY <1>i, <1>k DEF Live
<1>1. ASSUME Schedule(d), ~ Live(d), status[d] \in Unfinished,
             UNCHANGED <<status, count, points, deleting, purged>>
      PROVE  StoreInv'
  <2>1. PICK r \in Runs :
          /\ run[r].stage = "free" /\ run[r].doc = Nobody
          /\ run'[r].stage = "scheduled" /\ run'[r].doc = d
          /\ \A q \in Runs \ {r} : run'[q] = run[q]
    BY <1>1, ScheduleOwn
  <2>2. RunTrue(r)'
    BY <1>1, <2>1 DEF RunTrue, At
  <2>3. Gone(d)' /\ Counted(d)'
    BY <1>1, <1>g DEF Gone, Counted, Present
  <2>4. \A q \in Runs : run[q].doc # d
    BY <1>1 DEF Live
  <2> QED  BY <1>k, <2>1, <2>2, <2>3, <2>4
<1>2. CASE Register(d) \/ Retry(d)
  <2>1. run' = run /\ ~ Live(d) /\ status'[d] = "pending"
        /\ UNCHANGED <<points, deleting, purged>>
    BY <1>2, <1>t, <1>s DEF Register, UpsertPending, Retry, SetStatus, Calm,
                            Present, TypeOK
  <2>2. Gone(d)' /\ Counted(d)'
    BY <2>1, <1>g DEF Gone, Counted, Present
  <2> QED  BY <1>i, <2>1, <2>2
<1>3. CASE RunTask(d)
  <2>1. ~ Live(d) /\ status[d] = "pending" /\ status[d] \in Unfinished
        /\ UNCHANGED <<count, points, deleting, purged>>
    BY <1>3, <1>d, <1>g DEF RunTask, HandedOn
  <2>2. CASE Schedule(d) /\ UNCHANGED rowVars
    BY <1>1, <2>1, <2>2
  <2>3. CASE SetStatus(d, "failed") /\ UNCHANGED <<count, run>>
    <3>1. status'[d] = "failed"
      BY <1>t, <2>1, <2>3 DEF SetStatus, Present, TypeOK
    <3>2. Gone(d)' /\ Counted(d)'
      BY <2>1, <3>1, <1>g DEF Gone, Counted, Present
    <3> QED  BY <1>i, <2>1, <2>3, <3>2
  <2> QED  BY <1>3, <2>2, <2>3 DEF RunTask
<1>4. CASE DeleteVectors(d)
  <2>1. /\ run' = run /\ ~ Live(d) /\ points'[d] = {}
        /\ d \in purged' /\ status' = status
    BY <1>4, <1>t, <1>s DEF DeleteVectors, DeletePoints, Calm, TypeOK
  <2> QED  BY <1>i, <2>1 DEF Gone, Counted, Present
<1>5. CASE DeleteRow(d)
  <2>1. /\ run' = run /\ ~ Live(d) /\ points'[d] = {}
        /\ status'[d] = "absent" /\ d \notin deleting'
    BY <1>5, <1>t, <1>g DEF DeleteRow, LeftAlone, Idle, Gone, TypeOK
  <2> QED  BY <1>i, <2>1 DEF Gone, Counted, Present
<1>6. CASE Age(d) \/ SweepSkip(d)
  <2>1. UNCHANGED <<status, count, points, deleting, purged, run>>
    BY <1>6 DEF Age, SweepSkip
  <2>2. \A r \in Runs : RunTrue(r)'
    BY <2>1 DEF StoreInv, RunTrue, At
  <2> QED  BY <1>k, <1>g, <2>1, <2>2 DEF Gone, Counted, Present
<1>7. CASE SweepEnqueue(d)
  <2>1. ~ Live(d) /\ status[d] \in Unfinished
        /\ UNCHANGED <<status, count, points, deleting, purged>>
    BY <1>7, <1>g DEF SweepEnqueue, HandedOn
  <2>2. CASE run' = run
    <3>1. Gone(d)' /\ Counted(d)'
      BY <2>1, <1>g DEF Gone, Counted, Present
    <3> QED  BY <1>i, <2>1, <2>2, <3>1
  <2>3. CASE Schedule(d)
    BY <1>1, <2>1, <2>3
  <2> QED  BY <1>7, <2>2, <2>3 DEF SweepEnqueue
<1>8. CASE SweepTouch(d)
  <2>1. /\ run' = run /\ status' = [status EXCEPT ![d] = "queued"]
        /\ Present(d) /\ UNCHANGED <<count, points, deleting, purged>>
    BY <1>8, <1>g DEF SweepTouch, SetStatus, LeftAlone, Idle
  <2>2. Gone(d)' /\ Counted(d)'
    BY <2>1, <1>t, <1>g DEF Gone, Counted, Present, TypeOK
  <2>3. \A r \in Runs : RunTrue(r)'
    BY <2>1, <1>t, <1>d DEF StoreInv, RunTrue, At, TypeOK
  <2> QED  BY <1>k, <2>2, <2>3
<1> QED
  BY <1>2, <1>3, <1>4, <1>5, <1>6, <1>7, <1>8 DEF Api, Sweep

(* A step of run r.                                                        *)
LEMMA StoreStepRun ==
    ASSUME QuietInside, TypeInv, HandsInv, StoreInv,
           NEW r \in Runs, Proceed(r) \/ EmbedFails(r) \/ RunDies(r)
    PROVE  StoreInv'
<1> USE DEF rowVars
<1>t. TypeOK /\ run \in [Runs -> Slots] /\ run[r] \in Slots
      /\ "qdrant" \notin Surroundings
  BY DEF TypeInv, QuietInside
<1>0. PICK d \in Documents : d = run[r].doc /\ Live(d)
  BY AboutItsDocument DEF Live
<1>p. /\ Present(d) /\ Present(d)' /\ d \notin deleting /\ d \notin deleting'
  BY <1>0, AboutItsDocument DEF HandsInv, LeftAlone, Idle
<1>n. /\ {"parsing", "chunking", "embedding"} \subseteq Unfinished
      /\ "indexed" \notin Unfinished
  BY DEF Unfinished
<1>m. Moves(r) /\ run[r].stage # "free" /\ status[d] \in Unfinished
      /\ RunTrue(r)
  BY <1>0, RunMoves DEF StoreInv, RunTrue, At
<1>k. ASSUME Counted(d)', RunTrue(r)' PROVE StoreInv'
  <2>1. Gone(d)'
    BY <1>p DEF Gone, Present
  <2>2. ASSUME NEW e \in Documents PROVE Gone(e)' /\ Counted(e)'
    BY <1>0, <1>k, <2>1, StoreKept, AboutItsDocument
  <2>3. ASSUME NEW q \in Runs \ {r} PROVE RunTrue(q)'
    <3>1. run'[q] = run[q]
      BY <1>m DEF Moves
    <3>2. CASE run[q].stage = "free"
      BY <3>1, <3>2, FreeTrue
    <3>3. CASE run[q].stage # "free"
      <4>1. run[q].doc \in Documents /\ run[q].doc # d
        BY <1>0, <3>3, DocumentAssumption
           DEF TypeInv, SlotOK, HandsInv, RunsApart
      <4> QED  BY <1>0, <3>1, <4>1, StoreKept, AboutItsDocument
    <3> QED  BY <3>2, <3>3
  <2> QED  BY <1>k, <2>2, <2>3 DEF StoreInv
<1>u. ASSUME status'[d] \in Unfinished,
             run'[r].stage \notin {"upsert", "complete"}
      PROVE  StoreInv'
  <2>1. run'[r].stage = "free" \/ run'[r].doc = d
    BY <1>0, <1>m DEF Moves
  <2> QED  BY <1>k, <1>n, <1>u, <2>1, FreeTrue DEF Counted, RunTrue, At
<1>g. ASSUME NEW stage, GoTo(r, stage)
      PROVE  run'[r].stage = stage /\ run'[r].made = run[r].made
             /\ run'[r].doc = d
  BY <1>g, <1>0, <1>t DEF GoTo, Slots
<1>1. CASE StartRun(r) \/ Parse(r) \/ Chunk(r) \/ Embed(r)
  <2>1. status'[d] \in Unfinished
    BY <1>1, <1>0, <1>m, <1>n, <1>p, <1>t
       DEF StartRun, Parse, Chunk, Embed, SetStatus, TypeOK
  <2>2. run'[r].stage \in {"parse", "chunk", "embed", "clear", "fail"}
    <3>1. CASE StartRun(r) \/ Embed(r)
      BY <3>1, <1>g DEF StartRun, Embed
    <3>2. CASE Parse(r)
      <4>1. ParseRetries \in 0 .. (ParseRetries + EmbedRetries)
        BY DocumentAssumption
      <4> QED  BY <3>2, <4>1, <1>m, ParsedMoves, RaiseMoves DEF Parse
    <3>3. CASE Chunk(r)
      BY <3>3, <1>m, ChunkedMoves DEF Chunk
    <3> QED  BY <1>1, <3>1, <3>2, <3>3
  <2> QED  BY <1>u, <2>1, <2>2
<1>2. CASE EmbedNothing(r)
  <2>1. run[r].made \in Yields[d] /\ run[r].made = 0
    BY <1>2, <1>0 DEF EmbedNothing, At, TypeInv, SlotOK
  <2>2. ~ NoEmptyParse
    BY <2>1 DEF NoEmptyParse
  <2>3. run'[r].stage = "free"
    BY <1>2, EndMoves DEF EmbedNothing, PublishCount
  <2> QED  BY <1>k, <2>2, <2>3, FreeTrue DEF Counted
<1>3. CASE Clear(r)
  <2>1. /\ points'[d] = {} /\ status'[d] \in Unfinished
        /\ run'[r].stage = "upsert" /\ run'[r].doc = d
    BY <1>3, <1>0, <1>g, <1>m, <1>t DEF Clear, DeletePoints, TypeOK
  <2> QED  BY <1>k, <1>n, <2>1 DEF Counted, RunTrue, At
<1>4. CASE Upsert(r)
  <2>1. points[d] = {}
    BY <1>4, <1>0, <1>m DEF Upsert, RunTrue, At
  <2>2. /\ points'[d] = 1 .. run'[r].made /\ status'[d] \in Unfinished
        /\ run'[r].stage = "complete" /\ run'[r].doc = d
    BY <1>4, <1>0, <1>g, <1>m, <1>t, <2>1 DEF Upsert, TypeOK
  <2> QED  BY <1>k, <1>n, <2>2 DEF Counted, RunTrue, At
<1>5. CASE Complete(r)
  <2>1. points[d] = 1 .. run[r].made
    BY <1>5, <1>0, <1>m DEF Complete, RunTrue, At
  <2>2. points' = points /\ count'[d] = run[r].made /\ run'[r].stage = "free"
    BY <1>5, <1>0, <1>p, <1>t, EndMoves DEF Complete, PublishCount, TypeOK
  <2> QED  BY <1>k, <2>1, <2>2, FreeTrue DEF Counted
<1>6. CASE EmbedFails(r)
  <2>1. run'[r].stage \in {"embed", "fail"}
    <3>1. EmbedRetries \in 0 .. (ParseRetries + EmbedRetries)
      BY DocumentAssumption
    <3> QED  BY <1>6, <1>m, <3>1, RaiseMoves DEF EmbedFails
  <2> QED  BY <1>6, <1>m, <1>u, <2>1 DEF EmbedFails
<1>7. CASE Fail(r) \/ RunDies(r)
  <2>1. run'[r].stage = "free" /\ status'[d] \in {status[d], "failed"}
    BY <1>7, <1>0, <1>t, EndMoves DEF Fail, RunDies, SetStatus, TypeOK
  <2> QED  BY <1>k, <1>m, <1>n, <2>1, FreeTrue DEF Counted
<1> QED
  BY <1>1, <1>2, <1>3, <1>4, <1>5, <1>6, <1>7 DEF Proceed

LEMMA StoreStep ==
    ASSUME QuietInside, TypeInv, HandsInv, StoreInv, [Next]_vars
    PROVE  StoreInv'
<1>1. CASE SweepSelect \/ UNCHANGED vars
  <2>1. UNCHANGED <<status, count, points, run, deleting, purged>>
    BY <1>1 DEF SweepSelect, vars, rowVars
  <2> QED  BY <2>1 DEF StoreInv, RunTrue, Gone, Counted, Present, At
<1>2. CASE ApiDies
  <2>1. UNCHANGED <<status, count, points, run, purged>> /\ deleting' = {}
    BY <1>2 DEF ApiDies, rowVars
  <2> QED  BY <2>1 DEF StoreInv, RunTrue, Gone, Counted, Present, At
<1> QED  BY <1>1, <1>2, StoreStepApi, StoreStepRun DEF Next

LEMMA QuietInvariant ==
    QuietInside => (Spec => [](TypeInv /\ HandsInv /\ StoreInv))
<1> SUFFICES ASSUME QuietInside PROVE Spec => [](TypeInv /\ HandsInv /\ StoreInv)
  OBVIOUS
<1>1. TypeInv /\ HandsInv /\ [Next]_vars => HandsInv'
  BY HandsStep DEF QuietInside
<1>2. TypeInv /\ HandsInv /\ StoreInv /\ [Next]_vars => StoreInv'
  BY StoreStep
<1> QED  BY <1>1, <1>2, TypeInvariant, HandsInit, StoreInit, PTL DEF Spec

(* IndexedCountsPoints: in quiet surroundings in which Qdrant deletes what *)
(* it is asked to, and while every parse yields a chunk, the count of an   *)
(* indexed row is that of the chunks that can be found, through retries of *)
(* tasks, crashes of runs and of the API, refused schedules, re-enqueues   *)
(* and deletes that are interrupted, for any number of documents and runs. *)
THEOREM IndexedCountsPointsHolds ==
    QuietInside /\ NoEmptyParse => (Spec => []IndexedCountsPoints)
<1> SUFFICES ASSUME QuietInside, NoEmptyParse
             PROVE  Spec => []IndexedCountsPoints
  OBVIOUS
<1>1. StoreInv => IndexedCountsPoints
  BY DEF StoreInv, Counted, IndexedCountsPoints
<1> QED  BY <1>1, QuietInvariant, PTL

(* NothingLeftBehind: in the same surroundings, empty parses or not, the   *)
(* index holds no chunk of a document without a row.                       *)
THEOREM NothingLeftBehindHolds ==
    QuietInside => (Spec => []NothingLeftBehind)
<1> SUFFICES ASSUME QuietInside PROVE Spec => []NothingLeftBehind
  OBVIOUS
<1>1. StoreInv => NothingLeftBehind
  BY DEF StoreInv, Gone, Present, NothingLeftBehind
<1> QED  BY <1>1, QuietInvariant, PTL

-----------------------------------------------------------------------------
(* Ingest implements SourceLifecycle.                                      *)

(* The abstract variables, as the refinement mapping of DocumentIngest has *)
(* them.                                                                   *)
PhaseNow ==
    [d \in Documents |->
       CASE status[d] = "absent"  -> "absent"
         [] status[d] = "indexed" -> "indexed"
         [] status[d] \in {"failed", "skipped"} -> "ended"
         [] OTHER -> "open"]
SearchableNow == {d \in Documents : \E n \in Yields[d] : points[d] = 1 .. n}
TracesNow == {d \in Documents : points[d] # {}}

LEMMA PhaseCases ==
    ASSUME NEW d \in Documents
    PROVE  /\ status[d] \in Unfinished => PhaseNow[d] = "open"
           /\ status[d] \in Terminal => PhaseNow[d] \in {"indexed", "ended"}
           /\ status[d] = "indexed" => PhaseNow[d] = "indexed"
           /\ status[d] = "failed" => PhaseNow[d] = "ended"
           /\ status[d] = "absent" => PhaseNow[d] = "absent"
BY DEF PhaseNow, Terminal, Unfinished

(* A step about d leaves the rest of the abstract state alone, and all of  *)
(* it that comes from what the step leaves alone.                          *)
LEMMA AbstractKept ==
    ASSUME NEW d \in Documents, \A e \in Documents \ {d} : Untouched(e)
    PROVE  /\ PhaseNow' = [PhaseNow EXCEPT ![d] = PhaseNow'[d]]
           /\ SearchableNow' \ {d} = SearchableNow \ {d}
           /\ TracesNow' \ {d} = TracesNow \ {d}
           /\ status' = status => PhaseNow' = PhaseNow
           /\ points' = points
                => UNCHANGED <<SearchableNow, TracesNow>>
<1>1. \A e \in Documents \ {d} : status'[e] = status[e] /\ points'[e] = points[e]
  BY DEF Untouched
<1>2. PhaseNow' = [PhaseNow EXCEPT ![d] = PhaseNow'[d]]
  BY <1>1 DEF PhaseNow
<1>3. SearchableNow' \ {d} = SearchableNow \ {d}
  BY <1>1 DEF SearchableNow
<1>4. TracesNow' \ {d} = TracesNow \ {d}
  BY <1>1 DEF TracesNow
<1>5. (status' = status => PhaseNow' = PhaseNow)
      /\ (points' = points => UNCHANGED <<SearchableNow, TracesNow>>)
  BY DEF PhaseNow, SearchableNow, TracesNow
<1> QED  BY <1>2, <1>3, <1>4, <1>5

(* The abstract actions in terms of the abstract variables.                *)
LEMMA AbstractActions ==
    ASSUME NEW d \in Documents
    PROVE  /\ /\ PhaseNow' = [PhaseNow EXCEPT ![d] = "open"]
              /\ UNCHANGED <<SearchableNow, TracesNow, purged>>
              => Lifecycle!Next
           /\ /\ PhaseNow[d] = "open" /\ UNCHANGED <<PhaseNow, purged>>
              /\ SearchableNow' \ {d} = SearchableNow \ {d}
              /\ TracesNow' \ {d} = TracesNow \ {d}
              => Lifecycle!Next
           /\ /\ PhaseNow[d] = "open" /\ d \in SearchableNow
              /\ PhaseNow' = [PhaseNow EXCEPT ![d] = "indexed"]
              /\ purged' = purged \ {d}
              /\ UNCHANGED <<SearchableNow, TracesNow>>
              => Lifecycle!Next
           /\ /\ PhaseNow[d] = "open"
              /\ PhaseNow' = [PhaseNow EXCEPT ![d] = "ended"]
              /\ UNCHANGED <<SearchableNow, TracesNow, purged>>
              => Lifecycle!Next
           /\ /\ PhaseNow[d] \in {"indexed", "ended"}
              /\ SearchableNow' \in {SearchableNow, SearchableNow \ {d}}
              /\ TracesNow' \in {TracesNow, TracesNow \ {d}}
              /\ purged' = purged \union {d} /\ UNCHANGED PhaseNow
              => Lifecycle!Next
           /\ /\ d \in purged /\ d \notin TracesNow
              /\ PhaseNow' = [PhaseNow EXCEPT ![d] = "absent"]
              /\ purged' = purged \ {d}
              /\ UNCHANGED <<SearchableNow, TracesNow>>
              => Lifecycle!Next
<1>1. Lifecycle!Open(d) \/ Lifecycle!Work(d) \/ Lifecycle!Publish(d)
        \/ Lifecycle!GiveUp(d) \/ Lifecycle!Withdraw(d) \/ Lifecycle!Remove(d)
      => Lifecycle!Next
  BY DEF Lifecycle!Next
<1> QED
  BY <1>1 DEF PhaseNow, SearchableNow, TracesNow, Lifecycle!Open,
     Lifecycle!Work, Lifecycle!OnlyAbout, Lifecycle!Publish, Lifecycle!GiveUp,
     Lifecycle!Withdraw, Lifecycle!Remove

LEMMA AbstractStutter ==
    UNCHANGED <<status, points, purged>> => UNCHANGED Lifecycle!vars
BY DEF Lifecycle!vars

(* Nothing is searchable without points, since no parse is empty.          *)
LEMMA EmptyIsNotSearchable ==
    ASSUME NoEmptyParse, NEW d \in Documents, NEW n \in Yields[d]
    PROVE  {} # 1 .. n
<1>1. n \in Nat /\ n # 0
  BY YieldsAreNumbers DEF NoEmptyParse
<1>2. 1 \in 1 .. n
  BY <1>1
<1> QED  BY <1>2

LEMMA AbstractInit ==
    ASSUME NoEmptyParse, Init
    PROVE  Lifecycle!Init
BY EmptyIsNotSearchable DEF Init, Lifecycle!Init

QuietInv == TypeInv /\ HandsInv /\ StoreInv

(* A step of the concrete specification is a step of the abstract one.     *)
LEMMA RefineApi ==
    ASSUME QuietInside, NoEmptyParse, QuietInv,
           NEW d \in Documents, Api(d) \/ Sweep(d)
    PROVE  Lifecycle!Next \/ UNCHANGED Lifecycle!vars
<1> USE DEF rowVars
<1>t. /\ TypeInv /\ TypeOK /\ LeftAlone(d) /\ HandedOn(d) /\ Gone(d)
      /\ "busy" \notin Surroundings /\ "qdrant" \notin Surroundings
  BY DEF QuietInv, TypeInv, HandsInv, StoreInv, QuietInside, Quiet
<1>d. "pending" \in Unfinished /\ "queued" \in Unfinished
  BY DEF Unfinished
<1>o. \A e \in Documents \ {d} : Untouched(e)
  BY <1>t, AboutOneDocument
<1>1. CASE Register(d) \/ Retry(d) \/ SweepTouch(d)
  <2>1. status'[d] \in Unfinished /\ UNCHANGED <<points, purged>>
    BY <1>1, <1>d, <1>t
       DEF Register, UpsertPending, Retry, SweepTouch, SetStatus, LeftAlone,
           Idle, Present, TypeOK
  <2>2. PhaseNow'[d] = "open"
    BY <2>1 DEF PhaseNow, Unfinished
  <2> QED  BY <1>o, <2>1, <2>2, AbstractKept, AbstractActions
<1>2. CASE RunTask(d)
  <2>1. status[d] = "pending" /\ UNCHANGED <<points, purged>>
    BY <1>2, <1>t DEF RunTask, HandedOn
  <2>2. CASE UNCHANGED rowVars
    BY <2>1, <2>2, AbstractStutter
  <2>3. CASE SetStatus(d, "failed")
    <3>1. status'[d] = "failed" /\ PhaseNow[d] = "open"
      BY <1>d, <1>t, <2>1, <2>3, PhaseCases DEF SetStatus, Present, TypeOK
    <3>2. PhaseNow'[d] = "ended"
      BY <3>1 DEF PhaseNow
    <3> QED  BY <1>o, <2>1, <3>1, <3>2, AbstractKept, AbstractActions
  <2> QED  BY <1>2, <2>2, <2>3 DEF RunTask
<1>3. CASE DeleteVectors(d)
  <2>1. /\ points'[d] = {} /\ status' = status /\ status[d] \in Terminal
        /\ purged' = purged \union {d}
    BY <1>3, <1>t DEF DeleteVectors, DeletePoints, TypeOK
  <2>2. PhaseNow[d] \in {"indexed", "ended"} /\ PhaseNow' = PhaseNow
    BY <1>o, <2>1, PhaseCases, AbstractKept
  <2>3. d \notin SearchableNow' /\ d \notin TracesNow'
    BY <2>1, EmptyIsNotSearchable DEF SearchableNow, TracesNow
  <2>4. SearchableNow' = SearchableNow \ {d} /\ TracesNow' = TracesNow \ {d}
    BY <1>o, <2>3, AbstractKept
  <2> QED  BY <2>1, <2>2, <2>4, AbstractActions
<1>4. CASE DeleteRow(d)
  <2>1. /\ d \in purged /\ d \notin TracesNow /\ status'[d] = "absent"
        /\ points' = points /\ purged' = purged \ {d}
    BY <1>4, <1>t DEF DeleteRow, Gone, TracesNow, TypeOK
  <2>2. PhaseNow'[d] = "absent"
    BY <2>1 DEF PhaseNow
  <2> QED  BY <1>o, <2>1, <2>2, AbstractKept, AbstractActions
<1>5. CASE Age(d) \/ SweepEnqueue(d) \/ SweepSkip(d)
  BY <1>5, AbstractStutter DEF Age, SweepEnqueue, SweepSkip
<1> QED  BY <1>1, <1>2, <1>3, <1>4, <1>5 DEF Api, Sweep

LEMMA RefineRun ==
    ASSUME QuietInside, NoEmptyParse, QuietInv,
           NEW r \in Runs, Proceed(r) \/ EmbedFails(r) \/ RunDies(r)
    PROVE  Lifecycle!Next \/ UNCHANGED Lifecycle!vars
<1> USE DEF rowVars
<1>t. TypeInv /\ TypeOK /\ SlotOK(run[r]) /\ RunTrue(r)
  BY DEF QuietInv, TypeInv, StoreInv
<1>0. PICK d \in Documents : d = run[r].doc /\ Live(d)
  BY <1>t, AboutItsDocument DEF Live
<1>o. \A e \in Documents \ {d} : Untouched(e)
  BY <1>0, <1>t, AboutItsDocument
<1>p. status[d] \in Unfinished /\ Present(d) /\ PhaseNow[d] = "open"
  BY <1>0, <1>t, RunMoves, PhaseCases DEF RunTrue, At, Present, Unfinished
<1>f. PhaseNow \in [Documents -> {"absent", "open", "indexed", "ended"}]
  BY DEF PhaseNow
<1>1. CASE StartRun(r) \/ Parse(r) \/ Chunk(r) \/ Embed(r) \/ Clear(r)
             \/ Upsert(r) \/ EmbedFails(r) \/ RunDies(r)
  <2>1. status'[d] \in Unfinished /\ purged' = purged
    BY <1>1, <1>0, <1>p, <1>t
       DEF StartRun, Parse, Chunk, Embed, Clear, Upsert, EmbedFails, RunDies,
           SetStatus, TypeOK, Unfinished
  <2>2. PhaseNow'[d] = "open"
    BY <2>1 DEF PhaseNow, Unfinished
  <2>3. PhaseNow' = PhaseNow
    BY <1>f, <1>o, <1>p, <2>2, AbstractKept
  <2> QED  BY <1>o, <1>p, <2>1, <2>3, AbstractKept, AbstractActions
<1>2. CASE Complete(r)
  <2>1. points[d] = 1 .. run[r].made /\ run[r].made \in Yields[d]
    BY <1>2, <1>0, <1>t DEF Complete, RunTrue, SlotOK, At
  <2>2. d \in SearchableNow
    BY <2>1 DEF SearchableNow
  <2>3. status'[d] = "indexed" /\ points' = points /\ purged' = purged \ {d}
    BY <1>2, <1>0, <1>p, <1>t DEF Complete, PublishCount, SetStatus, TypeOK
  <2>4. PhaseNow'[d] = "indexed"
    BY <2>3 DEF PhaseNow
  <2> QED  BY <1>o, <1>p, <2>2, <2>3, <2>4, AbstractKept, AbstractActions
<1>3. CASE Fail(r)
  <2>1. status'[d] = "failed" /\ UNCHANGED <<points, purged>>
    BY <1>3, <1>0, <1>p, <1>t DEF Fail, SetStatus, TypeOK
  <2>2. PhaseNow'[d] = "ended"
    BY <2>1 DEF PhaseNow
  <2> QED  BY <1>o, <1>p, <2>1, <2>2, AbstractKept, AbstractActions
<1>4. CASE EmbedNothing(r)
  <2>1. 0 \in Yields[d]
    BY <1>4, <1>0, <1>t DEF EmbedNothing, SlotOK, At
  <2> QED  BY <2>1 DEF NoEmptyParse
<1> QED  BY <1>1, <1>2, <1>3, <1>4 DEF Proceed

LEMMA RefineStep ==
    ASSUME QuietInside, NoEmptyParse, QuietInv, [Next]_vars
    PROVE  [Lifecycle!Next]_(Lifecycle!vars)
<1>1. CASE SweepSelect \/ ApiDies \/ UNCHANGED vars
  BY <1>1, AbstractStutter DEF SweepSelect, ApiDies, vars, rowVars
<1> QED  BY <1>1, RefineApi, RefineRun DEF Next

(* ImplementsLifecycle: in these surroundings, while every parse yields a  *)
(* chunk, documents are sources as SourceLifecycle has them: none is       *)
(* published before its chunks can be searched, none that is published     *)
(* loses a point but by a delete or a new run, and a removed one leaves no *)
(* trace.                                                                  *)
THEOREM ImplementsLifecycleHolds ==
    QuietInside /\ NoEmptyParse => (Spec => ImplementsLifecycle)
<1> SUFFICES ASSUME QuietInside, NoEmptyParse
             PROVE  Spec => ImplementsLifecycle
  OBVIOUS
<1>1. Spec => [](TypeInv /\ HandsInv /\ StoreInv)
  BY QuietInvariant
<1>2. TypeInv /\ HandsInv /\ StoreInv /\ [Next]_vars
        => [Lifecycle!Next]_(Lifecycle!vars)
  BY RefineStep DEF QuietInv
<1>3. Init => Lifecycle!Init
  BY AbstractInit
<1> QED
  BY <1>1, <1>2, <1>3, PTL DEF Spec, ImplementsLifecycle, Lifecycle!Spec
=============================================================================
