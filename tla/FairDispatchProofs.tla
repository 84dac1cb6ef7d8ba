------------------------- MODULE FairDispatchProofs -------------------------
(* Theorems about FairDispatch for every set of videos, users and          *)
(* dispatchers, every capacity and every bound.                            *)
EXTENDS FairDispatch, FiniteSetTheorems, WellFoundedInduction, TLAPS

(* The finite sets the model counts.                                       *)
LEMMA FiniteParts ==
    ASSUME NEW S \in SUBSET Videos
    PROVE  IsFiniteSet(S) /\ Cardinality(S) \in Nat
BY DispatchAssumption, FS_Subset, FS_CardinalityType

LEMMA PendingFinite ==
    /\ Pending \subseteq Videos
    /\ IsFiniteSet(Pending)
BY FiniteParts DEF Pending

LEMMA RankType == ASSUME NEW v \in Videos PROVE Rank(v) \in Nat
<1>1. {w \in Pending : owner[w] = owner[v] /\ <<w, v>> \in before} \in SUBSET Videos
  BY DEF Pending
<1> QED  BY <1>1, FiniteParts DEF Rank

(* The order of the SELECT is a strict total order on the ids.             *)
LEMMA FairerThanTotal ==
    ASSUME NEW a \in Videos, NEW b \in Videos, NEW c \in Videos
    PROVE  /\ ~ FairerThan(a, a)
           /\ FairerThan(a, b) /\ FairerThan(b, c) => FairerThan(a, c)
           /\ a # b => FairerThan(a, b) \/ FairerThan(b, a)
<1>1. /\ Rank(a) \in Nat /\ Rank(b) \in Nat /\ Rank(c) \in Nat
      /\ a \in Nat /\ b \in Nat /\ c \in Nat
  BY RankType, DispatchAssumption
<1> QED  BY <1>1 DEF FairerThan

(* A fairer row has strictly fewer rows before it.                         *)
LEMMA FewerBefore ==
    ASSUME NEW a \in Pending, NEW b \in Pending, FairerThan(a, b)
    PROVE  Cardinality({w \in Pending : FairerThan(w, a)})
             < Cardinality({w \in Pending : FairerThan(w, b)})
<1> DEFINE Ahead(v) == {w \in Pending : FairerThan(w, v)}
<1>1. a \in Videos /\ b \in Videos
  BY PendingFinite
<1>2. Ahead(a) \subseteq Ahead(b)
  BY <1>1, FairerThanTotal, PendingFinite
<1>3. a \in Ahead(b) /\ a \notin Ahead(a)
  BY <1>1, FairerThanTotal
<1>4. IsFiniteSet(Ahead(b)) /\ Cardinality(Ahead(b)) \in Nat
  BY PendingFinite, FiniteParts
<1>5. Cardinality(Ahead(a)) \in Nat
  BY PendingFinite, FiniteParts
<1> HIDE DEF Ahead
<1>6. Cardinality(Ahead(a)) <= Cardinality(Ahead(b))
      /\ (Cardinality(Ahead(a)) = Cardinality(Ahead(b)) => Ahead(a) = Ahead(b))
  BY <1>2, <1>4, FS_Subset
<1>7. Cardinality(Ahead(a)) < Cardinality(Ahead(b))
  BY <1>3, <1>4, <1>5, <1>6
<1> QED  BY <1>7 DEF Ahead

(* LIMIT: the SELECT returns pending rows, and no more than asked for.     *)
LEMMA FairPickWithinLimit ==
    ASSUME NEW limit \in Nat
    PROVE  /\ FairPick(limit) \subseteq Pending
           /\ Cardinality(FairPick(limit)) <= limit
<1> DEFINE Ahead(v) == {w \in Pending : FairerThan(w, v)}
           f == [v \in FairPick(limit) |-> Cardinality(Ahead(v))]
<1>1. FairPick(limit) \subseteq Pending
  BY DEF FairPick
<1>2. CASE limit = 0
  <2>1. \A v \in Pending : Cardinality(Ahead(v)) \in Nat
    BY PendingFinite, FiniteParts
  <2>2. FairPick(limit) = {}
    BY <1>2, <2>1 DEF FairPick
  <2> QED  BY <1>1, <1>2, <2>2, FS_EmptySet
<1>3. CASE limit # 0
  <2>1. \A v \in FairPick(limit) : Cardinality(Ahead(v)) \in 0 .. (limit - 1)
    <3>1. \A v \in Pending : Cardinality(Ahead(v)) \in Nat
      BY PendingFinite, FiniteParts
    <3> QED  BY <1>1, <3>1 DEF FairPick
  <2>2. \A a, b \in FairPick(limit) : a # b => f[a] # f[b]
    <3> SUFFICES ASSUME NEW a \in FairPick(limit), NEW b \in FairPick(limit),
                        a # b
                 PROVE  f[a] # f[b]
      OBVIOUS
    <3>1. a \in Pending /\ b \in Pending /\ a \in Videos /\ b \in Videos
      BY <1>1, PendingFinite
    <3>2. FairerThan(a, b) \/ FairerThan(b, a)
      BY <3>1, FairerThanTotal
    <3>3. Cardinality(Ahead(a)) < Cardinality(Ahead(b))
          \/ Cardinality(Ahead(b)) < Cardinality(Ahead(a))
      BY <3>1, <3>2, FewerBefore
    <3>4. Cardinality(Ahead(a)) \in Int /\ Cardinality(Ahead(b)) \in Int
      BY <2>1
    <3> QED  BY <3>3, <3>4
  <2>3. f \in Injection(FairPick(limit), 0 .. (limit - 1))
    BY <2>1, <2>2 DEF Injection, IsInjective
  <2>4. /\ IsFiniteSet(0 .. (limit - 1))
        /\ Cardinality(0 .. (limit - 1)) = limit
    BY <1>3, FS_Interval
  <2> QED  BY <1>1, <2>3, <2>4, FS_Injection
<1> QED  BY <1>2, <1>3

-----------------------------------------------------------------------------
(* Type correctness, in every environment.                                 *)

LEMMA TypeInit == Init => TypeOK
<1>1. (CHOOSE d \in Dispatchers : TRUE) \in Dispatchers
  BY DispatchAssumption
<1>2. (CHOOSE u \in Users : TRUE) \in Users
  BY DispatchAssumption
<1> QED  BY <1>1, <1>2, DispatchAssumption DEF Init, TypeOK

LEMMA TypeStep == TypeOK /\ [Next]_vars => TypeOK'
<1> SUFFICES ASSUME TypeOK, [Next]_vars PROVE TypeOK'
  OBVIOUS
<1> USE DispatchAssumption DEF TypeOK
<1>1. ASSUME NEW d \in Dispatchers, Count(d) PROVE TypeOK'
  <2>1. PICK documents \in DocumentLoads :
          /\ MaxInflight - Cardinality(Inflight) - documents > 0
          /\ slots' = [slots EXCEPT
               ![d] = MaxInflight - Cardinality(Inflight) - documents]
    BY <1>1 DEF Count
  <2>2. Cardinality(Inflight) \in Nat
    BY FiniteParts DEF Inflight
  <2>3. MaxInflight - Cardinality(Inflight) - documents \in 0 .. MaxInflight
    BY <2>1, <2>2
  <2>4. slots' \in [Dispatchers -> 0 .. MaxInflight]
    BY <2>1, <2>3
  <2> QED  BY <1>1, <2>4 DEF Count
<1>2. ASSUME NEW d \in Dispatchers, Pick(d) PROVE TypeOK'
  <2>1. FairPick(slots[d]) \in SUBSET Videos
    BY PendingFinite DEF FairPick
  <2>2. slots' \in [Dispatchers -> 0 .. MaxInflight]
        /\ picked' \in [Dispatchers -> SUBSET Videos]
        /\ tick' \in [Dispatchers -> {"idle", "counted", "picked", "enqueueing"}]
    BY <1>2, <2>1 DEF Pick
  <2> QED  BY <1>2, <2>2 DEF Pick
<1>3. ASSUME NEW d \in Dispatchers, Claim(d) PROVE TypeOK'
  <2>1. picked[d] \intersect Pending \in SUBSET Videos
    OBVIOUS
  <2> QED  BY <1>3, <2>1 DEF Claim, TakeRows
<1>4. ASSUME NEW d \in Dispatchers, NEW v \in Videos, Enqueue(d, v)
      PROVE  TypeOK'
  BY <1>4 DEF Enqueue, DoneWith
<1>5. ASSUME NEW d \in Dispatchers, NEW v \in Videos, EnqueueFails(d, v)
      PROVE  TypeOK'
  <2>1. runs' \in [Videos -> 0 .. MaxRuns]
    BY <1>5 DEF EnqueueFails
  <2> QED  BY <1>5, <2>1 DEF EnqueueFails, DoneWith, SetStatus
<1>6. ASSUME NEW d \in Dispatchers, LoseTick(d) PROVE TypeOK'
  BY <1>6 DEF LoseTick
<1>7. ASSUME NEW u \in Users, NEW v \in Videos, Register(u, v) PROVE TypeOK'
  BY <1>7 DEF Register, Present
<1>8. ASSUME NEW v \in Videos, Resubmit(v) PROVE TypeOK'
  BY <1>8 DEF Resubmit
<1>9. ASSUME NEW v \in Videos, Delete(v) PROVE TypeOK'
  BY <1>9 DEF Delete
<1>10. ASSUME NEW v \in Videos, RunWorks(v) PROVE TypeOK'
  BY <1>10 DEF RunWorks, SetStatus
<1>11. ASSUME NEW v \in Videos, RunEnds(v) PROVE TypeOK'
  BY <1>11 DEF RunEnds, SetStatus
<1>12. ASSUME NEW v \in Videos, RunDies(v) PROVE TypeOK'
  BY <1>12 DEF RunDies
<1>13. ASSUME NEW rows \in SUBSET Videos, SweepSelect(rows) PROVE TypeOK'
  BY <1>13 DEF SweepSelect
<1>14. ASSUME NEW v \in Videos, SweepEnqueue(v) PROVE TypeOK'
  BY <1>14 DEF SweepEnqueue
<1>15. ASSUME NEW v \in Videos, SweepSkip(v) PROVE TypeOK'
  BY <1>15 DEF SweepSkip
<1>16. ASSUME NEW v \in Videos, SweepTouch(v) PROVE TypeOK'
  BY <1>16 DEF SweepTouch, SetStatus
<1>17. CASE UNCHANGED vars
  BY <1>17 DEF vars
<1> QED
  BY <1>1, <1>2, <1>3, <1>4, <1>5, <1>6, <1>7, <1>8, <1>9, <1>10, <1>11,
     <1>12, <1>13, <1>14, <1>15, <1>16, <1>17
     DEF Next, Dispatcher, Api, Worker, Reconciler

(* TypeOK: every variable keeps to its set; among others, no dispatcher    *)
(* ever works with a negative number of slots.                             *)
THEOREM TypeCorrect == Spec => []TypeOK
<1> QED  BY TypeInit, TypeStep, PTL DEF Spec

-----------------------------------------------------------------------------
(* The atomic claim: rows are handed out once.                             *)

(* A held row was claimed by its holder, and is not waiting any more.      *)
HeldClaimed ==
    \A d \in Dispatchers : \A v \in held[d] :
        admitter[v] = d /\ status[v] \in {"queued", "running", "ended"}

(* Users leave the rows in flight and the ended rows alone.                *)
NoResubmission == Environment \subseteq {"refused", "lost_answer", "reconcile"}

LEMMA HeldStep ==
    NoResubmission /\ TypeOK /\ HeldClaimed /\ [Next]_vars => HeldClaimed'
<1> SUFFICES ASSUME NoResubmission, TypeOK, HeldClaimed, [Next]_vars
             PROVE  HeldClaimed'
  OBVIOUS
<1> USE DEF TypeOK, HeldClaimed
<1>1. ASSUME NEW d \in Dispatchers, Count(d) PROVE HeldClaimed'
  BY <1>1 DEF Count
<1>2. ASSUME NEW d \in Dispatchers, Pick(d) PROVE HeldClaimed'
  BY <1>2 DEF Pick
<1>3. ASSUME NEW d \in Dispatchers, Claim(d) PROVE HeldClaimed'
  BY <1>3 DEF Claim, TakeRows, Pending
<1>4. ASSUME NEW d \in Dispatchers, NEW v \in Videos, Enqueue(d, v)
      PROVE  HeldClaimed'
  BY <1>4 DEF Enqueue, DoneWith
<1>5. ASSUME NEW d \in Dispatchers, NEW v \in Videos, EnqueueFails(d, v)
      PROVE  HeldClaimed'
  BY <1>5 DEF EnqueueFails, DoneWith, SetStatus
<1>6. ASSUME NEW d \in Dispatchers, LoseTick(d) PROVE HeldClaimed'
  BY <1>6 DEF LoseTick
<1>7. ASSUME NEW u \in Users, NEW v \in Videos, Register(u, v)
      PROVE  HeldClaimed'
  BY <1>7 DEF Register
<1>8. ASSUME NEW v \in Videos, Resubmit(v) \/ Delete(v) PROVE FALSE
  BY <1>8 DEF Resubmit, Delete, NoResubmission
<1>9. ASSUME NEW v \in Videos, Worker(v) PROVE HeldClaimed'
  BY <1>9 DEF Worker, RunWorks, RunEnds, RunDies, SetStatus
<1>10. CASE Reconciler
  BY <1>10 DEF Reconciler, SweepSelect, SweepEnqueue, SweepSkip, SweepTouch,
               SetStatus
<1>11. CASE UNCHANGED vars
  BY <1>11 DEF vars
<1> QED
  BY <1>1, <1>2, <1>3, <1>4, <1>5, <1>6, <1>7, <1>8, <1>9, <1>10, <1>11
     DEF Next, Dispatcher, Api

(* HandedOutOnce: whatever the number of dispatchers, and however their    *)
(* ticks interleave with runs, crashes, failed enqueues and the            *)
(* reconciler, no row is held by two of them.                              *)
THEOREM HandedOutOnceHolds == NoResubmission => (Spec => []HandedOutOnce)
<1> SUFFICES ASSUME NoResubmission PROVE Spec => []HandedOutOnce
  OBVIOUS
<1>1. Init => HeldClaimed
  BY DEF Init, HeldClaimed
<1>2. HeldClaimed => HandedOutOnce
  BY DEF HeldClaimed, HandedOutOnce
<1>3. TypeOK /\ HeldClaimed /\ [Next]_vars => HeldClaimed'
  BY HeldStep
<1> QED  BY <1>1, <1>2, <1>3, TypeCorrect, PTL DEF Spec

-----------------------------------------------------------------------------
(* The admission bound.                                                    *)

(* A finite set that falls into groups of at most m elements.              *)
LEMMA GroupsBound ==
    ASSUME NEW S, IsFiniteSet(S), NEW I, IsFiniteSet(I), NEW f \in [S -> I],
           NEW m \in Nat, \A i \in I : Cardinality({s \in S : f[s] = i}) <= m
    PROVE  Cardinality(S) <= Cardinality(I) * m
<1> DEFINE Group(i) == {s \in S : f[s] = i}
<1>1. \A i \in I : /\ IsFiniteSet(Group(i))
                   /\ Cardinality(Group(i)) \in Nat
                   /\ ExistsBijection(1 .. Cardinality(Group(i)), Group(i))
  BY FS_Subset, FS_CardinalityType
<1>2. IsFiniteSet(1 .. m) /\ Cardinality(1 .. m) = m
  BY FS_Interval
<1>3. /\ IsFiniteSet(I \X (1 .. m))
      /\ Cardinality(I \X (1 .. m)) = Cardinality(I) * m
  BY <1>2, FS_Product
<1>4. Cardinality(I) \in Nat
  BY FS_CardinalityType
<1>5. CASE S = {}
  BY <1>4, <1>5, FS_EmptySet
<1>6. ASSUME NEW some \in S PROVE Cardinality(S) <= Cardinality(I) * m
  <2> DEFINE count(i) == Cardinality(Group(i))
             list(i) == CHOOSE b : b \in Bijection(1 .. count(i), Group(i))
             place == [p \in I \X (1 .. m) |->
                         IF p[2] \in 1 .. count(p[1])
                           THEN list(p[1])[p[2]] ELSE some]
  <2>1. \A i \in I : list(i) \in Bijection(1 .. count(i), Group(i))
    BY <1>1 DEF ExistsBijection
  <2>2. \A i \in I : /\ list(i) \in [1 .. count(i) -> Group(i)]
                     /\ \A s \in Group(i) :
                          \E n \in 1 .. count(i) : list(i)[n] = s
    BY <2>1 DEF Bijection, Injection, Surjection
  <2>3. place \in [I \X (1 .. m) -> S]
    <3>1. ASSUME NEW p \in I \X (1 .. m), p[2] \in 1 .. count(p[1])
          PROVE  list(p[1])[p[2]] \in S
      <4>1. p[1] \in I
        OBVIOUS
      <4>2. list(p[1])[p[2]] \in Group(p[1])
        BY <2>2, <3>1, <4>1
      <4> QED  BY <4>2
    <3> HIDE DEF list, count
    <3> QED  BY <3>1, <1>6
  <2>4. ASSUME NEW s \in S
        PROVE  \E p \in I \X (1 .. m) : place[p] = s
    <3>1. f[s] \in I /\ s \in Group(f[s])
      OBVIOUS
    <3>2. PICK n \in 1 .. count(f[s]) : list(f[s])[n] = s
      BY <2>2, <3>1
    <3>3. count(f[s]) \in Nat /\ count(f[s]) <= m
      BY <1>1, <3>1
    <3>4. n \in 1 .. m
      BY <3>2, <3>3
    <3>5. <<f[s], n>> \in I \X (1 .. m)
      BY <3>1, <3>4
    <3>6. place[<<f[s], n>>] = list(f[s])[n]
      BY <3>5
    <3> QED  BY <3>2, <3>5, <3>6
  <2>5. place \in Surjection(I \X (1 .. m), S)
    BY <2>3, <2>4 DEF Surjection
  <2> HIDE DEF place
  <2> QED  BY <2>5, <1>3, FS_Surjection
<1> QED  BY <1>5, <1>6

(* Prefect's answers arrive, nobody touches rows in flight, and there is   *)
(* no reconciler.                                                          *)
Undisturbed == Environment \subseteq {"refused", "resubmit"}

Admitted(d) == {v \in Inflight : admitter[v] = d}

(* The inductive invariant.  A row in flight is either still held by the   *)
(* dispatcher that claimed it or has (or had) its one run, so a run can    *)
(* only write a row that is counted already.                               *)
AdmissionInv ==
    /\ sweep = {} /\ touching = {}
    /\ OneRunPerVideo
    /\ \A d \in Dispatchers : \A v \in held[d] :
          status[v] = "queued" /\ runs[v] = 0 /\ admitter[v] = d
    /\ \A d \in Dispatchers :
          /\ held[d] # {} => tick[d] = "enqueueing"
          /\ picked[d] # {} => /\ tick[d] = "picked"
                               /\ Cardinality(picked[d]) <= slots[d]
    /\ AdmissionShare

LEMMA AdmittedFinite ==
    ASSUME NEW d \in Dispatchers
    PROVE  /\ Admitted(d) \subseteq Inflight
           /\ Inflight \subseteq Videos
           /\ IsFiniteSet(Admitted(d)) /\ Cardinality(Admitted(d)) \in Nat
           /\ IsFiniteSet(Inflight) /\ Cardinality(Inflight) \in Nat
<1>1. Admitted(d) \in SUBSET Videos /\ Inflight \in SUBSET Videos
  BY DEF Admitted, Inflight
<1> QED  BY <1>1, FiniteParts DEF Admitted

LEMMA AdmissionInit == Init => AdmissionInv
<1> SUFFICES ASSUME Init PROVE AdmissionInv
  OBVIOUS
<1>1. Inflight = {} /\ \A d \in Dispatchers : Admitted(d) = {}
  BY DEF Init, Inflight, Admitted
<1>2. AdmissionShare
  BY <1>1, FS_EmptySet, DispatchAssumption
     DEF Init, AdmissionShare, Admitted
<1> QED  BY <1>2, FS_EmptySet DEF Init, AdmissionInv, OneRunPerVideo

(* A step that admits nothing and takes no slots keeps every share.        *)
LEMMA ShareShrinks ==
    ASSUME TypeOK, TypeOK', AdmissionShare,
           \A d \in Dispatchers : /\ Admitted(d)' \subseteq Admitted(d)
                                  /\ slots'[d] <= slots[d]
    PROVE  AdmissionShare'
<1> SUFFICES ASSUME NEW d \in Dispatchers
             PROVE  Cardinality(Admitted(d)') + slots'[d] <= MaxInflight
  BY DEF AdmissionShare, Admitted
<1>1. Cardinality(Admitted(d)') <= Cardinality(Admitted(d))
      /\ Cardinality(Admitted(d)') \in Nat
  BY AdmittedFinite, FS_Subset, FS_CardinalityType
<1>2. Cardinality(Admitted(d)) + slots[d] <= MaxInflight
  BY DEF AdmissionShare, Admitted
<1>3. slots[d] \in Nat /\ slots'[d] \in Nat /\ MaxInflight \in Nat
      /\ Cardinality(Admitted(d)) \in Nat
  BY DispatchAssumption, AdmittedFinite DEF TypeOK
<1> QED  BY <1>1, <1>2, <1>3

LEMMA AdmissionStep ==
    Undisturbed /\ TypeOK /\ TypeOK' /\ AdmissionInv /\ [Next]_vars
        => AdmissionInv'
<1> SUFFICES ASSUME Undisturbed, TypeOK, TypeOK', AdmissionInv, [Next]_vars
             PROVE  AdmissionInv'
  OBVIOUS
<1> DEFINE Shrinks == \A d \in Dispatchers :
              Admitted(d)' \subseteq Admitted(d) /\ slots'[d] <= slots[d]
<1>s. Shrinks => AdmissionShare'
  BY ShareShrinks DEF AdmissionInv
<1>t. \A d \in Dispatchers : slots[d] \in Nat /\ slots'[d] \in Nat
  BY DispatchAssumption DEF TypeOK
<1> HIDE DEF Shrinks
<1>1. ASSUME NEW d \in Dispatchers, Count(d) PROVE AdmissionInv'
  <2>1. PICK documents \in DocumentLoads :
          /\ MaxInflight - Cardinality(Inflight) - documents > 0
          /\ slots' = [slots EXCEPT
               ![d] = MaxInflight - Cardinality(Inflight) - documents]
    BY <1>1 DEF Count
  <2>2. \A e \in Dispatchers : Admitted(e)' = Admitted(e)
    BY <1>1 DEF Count, Admitted, Inflight
  <2>3. slots'[d] = MaxInflight - Cardinality(Inflight) - documents
    BY <2>1 DEF TypeOK
  <2>4. Cardinality(Admitted(d)) <= Cardinality(Inflight)
    BY AdmittedFinite, FS_Subset
  <2>5. Cardinality(Admitted(d)') + slots'[d] <= MaxInflight
    BY <2>2, <2>3, <2>4, AdmittedFinite, DispatchAssumption
  <2>6. ASSUME NEW e \in Dispatchers, e # d
        PROVE  Cardinality(Admitted(e)') + slots'[e] <= MaxInflight
    BY <2>1, <2>2, <2>6 DEF AdmissionInv, AdmissionShare, Admitted, TypeOK
  <2>7. AdmissionShare'
    BY <2>5, <2>6 DEF AdmissionShare, Admitted
  <2>8. \A e \in Dispatchers : slots'[e] = slots[e] \/ picked[e] = {}
    BY <1>1, <2>1 DEF Count, AdmissionInv, TypeOK
  <2> QED  BY <1>1, <2>7, <2>8 DEF Count, AdmissionInv, OneRunPerVideo, TypeOK
<1>2. ASSUME NEW d \in Dispatchers, Pick(d) PROVE AdmissionInv'
  <2>1. Shrinks
    BY <1>2, <1>t DEF Pick, Shrinks, Admitted, Inflight, TypeOK
  <2>2. Cardinality(FairPick(slots[d])) <= slots[d]
    BY <1>t, FairPickWithinLimit
  <2>3. ASSUME NEW e \in Dispatchers
        PROVE  /\ held'[e] # {} => tick'[e] = "enqueueing"
               /\ picked'[e] # {} => /\ tick'[e] = "picked"
                                     /\ Cardinality(picked'[e]) <= slots'[e]
    BY <1>2, <2>2 DEF Pick, AdmissionInv, TypeOK
  <2> QED  BY <1>2, <1>s, <2>1, <2>3 DEF Pick, AdmissionInv, OneRunPerVideo
<1>3. ASSUME NEW d \in Dispatchers, Claim(d) PROVE AdmissionInv'
  <2> DEFINE rows == picked[d] \intersect Pending
  <2>1. rows \in SUBSET Videos /\ picked[d] \in SUBSET Videos
    BY DEF TypeOK
  <2>2. Cardinality(rows) \in Nat /\ Cardinality(rows) <= slots[d]
    <3>1. CASE picked[d] = {}
      BY <1>t, <3>1, FS_EmptySet
    <3>2. CASE picked[d] # {}
      <4>1. Cardinality(rows) <= Cardinality(picked[d])
        BY <2>1, FiniteParts, FS_Subset
      <4>2. Cardinality(picked[d]) <= slots[d]
        BY <3>2 DEF AdmissionInv
      <4> QED  BY <2>1, <4>1, <4>2, <1>t, FiniteParts
    <3> QED  BY <3>1, <3>2
  <2>3. Admitted(d)' \subseteq Admitted(d) \union rows
    BY <1>3 DEF Claim, TakeRows, Admitted, Inflight
  <2>4. Cardinality(Admitted(d)') <= Cardinality(Admitted(d)) + slots[d]
    <3>1. /\ IsFiniteSet(Admitted(d)) /\ IsFiniteSet(rows)
          /\ Cardinality(Admitted(d)) \in Nat
      BY <2>1, AdmittedFinite, FiniteParts
    <3>2. /\ IsFiniteSet(Admitted(d) \union rows)
          /\ Cardinality(Admitted(d) \union rows)
               = Cardinality(Admitted(d)) + Cardinality(rows)
                   - Cardinality(Admitted(d) \intersect rows)
      BY <3>1, FS_Union
    <3>3. Cardinality(Admitted(d) \intersect rows) \in Nat
      BY <3>1, FS_Intersection, FS_CardinalityType
    <3>4. /\ Cardinality(Admitted(d)')
               <= Cardinality(Admitted(d) \union rows)
          /\ Cardinality(Admitted(d)') \in Nat
      BY <2>3, <3>2, FS_Subset, FS_CardinalityType
    <3> QED  BY <2>2, <3>1, <3>2, <3>3, <3>4, <1>t
  <2>5. slots'[d] = 0
    BY <1>3 DEF Claim, TakeRows, TypeOK
  <2>6. Cardinality(Admitted(d)') \in Nat
    BY <2>3, <2>1, AdmittedFinite, FS_Union, FS_Subset, FiniteParts,
       FS_CardinalityType
  <2>7. Cardinality(Admitted(d)') + slots'[d] <= MaxInflight
    <3>1. Cardinality(Admitted(d)) + slots[d] <= MaxInflight
      BY DEF AdmissionInv, AdmissionShare, Admitted
    <3> QED  BY <2>4, <2>5, <2>6, <3>1, <1>t, AdmittedFinite, DispatchAssumption
  <2>8. ASSUME NEW e \in Dispatchers, e # d
        PROVE  Cardinality(Admitted(e)') + slots'[e] <= MaxInflight
    <3>1. Admitted(e)' \subseteq Admitted(e) /\ slots'[e] = slots[e]
      BY <1>3, <2>8
         DEF Claim, TakeRows, Admitted, Inflight, Pending, TypeOK
    <3>2. Cardinality(Admitted(e)') <= Cardinality(Admitted(e))
          /\ Cardinality(Admitted(e)') \in Nat
      BY <3>1, AdmittedFinite, FS_Subset, FS_CardinalityType
    <3>3. Cardinality(Admitted(e)) + slots[e] <= MaxInflight
      BY DEF AdmissionInv, AdmissionShare, Admitted
    <3> QED  BY <3>1, <3>2, <3>3, <1>t, AdmittedFinite, DispatchAssumption
  <2>9. AdmissionShare'
    BY <2>7, <2>8 DEF AdmissionShare, Admitted
  <2>10. \A e \in Dispatchers : \A v \in held'[e] :
            status'[v] = "queued" /\ runs'[v] = 0 /\ admitter'[v] = e
    <3> SUFFICES ASSUME NEW e \in Dispatchers, NEW v \in held'[e]
                 PROVE  status'[v] = "queued" /\ runs'[v] = 0 /\ admitter'[v] = e
      OBVIOUS
    <3>1. CASE e = d
      <4>1. v \in rows /\ v \in Videos /\ status[v] = "pending"
        BY <1>3, <3>1 DEF Claim, TakeRows, Pending, TypeOK
      <4>2. runs[v] = 0
        <5>1. runs[v] \in Nat /\ runs[v] <= 1 /\ runs[v] # 1
          BY <4>1, DispatchAssumption DEF AdmissionInv, OneRunPerVideo, TypeOK
        <5> QED  BY <5>1
      <4> QED  BY <1>3, <3>1, <4>1, <4>2 DEF Claim, TakeRows
    <3>2. CASE e # d
      <4>1. v \in held[e] /\ v \in Videos
        BY <1>3, <3>2 DEF Claim, TakeRows, TypeOK
      <4>2. status[v] = "queued" /\ runs[v] = 0 /\ admitter[v] = e
        BY <4>1 DEF AdmissionInv
      <4>3. v \notin rows
        BY <4>2 DEF Pending
      <4> QED  BY <1>3, <4>1, <4>2, <4>3 DEF Claim, TakeRows
    <3> QED  BY <3>1, <3>2
  <2>11. OneRunPerVideo'
    BY <1>3 DEF Claim, TakeRows, Pending, AdmissionInv, OneRunPerVideo, TypeOK
  <2>12. ASSUME NEW e \in Dispatchers
         PROVE  /\ held'[e] # {} => tick'[e] = "enqueueing"
                /\ picked'[e] # {} => /\ tick'[e] = "picked"
                                      /\ Cardinality(picked'[e]) <= slots'[e]
    BY <1>3 DEF Claim, TakeRows, AdmissionInv, TypeOK
  <2> QED  BY <1>3, <2>9, <2>10, <2>11, <2>12 DEF Claim, TakeRows, AdmissionInv
<1>4. ASSUME NEW d \in Dispatchers, NEW v \in Videos, Enqueue(d, v)
      PROVE  AdmissionInv'
  <2>1. Shrinks
    BY <1>4, <1>t DEF Enqueue, Shrinks, Admitted, Inflight
  <2>2. OneRunPerVideo'
    BY <1>4 DEF Enqueue, AdmissionInv, OneRunPerVideo, TypeOK
  <2>3. ASSUME NEW e \in Dispatchers, NEW w \in held'[e]
        PROVE  status'[w] = "queued" /\ runs'[w] = 0 /\ admitter'[w] = e
    <3>1. w \in held[e] /\ (e = d => w # v) /\ held[e] \subseteq Videos
      BY <1>4 DEF Enqueue, DoneWith, TypeOK
    <3>2. admitter[v] = d /\ admitter[w] = e
      BY <1>4, <3>1 DEF Enqueue, AdmissionInv
    <3>3. w # v
      BY <3>1, <3>2
    <3> QED  BY <1>4, <3>1, <3>3 DEF Enqueue, AdmissionInv, TypeOK
  <2>4. ASSUME NEW e \in Dispatchers
        PROVE  /\ held'[e] # {} => tick'[e] = "enqueueing"
               /\ picked'[e] # {} => /\ tick'[e] = "picked"
                                     /\ Cardinality(picked'[e]) <= slots'[e]
    BY <1>4 DEF Enqueue, DoneWith, AdmissionInv, TypeOK
  <2> QED  BY <1>4, <1>s, <2>1, <2>2, <2>3, <2>4 DEF Enqueue, AdmissionInv
<1>5. ASSUME NEW d \in Dispatchers, NEW v \in Videos, EnqueueFails(d, v)
      PROVE  AdmissionInv'
  <2>1. UNCHANGED runs
    BY <1>5 DEF EnqueueFails, Undisturbed
  <2>2. Shrinks
    BY <1>5, <1>t
       DEF EnqueueFails, SetStatus, Shrinks, Admitted, Inflight, TypeOK
  <2>3. v \in held[d] /\ status[v] = "queued" /\ runs[v] = 0 /\ admitter[v] = d
    BY <1>5 DEF EnqueueFails, AdmissionInv
  <2>4. OneRunPerVideo'
    BY <1>5, <2>1, <2>3
       DEF EnqueueFails, SetStatus, AdmissionInv, OneRunPerVideo, TypeOK
  <2>5. ASSUME NEW e \in Dispatchers, NEW w \in held'[e]
        PROVE  status'[w] = "queued" /\ runs'[w] = 0 /\ admitter'[w] = e
    <3>1. w \in held[e] /\ (e = d => w # v) /\ held[e] \subseteq Videos
      BY <1>5 DEF EnqueueFails, DoneWith, TypeOK
    <3>2. admitter[w] = e /\ status[w] = "queued" /\ runs[w] = 0
      BY <3>1 DEF AdmissionInv
    <3>3. w # v
      BY <2>3, <3>1, <3>2
    <3> QED  BY <1>5, <2>1, <3>1, <3>2, <3>3 DEF EnqueueFails, SetStatus, TypeOK
  <2>6. ASSUME NEW e \in Dispatchers
        PROVE  /\ held'[e] # {} => tick'[e] = "enqueueing"
               /\ picked'[e] # {} => /\ tick'[e] = "picked"
                                     /\ Cardinality(picked'[e]) <= slots'[e]
    BY <1>5 DEF EnqueueFails, DoneWith, AdmissionInv, TypeOK
  <2> QED  BY <1>5, <1>s, <2>2, <2>4, <2>5, <2>6 DEF EnqueueFails, AdmissionInv
<1>6. ASSUME NEW d \in Dispatchers, LoseTick(d) PROVE AdmissionInv'
  <2>1. Shrinks
    BY <1>6, <1>t DEF LoseTick, Shrinks, Admitted, Inflight, TypeOK
  <2> QED  BY <1>6, <1>s, <2>1 DEF LoseTick, AdmissionInv, OneRunPerVideo, TypeOK
<1>7. ASSUME NEW u \in Users, NEW v \in Videos, Register(u, v)
      PROVE  AdmissionInv'
  <2>1. Shrinks
    BY <1>7, <1>t DEF Register, Shrinks, Admitted, Inflight, TypeOK
  <2>2. \A d \in Dispatchers : v \notin held[d]
    BY <1>7 DEF Register, AdmissionInv
  <2>3. runs[v] = 0
    BY <1>7 DEF Register, Undisturbed
  <2> QED  BY <1>7, <1>s, <2>1, <2>2, <2>3
              DEF Register, AdmissionInv, OneRunPerVideo, TypeOK
<1>8. ASSUME NEW v \in Videos, Resubmit(v) PROVE AdmissionInv'
  <2>1. Shrinks
    BY <1>8, <1>t DEF Resubmit, Shrinks, Admitted, Inflight, TypeOK
  <2>2. status[v] = "ended"
    BY <1>8 DEF Resubmit, Undisturbed
  <2> QED  BY <1>8, <1>s, <2>1, <2>2
              DEF Resubmit, AdmissionInv, OneRunPerVideo, TypeOK
<1>9. ASSUME NEW v \in Videos, Delete(v) PROVE AdmissionInv'
  <2>1. Shrinks
    BY <1>9, <1>t DEF Delete, Shrinks, Admitted, Inflight, TypeOK
  <2>2. status[v] \in {"pending", "ended"}
    BY <1>9 DEF Delete, Undisturbed
  <2> QED  BY <1>9, <1>s, <2>1, <2>2
              DEF Delete, AdmissionInv, OneRunPerVideo, TypeOK
<1>10. ASSUME NEW v \in Videos, Worker(v) PROVE AdmissionInv'
  <2>1. v \in Inflight /\ runs[v] = 1 /\ runs[v] > 0
    BY <1>10 DEF Worker, RunWorks, RunEnds, RunDies, AdmissionInv,
                 OneRunPerVideo, Inflight, TypeOK
  <2>2. \A d \in Dispatchers : v \notin held[d]
    BY <2>1 DEF AdmissionInv
  <2>3. UNCHANGED <<admitter, held, picked, slots, tick, sweep, touching>>
        /\ status' \in {status, [status EXCEPT ![v] = "running"],
                        [status EXCEPT ![v] = "ended"]}
    BY <1>10, <2>1 DEF Worker, RunWorks, RunEnds, RunDies, SetStatus, TypeOK,
                       Inflight
  <2>4. Shrinks
    BY <1>t, <2>1, <2>3 DEF Shrinks, Admitted, Inflight, TypeOK
  <2>5. OneRunPerVideo'
    BY <1>10, <2>1 DEF Worker, RunWorks, RunEnds, RunDies, SetStatus,
                       AdmissionInv, OneRunPerVideo, Inflight, TypeOK
  <2>6. \A d \in Dispatchers : \A w \in held'[d] :
           status'[w] = "queued" /\ runs'[w] = 0 /\ admitter'[w] = d
    BY <1>10, <2>2, <2>3 DEF Worker, RunWorks, RunEnds, RunDies, AdmissionInv,
                             TypeOK
  <2> QED  BY <1>s, <2>3, <2>4, <2>5, <2>6 DEF AdmissionInv
<1>11. CASE Reconciler
  BY <1>11 DEF Reconciler, SweepSelect, SweepEnqueue, SweepSkip, SweepTouch,
               AdmissionInv, Undisturbed
<1>12. CASE UNCHANGED vars
  BY <1>12 DEF vars, AdmissionInv, AdmissionShare, OneRunPerVideo, Inflight
<1> QED
  BY <1>1, <1>2, <1>3, <1>4, <1>5, <1>6, <1>7, <1>8, <1>9, <1>10, <1>11, <1>12
     DEF Next, Dispatcher, Api

LEMMA AdmissionInvariant == Undisturbed => (Spec => []AdmissionInv)
<1> SUFFICES ASSUME Undisturbed PROVE Spec => []AdmissionInv
  OBVIOUS
<1>1. TypeOK /\ TypeOK' /\ AdmissionInv /\ [Next]_vars => AdmissionInv'
  BY AdmissionStep
<1> QED  BY <1>1, AdmissionInit, TypeCorrect, PTL DEF Spec

(* InflightBound: what D dispatchers have in flight is never more than D   *)
(* times the capacity, and what one has keeps to the capacity exactly.     *)
THEOREM InflightBoundHolds == Undisturbed => (Spec => []InflightBound)
<1> SUFFICES ASSUME Undisturbed PROVE Spec => []InflightBound
  OBVIOUS
<1>1. TypeOK /\ AdmissionInv => InflightBound
  <2> SUFFICES ASSUME TypeOK, AdmissionInv PROVE InflightBound
    OBVIOUS
  <2> DEFINE by == [v \in Inflight |-> admitter[v]]
             admitters == {admitter[v] : v \in Inflight}
  <2>0. admitters \subseteq Dispatchers
    BY DEF TypeOK, Inflight
  <2>1. by \in [Inflight -> admitters]
    OBVIOUS
  <2>2. ASSUME NEW d \in admitters
        PROVE  Cardinality({v \in Inflight : by[v] = d}) <= MaxInflight
    <3>1. {v \in Inflight : by[v] = d} = Admitted(d)
      BY DEF Admitted
    <3> HIDE DEF admitters
    <3>0. d \in Dispatchers
      BY <2>0
    <3>2. Cardinality(Admitted(d)) + slots[d] <= MaxInflight
      BY <3>0 DEF AdmissionInv, AdmissionShare, Admitted
    <3>3. slots[d] \in Nat
      BY <3>0, DispatchAssumption DEF TypeOK
    <3>4. Cardinality(Admitted(d)) <= MaxInflight
      BY <3>0, <3>2, <3>3, AdmittedFinite, DispatchAssumption
    <3> QED  BY ONLY <3>1, <3>4
  <2>3. IsFiniteSet(Inflight) /\ IsFiniteSet(admitters) /\ MaxInflight \in Nat
    BY <2>0, DispatchAssumption, FiniteParts, FS_Subset DEF Inflight
  <2>4. Cardinality(Inflight) <= Cardinality(admitters) * MaxInflight
    <3> HIDE DEF by, admitters
    <3> QED  BY ONLY <2>1, <2>2, <2>3, GroupsBound
  <2> QED  BY <2>4 DEF InflightBound
<1>2. Spec => []AdmissionInv
  BY AdmissionInvariant
<1> QED  BY <1>1, <1>2, TypeCorrect, PTL

(* AdmissionShare: each dispatcher's own part stays within the capacity.   *)
THEOREM AdmissionShareHolds == Undisturbed => (Spec => []AdmissionShare)
<1> SUFFICES ASSUME Undisturbed PROVE Spec => []AdmissionShare
  OBVIOUS
<1>1. AdmissionInv => AdmissionShare
  BY DEF AdmissionInv
<1> QED  BY <1>1, AdmissionInvariant, PTL

(* OneRunPerVideo: Prefect never has two runs of one video.                *)
THEOREM OneRunPerVideoHolds == Undisturbed => (Spec => []OneRunPerVideo)
<1> SUFFICES ASSUME Undisturbed PROVE Spec => []OneRunPerVideo
  OBVIOUS
<1>1. AdmissionInv => OneRunPerVideo
  BY DEF AdmissionInv
<1> QED  BY <1>1, AdmissionInvariant, PTL
-----------------------------------------------------------------------------
(* The fair order: what one SELECT takes, in every environment.            *)

(* created_at orders the rows that are there, without ties: new rows come  *)
(* last, and nothing but a DELETE takes one out of the order.              *)
CreatedInTurn ==
    /\ before \subseteq Present \X Present
    /\ \A v \in Present : <<v, v>> \notin before
    /\ \A v, w \in Present :
         v # w => (<<v, w>> \in before <=> <<w, v>> \notin before)
    /\ \A u, v, w \in Present :
         <<u, v>> \in before /\ <<v, w>> \in before => <<u, w>> \in before

(* A step that adds and removes no row.                                    *)
LEMMA SameRows ==
    ASSUME CreatedInTurn, before' = before, Present' = Present
    PROVE  CreatedInTurn'
BY DEF CreatedInTurn

LEMMA SetStatusKeepsRows ==
    ASSUME TypeOK, NEW v \in Videos, NEW s, s # "absent", SetStatus(v, s)
    PROVE  Present' = Present
<1>1. \A w \in Videos : status'[w] = "absent" <=> status[w] = "absent"
  BY DEF TypeOK, SetStatus
<1> QED  BY <1>1 DEF Present

LEMMA InTurnStep ==
    TypeOK /\ CreatedInTurn /\ [Next]_vars => CreatedInTurn'
<1> SUFFICES ASSUME TypeOK, CreatedInTurn, [Next]_vars PROVE CreatedInTurn'
  OBVIOUS
<1>0. /\ status \in [Videos ->
                       {"absent", "pending", "queued", "running", "ended"}]
      /\ Present \subseteq Videos
  BY DEF TypeOK, Present
<1>a. ASSUME before' = before, status' = status PROVE CreatedInTurn'
  <2>1. Present' = Present
    BY <1>a DEF Present
  <2> QED  BY <1>a, <2>1, SameRows
<1>1. ASSUME NEW d \in Dispatchers, Dispatcher(d) PROVE CreatedInTurn'
  <2>1. CASE Claim(d)
    <3>1. \A v \in Videos : status'[v] = "absent" <=> status[v] = "absent"
      BY <1>0, <2>1 DEF Claim, TakeRows, Pending
    <3>2. Present' = Present /\ before' = before
      BY <2>1, <3>1 DEF Present, Claim, TakeRows
    <3> QED  BY <3>2, SameRows
  <2>2. ASSUME NEW v \in Videos, EnqueueFails(d, v) PROVE CreatedInTurn'
    <3>1. Present' = Present /\ before' = before
      BY <2>2, SetStatusKeepsRows DEF EnqueueFails
    <3> QED  BY <3>1, SameRows
  <2>3. CASE Count(d) \/ Pick(d) \/ LoseTick(d)
               \/ \E v \in Videos : Enqueue(d, v)
    BY <1>a, <2>3 DEF Count, Pick, LoseTick, Enqueue
  <2> QED  BY <1>1, <2>1, <2>2, <2>3 DEF Dispatcher
<1>2. ASSUME NEW u \in Users, NEW v \in Videos, Register(u, v)
      PROVE  CreatedInTurn'
  <2>1. v \notin Present /\ before' = before \union (Present \X {v})
    BY <1>2 DEF Register, Present
  <2>2. Present' = Present \union {v}
    <3>1. \A w \in Videos :
            status'[w] # "absent" <=> status[w] # "absent" \/ w = v
      BY <1>0, <1>2 DEF Register
    <3> QED  BY <3>1 DEF Present
  <2>3. /\ \A w, x \in Present :
             <<w, x>> \in before' <=> <<w, x>> \in before
        /\ \A w \in Present : <<w, v>> \in before' /\ <<v, w>> \notin before'
        /\ <<v, v>> \notin before'
    BY <2>1 DEF CreatedInTurn
  <2>4. before' \subseteq Present' \X Present'
    BY <2>1, <2>2 DEF CreatedInTurn
  <2>5. \A x, y, z \in Present' :
          <<x, y>> \in before' /\ <<y, z>> \in before' => <<x, z>> \in before'
    <3> SUFFICES ASSUME NEW x \in Present', NEW y \in Present',
                        NEW z \in Present',
                        <<x, y>> \in before', <<y, z>> \in before'
                 PROVE  <<x, z>> \in before'
      OBVIOUS
    <3>1. x \in Present /\ y \in Present
      BY <2>2, <2>3
    <3>2. CASE z = v
      BY <2>3, <3>1, <3>2
    <3>3. CASE z \in Present
      <4>1. <<x, y>> \in before /\ <<y, z>> \in before
        BY <2>3, <3>1, <3>3
      <4> QED  BY <2>3, <3>1, <3>3, <4>1 DEF CreatedInTurn
    <3> QED  BY <2>2, <3>2, <3>3
  <2> QED  BY <2>2, <2>3, <2>4, <2>5 DEF CreatedInTurn
<1>3. ASSUME NEW v \in Videos, Resubmit(v) PROVE CreatedInTurn'
  <2>1. \A w \in Videos : status'[w] = "absent" <=> status[w] = "absent"
    BY <1>0, <1>3 DEF Resubmit
  <2>2. Present' = Present /\ before' = before
    BY <1>3, <2>1 DEF Present, Resubmit
  <2> QED  BY <2>2, SameRows
<1>4. ASSUME NEW v \in Videos, Delete(v) PROVE CreatedInTurn'
  <2>1. before' = {pair \in before : v \notin {pair[1], pair[2]}}
    BY <1>4 DEF Delete
  <2>2. Present' = Present \ {v}
    <3>1. \A w \in Videos :
            status'[w] # "absent" <=> status[w] # "absent" /\ w # v
      BY <1>0, <1>4 DEF Delete
    <3> QED  BY <3>1 DEF Present
  <2>3. \A w, x \in Present' : <<w, x>> \in before' <=> <<w, x>> \in before
    BY <2>1, <2>2
  <2>4. before' \subseteq Present' \X Present'
    BY <2>1, <2>2 DEF CreatedInTurn
  <2> QED  BY <2>2, <2>3, <2>4 DEF CreatedInTurn
<1>5. ASSUME NEW v \in Videos, Worker(v) PROVE CreatedInTurn'
  <2>1. CASE RunDies(v)
    BY <1>a, <2>1 DEF RunDies
  <2>2. CASE RunWorks(v) \/ RunEnds(v)
    <3>1. Present' = Present /\ before' = before
      BY <2>2, SetStatusKeepsRows DEF RunWorks, RunEnds
    <3> QED  BY <3>1, SameRows
  <2> QED  BY <1>5, <2>1, <2>2 DEF Worker
<1>6. CASE Reconciler
  <2>1. ASSUME NEW v \in Videos, SweepTouch(v) PROVE CreatedInTurn'
    <3>1. Present' = Present /\ before' = before
      BY <2>1, SetStatusKeepsRows DEF SweepTouch
    <3> QED  BY <3>1, SameRows
  <2>2. CASE \/ \E rows \in SUBSET Videos : SweepSelect(rows)
             \/ \E v \in Videos : SweepEnqueue(v) \/ SweepSkip(v)
    BY <1>a, <2>2 DEF SweepSelect, SweepEnqueue, SweepSkip
  <2> QED  BY <1>6, <2>1, <2>2 DEF Reconciler
<1>7. CASE UNCHANGED vars
  BY <1>7, <1>a DEF vars
<1> QED
  BY <1>1, <1>2, <1>3, <1>4, <1>5, <1>6, <1>7 DEF Next, Api

LEMMA InTurn == Spec => [](TypeOK /\ CreatedInTurn)
<1>1. Init => CreatedInTurn
  BY DEF Init, CreatedInTurn, Present
<1> QED  BY <1>1, InTurnStep, TypeCorrect, PTL DEF Spec

(* Rows of one user: the older one has the smaller rank.                   *)
LEMMA OlderRanksLower ==
    ASSUME CreatedInTurn, NEW v \in Pending, NEW w \in Pending,
           owner[v] = owner[w], <<w, v>> \in before
    PROVE  Rank(w) < Rank(v)
<1> DEFINE Older(x) ==
             {y \in Pending : owner[y] = owner[x] /\ <<y, x>> \in before}
<1>0. Pending \subseteq Present
  BY DEF Pending, Present
<1>1. Older(w) \subseteq Older(v)
  BY <1>0 DEF CreatedInTurn
<1>2. w \in Older(v) /\ w \notin Older(w)
  BY <1>0 DEF CreatedInTurn
<1>3. IsFiniteSet(Older(v)) /\ Older(v) \subseteq Videos
  BY PendingFinite, FiniteParts
<1>4. Cardinality(Older(w)) \in Nat /\ Cardinality(Older(v)) \in Nat
  BY PendingFinite, FiniteParts
<1> HIDE DEF Older
<1>5. /\ Cardinality(Older(w)) <= Cardinality(Older(v))
      /\ Cardinality(Older(v)) = Cardinality(Older(w)) => Older(v) = Older(w)
  BY <1>1, <1>3, FS_Subset
<1>6. Cardinality(Older(w)) < Cardinality(Older(v))
  BY <1>2, <1>4, <1>5
<1> QED  BY <1>6 DEF Rank, Older

(* Of what is numbered, something has the least number.                    *)
LEMMA LeastExists ==
    ASSUME NEW S, NEW f \in [S -> Nat], S # {}
    PROVE  \E x \in S : \A y \in S : f[x] <= f[y]
<1> DEFINE T == {f[x] : x \in S}
<1>1. T \subseteq Nat /\ T # {}
  OBVIOUS
<1>2. PICK m \in T : \A n \in T : ~ (<<n, m>> \in OpToRel(<, Nat))
  <2> HIDE DEF T
  <2> QED  BY <1>1, NatLessThanWellFounded, WFMin
<1>3. PICK x \in S : f[x] = m
  BY <1>2
<1>4. ASSUME NEW y \in S PROVE f[x] <= f[y]
  <2>1. f[y] \in T /\ f[y] \in Nat /\ m \in Nat
    BY <1>1, <1>2
  <2>2. ~ (f[y] < m)
    BY <1>2, <2>1 DEF OpToRel
  <2> QED  BY <1>3, <2>1, <2>2
<1> QED  BY <1>4

(* The SELECT takes rows from the front of the order.                      *)
LEMMA FairPickFromFront ==
    ASSUME NEW limit \in Nat, NEW v \in FairPick(limit),
           NEW w \in Pending \ FairPick(limit)
    PROVE  FairerThan(v, w)
<1>1. v \in Pending /\ w \in Pending /\ v \in Videos /\ w \in Videos
  BY PendingFinite DEF FairPick
<1>2. CASE FairerThan(w, v)
  <2>1. Cardinality({x \in Pending : FairerThan(x, w)})
          < Cardinality({x \in Pending : FairerThan(x, v)})
    BY <1>1, <1>2, FewerBefore
  <2>2. Cardinality({x \in Pending : FairerThan(x, v)}) < limit
    BY DEF FairPick
  <2>3. /\ Cardinality({x \in Pending : FairerThan(x, v)}) \in Nat
        /\ Cardinality({x \in Pending : FairerThan(x, w)}) \in Nat
    BY PendingFinite, FiniteParts
  <2>4. Cardinality({x \in Pending : FairerThan(x, w)}) < limit
    BY <2>1, <2>2, <2>3
  <2> QED  BY <1>1, <2>4 DEF FairPick
<1> QED  BY <1>1, <1>2, FairerThanTotal

(* ... and as many as asked for, while some are left.                      *)
LEMMA FairPickFull ==
    ASSUME NEW limit \in Nat, FairPick(limit) # Pending
    PROVE  Cardinality(FairPick(limit)) = limit
<1> DEFINE Ahead(v) == {w \in Pending : FairerThan(w, v)}
           Left == Pending \ FairPick(limit)
<1>1. /\ FairPick(limit) \subseteq Pending
      /\ Cardinality(FairPick(limit)) <= limit
      /\ IsFiniteSet(FairPick(limit))
      /\ Cardinality(FairPick(limit)) \in Nat
  BY FairPickWithinLimit, FiniteParts, PendingFinite
<1>2. \A v \in Pending : Cardinality(Ahead(v)) \in Nat
  BY PendingFinite, FiniteParts
<1>3. PICK v \in Left :
        \A w \in Left : Cardinality(Ahead(v)) <= Cardinality(Ahead(w))
  <2>1. Left # {}
    BY <1>1
  <2>2. [w \in Left |-> Cardinality(Ahead(w))] \in [Left -> Nat]
    BY <1>2
  <2>3. \E x \in Left : \A y \in Left :
          [w \in Left |-> Cardinality(Ahead(w))][x]
            <= [w \in Left |-> Cardinality(Ahead(w))][y]
    BY <2>1, <2>2, LeastExists
  <2> QED  BY <2>3
<1>4. ~ (Cardinality(Ahead(v)) < limit)
  BY DEF FairPick
<1>5. Ahead(v) \subseteq FairPick(limit)
  <2> SUFFICES ASSUME NEW w \in Left, FairerThan(w, v) PROVE FALSE
    BY <1>1
  <2>1. Cardinality(Ahead(w)) < Cardinality(Ahead(v))
    BY FewerBefore
  <2> QED  BY <1>2, <1>3, <2>1
<1>6. Cardinality(Ahead(v)) <= Cardinality(FairPick(limit))
  <2> HIDE DEF Ahead
  <2> QED  BY <1>1, <1>5, FS_Subset
<1> QED  BY <1>1, <1>2, <1>4, <1>6

(* Of one user, no more rows than ranks up to the greatest rank allowed.   *)
LEMMA RowsWithinRanks ==
    ASSUME CreatedInTurn, NEW ids \in SUBSET Pending, NEW u, NEW r \in Nat,
           \A v \in ids : owner[v] = u => Rank(v) <= r
    PROVE  ShareOf(u, ids) <= r + 1
<1> DEFINE Rows == {v \in ids : owner[v] = u}
           f == [v \in Rows |-> Rank(v)]
<1>0. Pending \subseteq Present /\ Rows \subseteq Pending /\ Rows \subseteq Videos
  BY PendingFinite DEF Pending, Present
<1>1. \A v \in Rows : Rank(v) \in 0 .. r
  BY <1>0, RankType
<1>2. ASSUME NEW v \in Rows, NEW w \in Rows, v # w PROVE f[v] # f[w]
  <2>1. <<v, w>> \in before \/ <<w, v>> \in before
    BY <1>0, <1>2 DEF CreatedInTurn
  <2>2. owner[v] = owner[w] /\ v \in Pending /\ w \in Pending
    BY <1>0
  <2>3. Rank(v) < Rank(w) \/ Rank(w) < Rank(v)
    BY <2>1, <2>2, OlderRanksLower
  <2>4. Rank(v) \in Int /\ Rank(w) \in Int
    BY <1>1
  <2> QED  BY <2>3, <2>4
<1>3. f \in Injection(Rows, 0 .. r)
  BY <1>1, <1>2 DEF Injection, IsInjective
<1>4. IsFiniteSet(0 .. r) /\ Cardinality(0 .. r) = r + 1
  BY FS_Interval
<1>5. Cardinality(Rows) <= Cardinality(0 .. r)
  <2> HIDE DEF f, Rows
  <2> QED  BY <1>3, <1>4, FS_Injection
<1> QED  BY <1>4, <1>5 DEF ShareOf

(* The rounds are fair: who is left with a row that waits got at most one  *)
(* slot less than anyone.  The oldest row left of that user has as its     *)
(* rank the slots the user got; no row taken has a greater rank.           *)
LEMMA RoundsFair ==
    ASSUME TypeOK, CreatedInTurn, NEW limit \in Nat, NEW u, NEW w,
           \E v \in Pending \ FairPick(limit) : owner[v] = u
    PROVE  ShareOf(w, FairPick(limit)) <= ShareOf(u, FairPick(limit)) + 1
<1> DEFINE ids == FairPick(limit)
           Left == {v \in Pending \ ids : owner[v] = u}
           Got == {v \in ids : owner[v] = u}
<1>1. /\ ids \subseteq Pending /\ Pending \subseteq Videos
      /\ Pending \subseteq Present
  BY PendingFinite DEF FairPick, Pending, Present
<1>2. PICK v \in Left : \A x \in Left : Rank(v) <= Rank(x)
  <2>1. [x \in Left |-> Rank(x)] \in [Left -> Nat] /\ Left # {}
    BY <1>1, RankType
  <2>2. \E x \in Left : \A y \in Left :
          [z \in Left |-> Rank(z)][x] <= [z \in Left |-> Rank(z)][y]
    <3> HIDE DEF Left
    <3> QED  BY <2>1, LeastExists
  <2> QED  BY <2>2
<1>3. Rank(v) \in Nat /\ v \in Pending \ ids /\ v \in Videos
  BY <1>1, RankType
<1>4. \A x \in ids : Rank(x) <= Rank(v)
  <2> TAKE x \in ids
  <2>1. FairerThan(x, v)
    BY <1>3, FairPickFromFront
  <2>2. Rank(x) \in Nat
    BY <1>1, RankType
  <2> QED  BY <1>3, <2>1, <2>2 DEF FairerThan
<1>5. ShareOf(w, ids) <= Rank(v) + 1
  <2> HIDE DEF ids
  <2> QED  BY <1>1, <1>3, <1>4, RowsWithinRanks
<1>6. Rank(v) <= Cardinality(Got)
  <2> DEFINE Older == {x \in Pending : owner[x] = owner[v] /\ <<x, v>> \in before}
  <2>1. Older \subseteq Got
    <3> SUFFICES ASSUME NEW x \in Older, x \notin ids PROVE FALSE
      OBVIOUS
    <3>1. Rank(x) < Rank(v) /\ x \in Left
      BY <1>3, OlderRanksLower
    <3> QED  BY <1>1, <1>2, <1>3, <3>1, RankType
  <2>2. IsFiniteSet(Got)
    BY <1>1, FiniteParts
  <2>3. Cardinality(Older) <= Cardinality(Got)
    <3> HIDE DEF Older, Got
    <3> QED  BY <2>1, <2>2, FS_Subset
  <2> QED  BY <2>3 DEF Rank
<1>7. /\ Cardinality(Got) \in Nat
      /\ Cardinality({x \in ids : owner[x] = w}) \in Nat
  BY <1>1, FiniteParts
<1> QED  BY <1>3, <1>5, <1>6, <1>7 DEF ShareOf

(* db.wfq_claim: no SELECT passes over an older row of the same user, nor  *)
(* leaves a slot unused while a row waits.                                 *)
THEOREM OldestFirstAndFullHolds == Spec => OldestFirstAndFull
<1> DEFINE Good ==
      \A d \in Dispatchers : Pick(d) =>
        LET ids == picked'[d] IN
        /\ \A v \in ids, w \in Pending \ ids :
              owner[v] = owner[w] => <<w, v>> \notin before
        /\ ids # Pending => Cardinality(ids) = slots[d]
<1>1. TypeOK /\ CreatedInTurn /\ [Next]_vars => [Good]_vars
  <2> SUFFICES ASSUME TypeOK, CreatedInTurn, NEW d \in Dispatchers, Pick(d)
               PROVE  LET ids == picked'[d] IN
                      /\ \A v \in ids, w \in Pending \ ids :
                           owner[v] = owner[w] => <<w, v>> \notin before
                      /\ ids # Pending => Cardinality(ids) = slots[d]
    OBVIOUS
  <2>1. picked'[d] = FairPick(slots[d]) /\ slots[d] \in Nat
    BY DispatchAssumption DEF TypeOK, Pick
  <2>2. ASSUME NEW v \in FairPick(slots[d]),
               NEW w \in Pending \ FairPick(slots[d]),
               owner[v] = owner[w], <<w, v>> \in before
        PROVE  FALSE
    <3>1. v \in Pending /\ v \in Videos /\ w \in Videos
      BY PendingFinite DEF FairPick
    <3>2. Rank(w) < Rank(v) /\ Rank(w) \in Nat /\ Rank(v) \in Nat
      BY <2>2, <3>1, OlderRanksLower, RankType
    <3>3. FairerThan(v, w)
      BY <2>1, FairPickFromFront
    <3> QED  BY <3>2, <3>3 DEF FairerThan
  <2> QED  BY <2>1, <2>2, FairPickFull
<1> QED  BY <1>1, InTurn, PTL DEF Spec, OldestFirstAndFull

(* db.wfq_claim, docstring: whoever dumps many videos `only gets one slot  *)
(* per round, exactly like the others'.                                    *)
THEOREM FairShareHolds == Spec => FairShare
<1> DEFINE Fair ==
      \A d \in Dispatchers : Pick(d) =>
        \A u, w \in Users :
          (\E v \in Pending \ picked'[d] : owner[v] = u)
            => ShareOf(w, picked'[d]) <= ShareOf(u, picked'[d]) + 1
<1>1. TypeOK /\ CreatedInTurn /\ [Next]_vars => [Fair]_vars
  <2> SUFFICES ASSUME TypeOK, CreatedInTurn, NEW d \in Dispatchers, Pick(d),
                      NEW u \in Users, NEW w \in Users,
                      \E v \in Pending \ picked'[d] : owner[v] = u
               PROVE  ShareOf(w, picked'[d]) <= ShareOf(u, picked'[d]) + 1
    OBVIOUS
  <2>1. picked'[d] = FairPick(slots[d]) /\ slots[d] \in Nat
    BY DispatchAssumption DEF TypeOK, Pick
  <2> QED  BY <2>1, RoundsFair
<1> QED  BY <1>1, InTurn, PTL DEF Spec, FairShare
=============================================================================
