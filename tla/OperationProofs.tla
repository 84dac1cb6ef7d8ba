-------------------------- MODULE OperationProofs --------------------------
(* Proofs about what runs by itself, the two specifications that           *)
(* MCOperation puts to TLC: Metering, for any replicas, calls, faults and  *)
(* limits, and Startup, for any samples, workers and failures.             *)
EXTENDS Metering, Startup, FiniteSetTheorems, SequenceTheorems, TLAPS

-----------------------------------------------------------------------------
(* Metering: what is counted in Redis.                                     *)

(* The types that these proofs need; the deques of RateOwn are not in them.*)
NumbersOK ==
    /\ phase \in 0 .. RateWindow - 1
    /\ used \in 0 .. RateMax + 1 /\ ttl \in 0 .. Never
    /\ passed \in Nat /\ total \in Nat /\ events \in Nat /\ seen \in Nat
    /\ at \in [Calls -> Steps] /\ host \in [Calls -> Replicas]

(* inc() has counted, and has yet to write to Redis.                       *)
Writing == {c \in Calls : at[c] \in {"inc_client", "inc_connect", "inc_write"}}

(* RateBudget is not inductive: the key must not expire within its bucket, *)
(* and must have counted all that it let pass.                             *)
KeyLives == ttl = Never \/ ttl + phase >= RateWindow + 1
Passed   == passed <= used /\ passed <= RateMax

(* TotalsTrue is not either: each inc() adds to the total once at most.    *)
Written == total + Cardinality(Writing) <= events

MeterInv == NumbersOK /\ KeyLives /\ Passed /\ Written /\ seen <= total

LEMMA WritingFinite ==
    /\ IsFiniteSet(Writing) /\ Cardinality(Writing) \in Nat
    /\ IsFiniteSet(Writing') /\ Cardinality(Writing') \in Nat
BY HostsAssumption, FS_Subset, FS_CardinalityType DEF Writing

LEMMA FewerWriting ==
    ASSUME Writing' \subseteq Writing
    PROVE  Cardinality(Writing') <= Cardinality(Writing)
BY WritingFinite, FS_Subset

LEMMA OneMoreWriting ==
    ASSUME NEW c \in Calls, Writing' \subseteq Writing \union {c}
    PROVE  Cardinality(Writing') <= Cardinality(Writing) + 1
<1>0. /\ IsFiniteSet(Writing \union {c})
      /\ Cardinality(Writing \union {c}) =
           IF c \in Writing THEN Cardinality(Writing)
           ELSE Cardinality(Writing) + 1
  BY WritingFinite, FS_AddElement
<1>1. /\ IsFiniteSet(Writing \union {c})
      /\ Cardinality(Writing \union {c}) <= Cardinality(Writing) + 1
  BY <1>0, WritingFinite
<1>2. Cardinality(Writing \union {c}) \in Nat
  BY <1>1, FS_CardinalityType
<1>3. Cardinality(Writing') <= Cardinality(Writing \union {c})
  BY <1>1, FS_Subset
<1> QED  BY <1>1, <1>2, <1>3, WritingFinite

LEMMA OneLessWriting ==
    ASSUME NEW c \in Writing, Writing' \subseteq Writing \ {c}
    PROVE  Cardinality(Writing') <= Cardinality(Writing) - 1
<1>1. /\ IsFiniteSet(Writing \ {c})
      /\ Cardinality(Writing \ {c}) = Cardinality(Writing) - 1
  BY WritingFinite, FS_RemoveElement
<1>2. Cardinality(Writing') <= Cardinality(Writing \ {c})
  BY <1>1, FS_Subset
<1> QED  BY <1>1, <1>2

LEMMA MeterInitInv == MeterInit => MeterInv
<1> SUFFICES ASSUME MeterInit PROVE MeterInv
  OBVIOUS
<1>1. NumbersOK
  BY HostsAssumption, NumbersAssumption
     DEF MeterInit, NumbersOK, Never, Steps
<1>2. Cardinality(Writing) = 0
  <2>1. Writing = {}
    BY DEF MeterInit, Writing
  <2> QED  BY <2>1, FS_EmptySet
<1> QED  BY <1>1, <1>2, NumbersAssumption
         DEF MeterInit, MeterInv, KeyLives, Passed, Written

(* A call takes a step and counts nothing.                                 *)
LEMMA QuietStep ==
    ASSUME MeterInv, NEW c \in Calls, NEW step \in Steps, Go(c, step),
           step \notin {"inc_client", "inc_connect", "inc_write"}
             \/ c \in Writing,
           UNCHANGED <<fixed, phase, used, passed, total, events>>,
           ttl' = ttl \/ ttl' = RateWindow + 1,
           seen' \in {seen, total}
    PROVE  MeterInv'
<1>1. NumbersOK'
  BY NumbersAssumption DEF MeterInv, NumbersOK, Go, Never, fixed
<1>2. Writing' \subseteq Writing
  BY DEF MeterInv, NumbersOK, Go, Writing
<1>3. Written'
  BY <1>2, FewerWriting, WritingFinite DEF MeterInv, NumbersOK, Written
<1>4. KeyLives' /\ Passed' /\ seen' <= total'
  BY NumbersAssumption
     DEF MeterInv, NumbersOK, KeyLives, Passed, Never
<1> QED  BY <1>1, <1>3, <1>4 DEF MeterInv

LEMMA MeterStepInv == MeterInv /\ [MeterNext]_meterVars => MeterInv'
<1> SUFFICES ASSUME MeterInv, [MeterNext]_meterVars PROVE MeterInv'
  OBVIOUS
<1> USE DEF redisVars, replicaVars, historyVars
<1>0. NumbersOK
  BY DEF MeterInv
<1>a. ASSUME NEW c \in Calls, NEW step \in Steps, Go(c, step),
             UNCHANGED <<fixed, phase, redisVars, historyVars>>,
             step \notin {"inc_client", "inc_connect", "inc_write"}
               \/ c \in Writing
      PROVE  MeterInv'
  BY <1>a, QuietStep
<1>1. ASSUME NEW c \in Calls,
             AskRate(c) \/ RateFind(c) \/ RateConnect(c) \/ Scrape(c)
      PROVE  MeterInv'
  <2>1. PICK step \in Steps :
          /\ Go(c, step)
          /\ step \notin {"inc_client", "inc_connect", "inc_write"}
    BY <1>1 DEF AskRate, RateFind, RateConnect, Scrape, FindClient, Connect,
                Steps
  <2> QED  BY <1>a, <1>1, <2>1
           DEF AskRate, RateFind, RateConnect, Scrape, FindClient, Connect
<1>2. ASSUME NEW c \in Calls, RateIncr(c) PROVE MeterInv'
  <2>1. PICK step \in {"rate_first", "rate_own", "idle"} : Go(c, step)
    BY <1>2 DEF RateIncr
  <2>2. Incr \/ UNCHANGED <<used, passed>>
    BY <1>2 DEF RateIncr
  <2>3. used' \in 0 .. RateMax + 1 /\ passed' \in Nat /\ Passed'
    BY <1>0, <2>2, NumbersAssumption DEF Incr, MeterInv, NumbersOK, Passed
  <2>4. at' \in [Calls -> Steps]
    BY <1>0, <2>1 DEF NumbersOK, Go, Steps
  <2>5. Writing' \subseteq Writing
    BY <1>0, <2>1 DEF NumbersOK, Go, Writing
  <2>6. Cardinality(Writing') <= Cardinality(Writing)
    BY <2>5, FewerWriting
  <2>7. NumbersOK' /\ KeyLives' /\ (seen <= total)'
    BY <1>0, <1>2, <2>3, <2>4
       DEF RateIncr, NumbersOK, KeyLives, MeterInv, fixed
  <2>8. Written'
    BY <1>0, <1>2, <2>6, WritingFinite
       DEF RateIncr, NumbersOK, Written, MeterInv
  <2> QED  BY <2>3, <2>7, <2>8 DEF MeterInv
<1>3. ASSUME NEW c \in Calls, RateExpire(c) PROVE MeterInv'
  <2>1. PICK step \in {"idle", "rate_own"} : Go(c, step)
    BY <1>3 DEF RateExpire
  <2> QED  BY <1>3, <2>1, QuietStep DEF RateExpire, Steps
<1>4. ASSUME NEW c \in Calls, RateOwn(c) PROVE MeterInv'
  BY <1>4, QuietStep DEF RateOwn, Steps
<1>5. ASSUME NEW c \in Calls, Count(c) PROVE MeterInv'
  <2>1. /\ at' \in [Calls -> Steps] /\ Writing' \subseteq Writing \union {c}
        /\ events' = events + 1
        /\ UNCHANGED <<fixed, phase, used, ttl, total, passed, seen>>
    BY <1>0, <1>5 DEF Count, Go, NumbersOK, Writing, Steps
  <2>2. Cardinality(Writing') <= Cardinality(Writing) + 1
    BY <2>1, OneMoreWriting
  <2>3. NumbersOK'
    BY <1>0, <2>1 DEF NumbersOK, fixed
  <2>4. Written'
    BY <1>0, <2>1, <2>2, WritingFinite DEF NumbersOK, Written, MeterInv
  <2> QED  BY <2>1, <2>3, <2>4 DEF MeterInv, KeyLives, Passed
<1>6. ASSUME NEW c \in Calls, Write(c) PROVE MeterInv'
  <2>1. /\ at' \in [Calls -> Steps] /\ c \in Writing
        /\ Writing' \subseteq Writing \ {c}
        /\ total' \in {total, total + 1}
        /\ UNCHANGED <<fixed, phase, used, ttl, events, passed, seen>>
    BY <1>0, <1>6 DEF Write, Go, NumbersOK, Writing, Steps
  <2>2. Cardinality(Writing') <= Cardinality(Writing) - 1
    BY <2>1, OneLessWriting
  <2>3. NumbersOK' /\ (seen <= total)'
    BY <1>0, <2>1 DEF NumbersOK, fixed, MeterInv
  <2>4. Written'
    BY <1>0, <2>1, <2>2, WritingFinite DEF NumbersOK, Written, MeterInv
  <2> QED  BY <2>1, <2>3, <2>4 DEF MeterInv, KeyLives, Passed
<1>7. ASSUME NEW c \in Calls, MetricStep(c) PROVE MeterInv'
  <2>1. CASE Write(c)
    BY <1>6, <2>1
  <2>2. CASE Read(c)
    BY <2>2, QuietStep DEF Read, Steps
  <2>3. CASE \/ FindClient(c, "scrape_client", "scrape_connect",
                           "scrape_read", "idle")
             \/ Connect(c, "scrape_connect", "scrape_read", "idle")
    <3>1. PICK step \in {"scrape_connect", "scrape_read", "idle"} : Go(c, step)
      BY <2>3 DEF FindClient, Connect
    <3> QED  BY <1>a, <2>3, <3>1 DEF FindClient, Connect, Steps
  <2>4. CASE \/ FindClient(c, "inc_client", "inc_connect", "inc_write", "idle")
             \/ Connect(c, "inc_connect", "inc_write", "idle")
    <3>1. PICK step \in {"inc_connect", "inc_write", "idle"} : Go(c, step)
      BY <2>4 DEF FindClient, Connect
    <3>2. c \in Writing
      BY <2>4 DEF FindClient, Connect, Writing
    <3> QED  BY <1>a, <2>4, <3>1, <3>2 DEF FindClient, Connect, Steps
  <2> QED  BY <1>7, <2>1, <2>2, <2>3, <2>4 DEF MetricStep
<1>8. CASE Tick
  <2>1. /\ at' \in [Calls -> Steps] /\ Writing' \subseteq Writing
        /\ UNCHANGED <<fixed, total, events, seen>>
    BY <1>0, <1>8 DEF Tick, NumbersOK, Writing, Steps
  <2>2. Cardinality(Writing') <= Cardinality(Writing)
    BY <2>1, FewerWriting
  <2>3. ttl = 1 => phase + 1 = RateWindow
    BY <1>0, NumbersAssumption
       DEF MeterInv, NumbersOK, KeyLives, Never
  <2>4. /\ phase' \in 0 .. RateWindow - 1
        /\ used' \in 0 .. RateMax + 1 /\ ttl' \in 0 .. Never
        /\ passed' \in Nat /\ KeyLives' /\ Passed'
    BY <1>0, <1>8, <2>3, NumbersAssumption
       DEF Tick, MeterInv, NumbersOK, KeyLives, Passed, Never
  <2>5. NumbersOK' /\ (seen <= total)'
    BY <1>0, <2>1, <2>4 DEF NumbersOK, MeterInv, fixed
  <2>6. Written'
    BY <1>0, <2>1, <2>2, WritingFinite DEF NumbersOK, Written, MeterInv
  <2> QED  BY <2>4, <2>5, <2>6 DEF MeterInv
<1>9. CASE RedisTurns \/ UNCHANGED meterVars
  <2>1. UNCHANGED <<fixed, phase, used, ttl, total, at, passed, events, seen>>
    BY <1>9 DEF RedisTurns, meterVars
  <2> QED  BY <1>0, <2>1
           DEF MeterInv, NumbersOK, KeyLives, Passed, Written, Writing, fixed
<1>10. ASSUME NEW r \in Replicas, Stop(r) PROVE MeterInv'
  <2>1. /\ at' \in [Calls -> Steps] /\ Writing' \subseteq Writing
        /\ UNCHANGED <<fixed, phase, used, ttl, total, passed, events, seen>>
    BY <1>0, <1>10 DEF Stop, NumbersOK, Writing, Steps
  <2>2. Cardinality(Writing') <= Cardinality(Writing)
    BY <2>1, FewerWriting
  <2>3. Written'
    BY <1>0, <2>1, <2>2, WritingFinite DEF NumbersOK, Written, MeterInv
  <2> QED  BY <1>0, <2>1, <2>3 DEF MeterInv, NumbersOK, KeyLives, Passed, fixed
<1> QED
  BY <1>1, <1>2, <1>3, <1>4, <1>5, <1>7, <1>8, <1>9, <1>10 DEF MeterNext

(* `Monotonic across restarts': for any replicas, which may all stop, and  *)
(* any Redis that keeps what it holds.                                     *)
THEOREM TotalsTrueHolds == MeterSpec => []TotalsTrue
<1>1. MeterInv => TotalsTrue
  BY WritingFinite DEF MeterInv, NumbersOK, Written, TotalsTrue
<1> QED  BY <1>1, MeterInitInv, MeterStepInv, PTL DEF MeterSpec

-----------------------------------------------------------------------------
(* Metering: what a replica counts by itself.                              *)

(* Deques of ages, oldest first.                                           *)
Deque(ages) ==
    /\ ages \in Seq(Nat)
    /\ \A i, j \in 1 .. Len(ages) : i <= j => ages[j] <= ages[i]

(* What popleft leaves is the rest of the deque, all of it in the window.  *)
LEMMA YoungRest ==
    ASSUME NEW ages, Deque(ages), NEW most \in Nat
    PROVE  \E k \in 0 .. Len(ages) :
             /\ Deque(Young(ages, most))
             /\ Len(Young(ages, most)) = Len(ages) - k
             /\ \A i \in 1 .. Len(ages) - k :
                  Young(ages, most)[i] = ages[k + i]
             /\ \A i \in 1 .. Len(ages) : ages[i] > most <=> i <= k
<1> DEFINE n == Len(ages)
           S == {i \in 1 .. n : ages[i] > most}
           k == Cardinality(S)
<1>t. ages \in Seq(Nat) /\ n \in Nat /\ DOMAIN ages = 1 .. n
      /\ \A i \in 1 .. n : ages[i] \in Nat
  BY DEF Deque
<1>1. ASSUME NEW i \in 0 .. n
      PROVE  IsFiniteSet(1 .. i) /\ Cardinality(1 .. i) = i
  <2>1. /\ IsFiniteSet(1 .. i)
        /\ Cardinality(1 .. i) = IF 1 > i THEN 0 ELSE i - 1 + 1
    BY FS_Interval
  <2> QED  BY <2>1
<1>2. IsFiniteSet(S) /\ k \in 0 .. n
  <2>1. IsFiniteSet(S) /\ k <= n
    BY <1>t, <1>1, FS_Subset
  <2> QED  BY <1>t, <2>1, FS_CardinalityType
<1>3. ASSUME NEW i \in 1 .. n, ages[i] > most PROVE i <= k
  <2>1. 1 .. i \subseteq S
    BY <1>3, <1>t DEF Deque
  <2>2. Cardinality(1 .. i) <= k
    BY <1>2, <2>1, FS_Subset
  <2>3. Cardinality(1 .. i) = i
    BY <1>1
  <2> QED  BY <2>2, <2>3
<1>4. ASSUME NEW i \in 1 .. n, ~ (ages[i] > most) PROVE ~ (i <= k)
  <2>1. S \subseteq 1 .. i - 1
    BY <1>4, <1>t DEF Deque
  <2>2. IsFiniteSet(1 .. i - 1) /\ Cardinality(1 .. i - 1) = i - 1
    BY <1>t, <1>1
  <2>3. k <= i - 1
    BY <2>1, <2>2, FS_Subset
  <2> QED  BY <1>2, <2>3
<1>5. Young(ages, most) = SubSeq(ages, 1 + k, n)
  BY <1>t DEF Young
<1>o. \A i, j \in 1 .. n : i <= j => ages[j] <= ages[i]
  BY DEF Deque
<1> HIDE DEF k, S, n
<1>6. /\ SubSeq(ages, 1 + k, n) \in Seq(Nat)
      /\ Len(SubSeq(ages, 1 + k, n)) = n - k
      /\ \A i \in 1 .. n - k : SubSeq(ages, 1 + k, n)[i] = ages[k + i]
  <2>1. 1 + k \in Int /\ n \in Int /\ n - (1 + k) + 1 = n - k
        /\ \A i \in 1 + k .. n : ages[i] \in Nat
    BY <1>t, <1>2
  <2>2. /\ SubSeq(ages, 1 + k, n) \in Seq(Nat)
        /\ Len(SubSeq(ages, 1 + k, n)) =
             IF 1 + k <= n THEN n - (1 + k) + 1 ELSE 0
        /\ \A i \in 1 .. n - (1 + k) + 1 :
             SubSeq(ages, 1 + k, n)[i] = ages[1 + k + i - 1]
    BY <2>1, SubSeqProperties
  <2>3. \A i \in 1 .. n - k : 1 + k + i - 1 = k + i
    BY <1>t, <1>2
  <2> QED  BY <1>t, <1>2, <2>1, <2>2, <2>3
<1>7. Deque(Young(ages, most))
  <2>1. ASSUME NEW i \in 1 .. n - k, NEW j \in 1 .. n - k, i <= j
        PROVE  SubSeq(ages, 1 + k, n)[j] <= SubSeq(ages, 1 + k, n)[i]
    <3>1. k + i \in 1 .. n /\ k + j \in 1 .. n /\ k + i <= k + j
      BY <1>t, <1>2, <2>1
    <3> QED  BY <1>6, <1>o, <3>1
  <2> QED  BY <1>5, <1>6, <2>1 DEF Deque
<1> QED  BY <1>2, <1>3, <1>4, <1>5, <1>6, <1>7 DEF n

LEMMA OlderRest ==
    ASSUME NEW ages, Deque(ages), NEW most \in Nat
    PROVE  /\ Deque(Older(ages, most)) /\ Len(Older(ages, most)) = Len(ages)
           /\ \A i \in 1 .. Len(ages) :
                Older(ages, most)[i] =
                  IF ages[i] < most THEN ages[i] + 1 ELSE most
<1> DEFINE n == Len(ages)
<1>1. ages \in Seq(Nat) /\ n \in Nat /\ DOMAIN ages = 1 .. n
      /\ \A i \in 1 .. n : ages[i] \in Nat
  BY DEF Deque
<1>2. Older(ages, most) = [i \in 1 .. n |->
        IF ages[i] < most THEN ages[i] + 1 ELSE most]
  BY <1>1 DEF Older
<1>3. Older(ages, most) \in [1 .. n -> Nat]
  BY <1>1, <1>2
<1>4. Older(ages, most) \in Seq(Nat) /\ Len(Older(ages, most)) = n
  BY <1>1, <1>3
<1> QED  BY <1>1, <1>2, <1>4 DEF Deque

LEMMA AppendRest ==
    ASSUME NEW ages, Deque(ages)
    PROVE  /\ Deque(Append(ages, 0)) /\ Len(Append(ages, 0)) = Len(ages) + 1
           /\ \A i \in 1 .. Len(ages) : Append(ages, 0)[i] = ages[i]
           /\ Append(ages, 0)[Len(ages) + 1] = 0
<1>1. ages \in Seq(Nat) /\ Len(ages) \in Nat
  BY DEF Deque
<1>2. /\ Append(ages, 0) \in Seq(Nat) /\ Len(Append(ages, 0)) = Len(ages) + 1
      /\ \A i \in 1 .. Len(ages) : Append(ages, 0)[i] = ages[i]
      /\ Append(ages, 0)[Len(ages) + 1] = 0
  BY <1>1
<1> QED  BY <1>1, <1>2 DEF Deque

(* RateBudget does not mention _hits.  What the replica let pass within    *)
(* the window is the end of its deque: so none of it is forgotten.         *)
EndOf(mine, ages) ==
    /\ Len(mine) <= Len(ages)
    /\ \A i \in 1 .. Len(mine) :
         /\ mine[i] = ages[Len(ages) - Len(mine) + i]
         /\ mine[i] <= RateWindow

OwnTrue(r) ==
    /\ Deque(hits[r]) /\ Deque(own[r]) /\ EndOf(own[r], hits[r])
    /\ Len(own[r]) <= RateMax

OwnInv ==
    /\ hits \in [Replicas -> Seq(Nat)] /\ own \in [Replicas -> Seq(Nat)]
    /\ \A r \in Replicas : OwnTrue(r)

LEMMA NothingOwn == Deque(<<>>) /\ EndOf(<<>>, <<>>) /\ Len(<<>>) <= RateMax
BY NumbersAssumption DEF Deque, EndOf

(* What popleft takes of the deque is nothing of its end in the window.    *)
LEMMA EndStays ==
    ASSUME NEW r \in Replicas, OwnTrue(r)
    PROVE  Deque(Kept(r)) /\ EndOf(own[r], Kept(r))
<1>1. RateWindow \in Nat
  BY NumbersAssumption
<1>2. PICK k \in 0 .. Len(hits[r]) :
        /\ Deque(Young(hits[r], RateWindow))
        /\ Len(Young(hits[r], RateWindow)) = Len(hits[r]) - k
        /\ \A i \in 1 .. Len(hits[r]) - k :
             Young(hits[r], RateWindow)[i] = hits[r][k + i]
        /\ \A i \in 1 .. Len(hits[r]) : hits[r][i] > RateWindow <=> i <= k
  BY <1>1, YoungRest DEF OwnTrue
<1> DEFINE n == Len(hits[r])
           m == Len(own[r])
<1>3. n \in Nat /\ m \in Nat /\ m <= n
  BY DEF OwnTrue, Deque, EndOf
<1>e. \A i \in 1 .. m : own[r][i] = hits[r][n - m + i] /\ own[r][i] <= RateWindow
  BY DEF OwnTrue, EndOf
<1>d. \A i \in 1 .. n : hits[r][i] \in Nat
  BY DEF OwnTrue, Deque
<1>y. /\ Deque(Kept(r)) /\ Len(Kept(r)) = n - k
      /\ \A i \in 1 .. n - k : Kept(r)[i] = hits[r][k + i]
      /\ \A i \in 1 .. n : hits[r][i] > RateWindow <=> i <= k
      /\ k \in 0 .. n
  BY <1>2 DEF Kept
<1>m. m = Len(own[r])
  OBVIOUS
<1> HIDE DEF m, n
<1>4. m <= n - k
  <2>1. CASE m = 0
    BY <1>y, <1>3, <2>1
  <2>2. CASE m # 0
    <3>1. 1 \in 1 .. m /\ n - m + 1 \in 1 .. n
      BY <1>3, <2>2
    <3>2. hits[r][n - m + 1] <= RateWindow /\ hits[r][n - m + 1] \in Nat
      BY <1>e, <1>d, <3>1
    <3>3. ~ (n - m + 1 <= k)
      BY <1>1, <1>y, <3>1, <3>2
    <3> QED  BY <1>3, <1>y, <3>3
  <2> QED  BY <2>1, <2>2
<1>5. ASSUME NEW i \in 1 .. m
      PROVE  own[r][i] = Kept(r)[(n - k) - m + i] /\ own[r][i] <= RateWindow
  <2>1. (n - k) - m + i \in 1 .. n - k /\ k + ((n - k) - m + i) = n - m + i
    BY <1>3, <1>y, <1>4
  <2> QED  BY <1>e, <1>y, <2>1
<1> QED  BY <1>m, <1>y, <1>4, <1>5 DEF EndOf

LEMMA OwnInit == MeterInit => OwnInv
BY NothingOwn DEF MeterInit, OwnInv, OwnTrue

LEMMA OwnStep == OwnInv /\ [MeterNext]_meterVars => OwnInv'
<1> SUFFICES ASSUME OwnInv, [MeterNext]_meterVars PROVE OwnInv'
  OBVIOUS
<1> USE DEF redisVars, replicaVars, historyVars
<1>s. ASSUME UNCHANGED <<hits, own>> PROVE OwnInv'
  BY <1>s DEF OwnInv, OwnTrue, EndOf, Deque
<1>1. ASSUME NEW c \in Calls, RateOwn(c) PROVE OwnInv'
  <2>1. CASE host[c] \notin Replicas
    <3>1. UNCHANGED <<hits, own>>
      BY <1>1, <2>1 DEF RateOwn, OwnInv
    <3> QED  BY <1>s, <3>1
  <2>2. CASE host[c] \in Replicas
    <3>0. PICK r \in Replicas : r = host[c]
      BY <2>2
    <3>1. OwnTrue(r) /\ Deque(Kept(r)) /\ EndOf(own[r], Kept(r))
      BY EndStays DEF OwnInv
    <3> DEFINE Good(mine, ages) == Deque(ages) /\ Deque(mine)
                 /\ EndOf(mine, ages) /\ Len(mine) <= RateMax
    <3>2. ASSUME NEW ages, NEW mine, Good(mine, ages),
                 hits' = [hits EXCEPT ![r] = ages],
                 own' = [own EXCEPT ![r] = mine]
          PROVE  OwnInv'
      <4>1. /\ hits'[r] = ages /\ own'[r] = mine
            /\ \A q \in Replicas \ {r} : hits'[q] = hits[q] /\ own'[q] = own[q]
            /\ hits' \in [Replicas -> Seq(Nat)]
            /\ own' \in [Replicas -> Seq(Nat)]
        BY <3>2 DEF OwnInv, Deque
      <4>2. OwnTrue(r)'
        BY <3>2, <4>1 DEF OwnTrue, EndOf, Deque
      <4>3. ASSUME NEW q \in Replicas \ {r} PROVE OwnTrue(q)'
        BY <4>1 DEF OwnInv, OwnTrue, EndOf, Deque
      <4> QED  BY <4>1, <4>2, <4>3 DEF OwnInv
    <3>3. CASE Len(Kept(r)) >= RateMax
      <4>1. Good(own[r], Kept(r))
        BY <3>1 DEF OwnTrue
      <4>2. hits' = [hits EXCEPT ![r] = Kept(r)] /\ own' = own
        BY <1>1, <3>0, <3>3, NumbersAssumption, <3>1 DEF RateOwn, Deque
      <4>3. own' = [own EXCEPT ![r] = own[r]]
        BY <4>2 DEF OwnInv
      <4> QED  BY <3>2, <4>1, <4>2, <4>3
    <3>4. CASE Len(Kept(r)) < RateMax
      <4>1. hits' = [hits EXCEPT ![r] = Append(Kept(r), 0)]
            /\ own' = [own EXCEPT ![r] = Append(own[r], 0)]
        BY <1>1, <3>0, <3>4, <3>1, NumbersAssumption DEF RateOwn, Deque
      <4>2. /\ Deque(Append(Kept(r), 0)) /\ Deque(Append(own[r], 0))
            /\ Len(Append(own[r], 0)) <= RateMax
            /\ EndOf(Append(own[r], 0), Append(Kept(r), 0))
        <5> DEFINE n == Len(Kept(r))
                   m == Len(own[r])
        <5>1. n \in Nat /\ m \in Nat /\ m <= n /\ Deque(own[r])
          BY <3>1 DEF OwnTrue, Deque, EndOf
        <5>2. /\ Deque(Append(Kept(r), 0)) /\ Len(Append(Kept(r), 0)) = n + 1
              /\ \A i \in 1 .. n : Append(Kept(r), 0)[i] = Kept(r)[i]
              /\ Append(Kept(r), 0)[n + 1] = 0
          BY <3>1, AppendRest
        <5>3. /\ Deque(Append(own[r], 0)) /\ Len(Append(own[r], 0)) = m + 1
              /\ \A i \in 1 .. m : Append(own[r], 0)[i] = own[r][i]
              /\ Append(own[r], 0)[m + 1] = 0
          BY <5>1, AppendRest
        <5>4. Len(Append(own[r], 0)) <= RateMax
          BY <3>4, <5>1, <5>3, NumbersAssumption
        <5>e. \A i \in 1 .. m : own[r][i] = Kept(r)[n - m + i]
                                /\ own[r][i] <= RateWindow
          BY <3>1 DEF EndOf
        <5>w. RateWindow \in Nat
          BY NumbersAssumption
        <5> HIDE DEF n, m
        <5>5. ASSUME NEW i \in 1 .. m + 1
              PROVE  /\ Append(own[r], 0)[i] =
                          Append(Kept(r), 0)[(n + 1) - (m + 1) + i]
                     /\ Append(own[r], 0)[i] <= RateWindow
          <6>1. CASE i = m + 1
            <7>1. (n + 1) - (m + 1) + i = n + 1
              BY <5>1, <6>1
            <7> QED  BY <5>2, <5>3, <5>w, <6>1, <7>1
          <6>2. CASE i # m + 1
            <7>1. /\ i \in 1 .. m /\ n - m + i \in 1 .. n
                  /\ (n + 1) - (m + 1) + i = n - m + i
              BY <5>1, <6>2
            <7>2. own[r][i] = Kept(r)[n - m + i] /\ own[r][i] <= RateWindow
              BY <5>e, <7>1
            <7> QED  BY <5>2, <5>3, <7>1, <7>2
          <6> QED  BY <6>1, <6>2
        <5>6. EndOf(Append(own[r], 0), Append(Kept(r), 0))
          <6>1. m + 1 <= n + 1
            BY <5>1
          <6> QED  BY <5>2, <5>3, <5>5, <6>1 DEF EndOf
        <5> QED  BY <5>2, <5>3, <5>4, <5>6
      <4> QED  BY <3>2, <4>1, <4>2
    <3> QED  BY <3>1, <3>3, <3>4, NumbersAssumption DEF Deque
  <2> QED  BY <2>1, <2>2
<1>2. CASE Tick
  <2>1. ASSUME NEW r \in Replicas PROVE OwnTrue(r)'
    <3> DEFINE young == Young(own[r], RateWindow - 1)
               n == Len(hits[r])
               m == Len(own[r])
    <3>0. RateWindow \in Nat /\ RateWindow - 1 \in Nat /\ RateMax \in Nat
          /\ RateWindow + 1 \in Nat
      BY NumbersAssumption
    <3>1. /\ Deque(hits[r]) /\ Deque(own[r]) /\ n \in Nat /\ m \in Nat
          /\ m <= n /\ m <= RateMax
          /\ \A i \in 1 .. m : own[r][i] \in Nat
                             /\ own[r][i] = hits[r][n - m + i]
      BY DEF OwnInv, OwnTrue, Deque, EndOf
    <3>2. /\ hits'[r] = Older(hits[r], RateWindow + 1)
          /\ own'[r] = Older(young, RateWindow)
      BY <1>2 DEF Tick
    <3>3. PICK k \in 0 .. m :
            /\ Deque(young) /\ Len(young) = m - k
            /\ \A i \in 1 .. m - k : young[i] = own[r][k + i]
            /\ \A i \in 1 .. m : own[r][i] > RateWindow - 1 <=> i <= k
      BY <3>0, <3>1, YoungRest
    <3> HIDE DEF young, n, m
    <3>4. /\ Deque(hits'[r]) /\ Len(hits'[r]) = n
          /\ \A i \in 1 .. n : hits'[r][i] =
               IF hits[r][i] < RateWindow + 1 THEN hits[r][i] + 1
               ELSE RateWindow + 1
      BY <3>0, <3>1, <3>2, OlderRest DEF n
    <3>5. /\ Deque(own'[r]) /\ Len(own'[r]) = m - k
          /\ \A i \in 1 .. m - k : own'[r][i] =
               IF young[i] < RateWindow THEN young[i] + 1 ELSE RateWindow
      BY <3>0, <3>2, <3>3, OlderRest
    <3>6. ASSUME NEW i \in 1 .. m - k
          PROVE  /\ own'[r][i] = hits'[r][n - (m - k) + i]
                 /\ own'[r][i] <= RateWindow
      <4>1. /\ k + i \in 1 .. m /\ ~ (k + i <= k)
            /\ n - m + (k + i) = n - (m - k) + i
            /\ n - (m - k) + i \in 1 .. n
        BY <3>1, <3>3, <3>6
      <4>2. young[i] = own[r][k + i] /\ own[r][k + i] \in Nat
            /\ own[r][k + i] < RateWindow
        BY <3>0, <3>1, <3>3, <4>1
      <4>3. own[r][k + i] = hits[r][n - (m - k) + i]
        BY <3>1, <4>1
      <4>4. hits'[r][n - (m - k) + i] = own[r][k + i] + 1
        BY <3>0, <3>4, <4>1, <4>2, <4>3
      <4>5. own'[r][i] = own[r][k + i] + 1
        BY <3>5, <3>6, <4>2
      <4> QED  BY <3>0, <4>2, <4>4, <4>5
    <3>7. m - k <= n /\ m - k <= RateMax
      BY <3>0, <3>1, <3>3
    <3>8. EndOf(own'[r], hits'[r])
      BY <3>4, <3>5, <3>6, <3>7 DEF EndOf
    <3> QED  BY <3>4, <3>5, <3>7, <3>8 DEF OwnTrue, EndOf
  <2>2. hits' \in [Replicas -> Seq(Nat)] /\ own' \in [Replicas -> Seq(Nat)]
    <3>1. hits' = [r \in Replicas |-> hits'[r]]
          /\ own' = [r \in Replicas |-> own'[r]]
      BY <1>2 DEF Tick
    <3> QED  BY <2>1, <3>1 DEF OwnTrue, Deque
  <2> QED  BY <2>1, <2>2 DEF OwnInv
<1>3. ASSUME NEW r \in Replicas, Stop(r) PROVE OwnInv'
  <2>1. hits' = [hits EXCEPT ![r] = <<>>] /\ own' = [own EXCEPT ![r] = <<>>]
    BY <1>3 DEF Stop
  <2> QED  BY <2>1, NothingOwn DEF OwnInv, OwnTrue, EndOf
<1>4. ASSUME NEW c \in Calls, AskRate(c) \/ RateFind(c) \/ RateConnect(c)
               \/ RateIncr(c) \/ RateExpire(c) \/ Count(c) \/ Scrape(c)
               \/ MetricStep(c)
      PROVE  OwnInv'
  BY <1>4, <1>s DEF AskRate, RateFind, RateConnect, RateIncr, RateExpire,
     Count, Scrape, MetricStep, FindClient, Connect, Write, Read
<1>5. CASE RedisTurns \/ UNCHANGED meterVars
  BY <1>5, <1>s DEF RedisTurns, meterVars
<1> QED  BY <1>1, <1>2, <1>3, <1>4, <1>5 DEF MeterNext

(* RateBudget: for any replicas and any spread of the calls over them, any *)
(* limit and window, and Redis that comes and goes at any time, all        *)
(* replicas let at most RATE_MAX requests of a user pass by one bucket of  *)
(* Redis, because its key outlives it, and each replica at most RATE_MAX   *)
(* in any RATE_WINDOW by itself.                                           *)
THEOREM RateBudgetHolds == MeterSpec => []RateBudget
<1>1. MeterInv /\ OwnInv => RateBudget
  BY DEF MeterInv, Passed, OwnInv, OwnTrue, RateBudget
<1> QED
  BY <1>1, MeterInitInv, MeterStepInv, OwnInit, OwnStep, PTL DEF MeterSpec

-----------------------------------------------------------------------------
(* What MeterTypeOK says beyond the invariants above: no replica counts    *)
(* more than all the inc() calls, and no age runs on past the window.      *)
ReplicasOK ==
    /\ host \in Hosts /\ calling \in {"check_rate", "metrics"}
    /\ up \in BOOLEAN
    /\ client \in [Replicas -> BOOLEAN]
    /\ cool \in [Replicas -> 0 .. Cooldown]
    /\ events <= MaxEvents
    /\ counter \in [Replicas -> Nat]
    /\ \A r \in Replicas : counter[r] <= events

AgesOK ==
    \A r \in Replicas : \A i \in 1 .. Len(hits[r]) :
        hits[r][i] <= RateWindow + 1

LEMMA ReplicasStep ==
    ASSUME ReplicasOK, events \in Nat, [MeterNext]_meterVars
    PROVE  ReplicasOK'
<1> USE DEF fixed, redisVars, replicaVars, historyVars
<1>0. Cooldown \in Nat /\ MaxEvents \in Nat
  BY NumbersAssumption
<1>h. \A c \in Calls : host[c] \in Replicas
  BY HostsAssumption DEF ReplicasOK
<1>1. ASSUME UNCHANGED <<fixed, up, client, cool, events, counter>>
      PROVE  ReplicasOK'
  BY <1>1 DEF ReplicasOK
<1>2. ASSUME NEW c \in Calls, NEW a, NEW b, NEW d, NEW e,
             FindClient(c, a, b, d, e)
      PROVE  ReplicasOK'
  <2>1. cool' \in [Replicas -> 0 .. Cooldown]
    BY <1>0, <1>2 DEF FindClient, ReplicasOK
  <2> QED  BY <1>2, <2>1 DEF FindClient, ReplicasOK
<1>3. ASSUME NEW c \in Calls, NEW a, NEW b, NEW d, Connect(c, a, b, d)
      PROVE  ReplicasOK'
  <2>1. client' \in [Replicas -> BOOLEAN]
    BY <1>3 DEF Connect, ReplicasOK
  <2> QED  BY <1>3, <2>1 DEF Connect, ReplicasOK
<1>4. ASSUME NEW c \in Calls, Count(c) PROVE ReplicasOK'
  <2>1. PICK r \in Replicas : r = host[c]
    BY <1>h
  <2>2. counter' = [counter EXCEPT ![r] = counter[r] + 1]
        /\ events' = events + 1 /\ events < MaxEvents
    BY <1>4, <2>1 DEF Count
  <2>3. counter' \in [Replicas -> Nat]
        /\ \A x \in Replicas : counter'[x] <= events'
    BY <2>2 DEF ReplicasOK
  <2>4. events' <= MaxEvents
    BY <1>0, <2>2
  <2> QED  BY <1>4, <2>3, <2>4 DEF Count, ReplicasOK
<1>5. ASSUME NEW c \in Calls,
             AskRate(c) \/ RateIncr(c) \/ RateExpire(c) \/ RateOwn(c)
               \/ Scrape(c) \/ Write(c) \/ Read(c)
      PROVE  ReplicasOK'
  BY <1>1, <1>5 DEF AskRate, RateIncr, RateExpire, RateOwn, Scrape, Write, Read
<1>6. CASE Tick
  <2>1. cool' \in [Replicas -> 0 .. Cooldown]
    <3>1. \A x \in 0 .. Cooldown :
            (IF x > 0 THEN x - 1 ELSE 0) \in 0 .. Cooldown
      BY <1>0
    <3> QED  BY <1>6, <3>1 DEF Tick, ReplicasOK
  <2> QED  BY <1>6, <2>1 DEF Tick, ReplicasOK
<1>7. CASE RedisTurns
  BY <1>7 DEF RedisTurns, ReplicasOK
<1>8. ASSUME NEW r \in Replicas, Stop(r) PROVE ReplicasOK'
  <2>1. /\ client' \in [Replicas -> BOOLEAN]
        /\ cool' \in [Replicas -> 0 .. Cooldown]
        /\ counter' \in [Replicas -> Nat]
        /\ \A x \in Replicas : counter'[x] <= events
    BY <1>0, <1>8 DEF Stop, ReplicasOK
  <2> QED  BY <1>8, <2>1 DEF Stop, ReplicasOK
<1>9. CASE UNCHANGED meterVars
  BY <1>1, <1>9 DEF meterVars
<1>10. ASSUME NEW c \in Calls,
              RateFind(c) \/ RateConnect(c) \/ MetricStep(c)
       PROVE  ReplicasOK'
  BY <1>2, <1>3, <1>5, <1>10 DEF RateFind, RateConnect, MetricStep
<1> QED  BY <1>4, <1>5, <1>6, <1>7, <1>8, <1>9, <1>10 DEF MeterNext

LEMMA AgesStep ==
    ASSUME AgesOK, OwnInv, ReplicasOK, [MeterNext]_meterVars
    PROVE  AgesOK'
<1> USE DEF redisVars, replicaVars, historyVars
<1>0. RateWindow \in Nat /\ RateWindow + 1 \in Nat
  BY NumbersAssumption
<1>s. ASSUME hits' = hits PROVE AgesOK'
  BY <1>s DEF AgesOK
<1>1. ASSUME NEW c \in Calls, RateOwn(c) PROVE AgesOK'
  <2>1. PICK r \in Replicas : r = host[c]
    BY HostsAssumption DEF ReplicasOK
  <2>2. OwnTrue(r)
    BY DEF OwnInv
  <2>3. PICK k \in 0 .. Len(hits[r]) :
          /\ Deque(Kept(r)) /\ Len(Kept(r)) = Len(hits[r]) - k
          /\ \A i \in 1 .. Len(hits[r]) - k : Kept(r)[i] = hits[r][k + i]
    BY <1>0, <2>2, YoungRest DEF Kept, OwnTrue
  <2>4. Len(hits[r]) \in Nat
    BY <2>2 DEF OwnTrue, Deque
  <2>5. ASSUME NEW i \in 1 .. Len(Kept(r)) PROVE Kept(r)[i] <= RateWindow + 1
    <3>1. k + i \in 1 .. Len(hits[r]) /\ i \in 1 .. Len(hits[r]) - k
      BY <2>3, <2>4
    <3> QED  BY <2>3, <3>1 DEF AgesOK
  <2>6. /\ Len(Append(Kept(r), 0)) = Len(Kept(r)) + 1
        /\ \A i \in 1 .. Len(Kept(r)) : Append(Kept(r), 0)[i] = Kept(r)[i]
        /\ Append(Kept(r), 0)[Len(Kept(r)) + 1] = 0
        /\ Len(Kept(r)) \in Nat
    <3>1. Len(Kept(r)) \in Nat
      BY <2>3 DEF Deque
    <3> QED  BY <2>3, <3>1, AppendRest
  <2>7. ASSUME NEW i \in 1 .. Len(Append(Kept(r), 0))
        PROVE  Append(Kept(r), 0)[i] <= RateWindow + 1
    <3>1. i \in 1 .. Len(Kept(r)) \/ i = Len(Kept(r)) + 1
      BY <2>6
    <3> QED  BY <1>0, <2>5, <2>6, <3>1
  <2>8. PICK ages \in {Kept(r), Append(Kept(r), 0)} :
          hits' = [hits EXCEPT ![r] = ages]
    BY <1>1, <2>1 DEF RateOwn
  <2>9. \A i \in 1 .. Len(ages) : ages[i] <= RateWindow + 1
    BY <2>5, <2>7
  <2>10. \A x \in Replicas : hits'[x] = IF x = r THEN ages ELSE hits[x]
    BY <2>8 DEF OwnInv
  <2> QED  BY <2>9, <2>10 DEF AgesOK
<1>2. CASE Tick
  <2> SUFFICES ASSUME NEW r \in Replicas, NEW i \in 1 .. Len(hits'[r])
               PROVE  hits'[r][i] <= RateWindow + 1
    BY DEF AgesOK
  <2>1. hits'[r] = Older(hits[r], RateWindow + 1) /\ Deque(hits[r])
    BY <1>2 DEF Tick, OwnInv, OwnTrue
  <2>o. /\ Len(hits'[r]) = Len(hits[r])
        /\ \A j \in 1 .. Len(hits[r]) :
             hits'[r][j] = IF hits[r][j] < RateWindow + 1 THEN hits[r][j] + 1
                           ELSE RateWindow + 1
    BY <1>0, <2>1, OlderRest
  <2>2. i \in 1 .. Len(hits[r]) /\ hits[r][i] \in Nat
        /\ hits'[r][i] = IF hits[r][i] < RateWindow + 1 THEN hits[r][i] + 1
                         ELSE RateWindow + 1
    BY <2>1, <2>o DEF Deque
  <2> QED  BY <1>0, <2>2
<1>3. ASSUME NEW r \in Replicas, Stop(r) PROVE AgesOK'
  <2>1. \A x \in Replicas : hits'[x] = IF x = r THEN <<>> ELSE hits[x]
    BY <1>3 DEF Stop, OwnInv
  <2>2. Len(<<>>) = 0
    OBVIOUS
  <2> QED  BY <2>1, <2>2 DEF AgesOK
<1>4. ASSUME NEW c \in Calls, AskRate(c) \/ RateFind(c) \/ RateConnect(c)
               \/ RateIncr(c) \/ RateExpire(c) \/ Count(c) \/ Scrape(c)
               \/ MetricStep(c)
      PROVE  AgesOK'
  BY <1>4, <1>s DEF AskRate, RateFind, RateConnect, RateIncr, RateExpire,
     Count, Scrape, MetricStep, FindClient, Connect, Write, Read
<1>5. CASE RedisTurns \/ UNCHANGED meterVars
  BY <1>5, <1>s DEF RedisTurns, meterVars
<1> QED  BY <1>1, <1>2, <1>3, <1>4, <1>5 DEF MeterNext

(* MeterTypeOK, for any replicas, calls and limits.                        *)
THEOREM MeterTypeCorrect == MeterSpec => []MeterTypeOK
<1>1. MeterInit => ReplicasOK /\ AgesOK
  <2> SUFFICES ASSUME MeterInit PROVE ReplicasOK /\ AgesOK
    OBVIOUS
  <2>1. ReplicasOK
    <3>1. 0 <= MaxEvents /\ 0 \in 0 .. Cooldown
      BY NumbersAssumption
    <3>2. /\ cool \in [Replicas -> 0 .. Cooldown]
          /\ counter \in [Replicas -> Nat]
          /\ \A r \in Replicas : counter[r] = 0
      BY <3>1 DEF MeterInit
    <3>3. up \in BOOLEAN
      BY Zenon DEF MeterInit
    <3>4. client \in [Replicas -> BOOLEAN]
      BY DEF MeterInit
    <3> QED  BY <3>1, <3>2, <3>3, <3>4 DEF MeterInit, ReplicasOK
  <2>2. AgesOK
    <3>1. Len(<<>>) = 0
      OBVIOUS
    <3> QED  BY <3>1 DEF MeterInit, AgesOK
  <2> QED  BY <2>1, <2>2
<1>2. MeterInv => events \in Nat
  BY DEF MeterInv, NumbersOK
<1>3. MeterInv /\ OwnInv /\ ReplicasOK /\ AgesOK => MeterTypeOK
  <2> SUFFICES ASSUME MeterInv, OwnInv, ReplicasOK, AgesOK PROVE MeterTypeOK
    OBVIOUS
  <2>0. RateWindow \in Nat /\ MaxEvents \in Nat
    BY NumbersAssumption
  <2>1. /\ events \in 0 .. MaxEvents /\ total \in 0 .. MaxEvents
        /\ seen \in 0 .. MaxEvents
    BY <2>0, WritingFinite DEF MeterInv, NumbersOK, Written, ReplicasOK
  <2>2. counter \in [Replicas -> 0 .. MaxEvents]
    <3>1. \A r \in Replicas : counter[r] \in Nat /\ counter[r] <= events
      BY DEF ReplicasOK
    <3>2. \A r \in Replicas : counter[r] \in 0 .. MaxEvents
      BY <2>0, <2>1, <3>1
    <3> QED  BY <3>2 DEF ReplicasOK
  <2>3. ASSUME NEW r \in Replicas
        PROVE  /\ hits[r] \in Seq(0 .. RateWindow + 1)
               /\ own[r] \in Seq(0 .. RateWindow)
    <3>1. /\ hits[r] \in Seq(Nat) /\ own[r] \in Seq(Nat)
          /\ \A i \in 1 .. Len(own[r]) : own[r][i] <= RateWindow
          /\ \A i \in 1 .. Len(hits[r]) : hits[r][i] <= RateWindow + 1
      BY DEF OwnInv, OwnTrue, Deque, EndOf, AgesOK
    <3>2. ASSUME NEW ages \in Seq(Nat), NEW most \in Nat,
                 \A i \in 1 .. Len(ages) : ages[i] <= most
          PROVE  ages \in Seq(0 .. most)
      <4>1. Len(ages) \in Nat /\ ages \in [1 .. Len(ages) -> 0 .. most]
        BY <3>2
      <4> QED  BY <4>1
    <3>3. hits[r] \in Seq(0 .. RateWindow + 1)
      <4>1. RateWindow + 1 \in Nat
        BY <2>0
      <4> QED  BY <3>1, <3>2, <4>1
    <3>4. own[r] \in Seq(0 .. RateWindow)
      BY <2>0, <3>1, <3>2
    <3> QED  BY <3>3, <3>4
  <2>4. /\ hits \in [Replicas -> Seq(0 .. RateWindow + 1)]
        /\ own \in [Replicas -> Seq(0 .. RateWindow)]
    BY <2>3 DEF OwnInv
  <2> QED  BY <2>1, <2>2, <2>4
           DEF MeterInv, NumbersOK, ReplicasOK, MeterTypeOK
<1> QED
  BY <1>1, <1>2, <1>3, ReplicasStep, AgesStep, MeterInitInv, MeterStepInv,
     OwnInit, OwnStep, PTL DEF MeterSpec

-----------------------------------------------------------------------------
(* Startup: nothing is up before what it needs is there.                   *)

(* UpMeansReady is not inductive: that the seed is done must itself mean   *)
(* that the samples are indexed, and a service on its way up must have     *)
(* what the steps behind it have made.                                     *)
SeedTrue ==
    /\ indexed \subseteq Samples
    /\ seed \in [at : SeedStages, pass : Nat, todo : SUBSET Samples]
    /\ gate /\ seed.at = "done" => indexed = Samples

StageTrue(s) ==
    /\ gate /\ stage[s] # "down" => indexed = Samples
    /\ stage[s] = "up" /\ s # Api => "visual" \in collections
    /\ stage[s] \notin {"down", "schema"} => "base" \in columns

ReadyInv ==
    /\ gate \in BOOLEAN /\ stage \in [Services -> ServiceStages]
    /\ SeedTrue
    /\ \A s \in Services : StageTrue(s)

(* Each step keeps the types.                                              *)
LEMMA TypeStep == StartTypeOK /\ [StartNext]_startVars => StartTypeOK'
<1> SUFFICES ASSUME StartTypeOK, [StartNext]_startVars PROVE StartTypeOK'
  OBVIOUS
<1>0. /\ gate \in BOOLEAN /\ qdrant \in BOOLEAN /\ warm \in BOOLEAN
      /\ columns \subseteq {"base", "kind"}
      /\ collections \subseteq {"visual", "text"}
      /\ indexed \subseteq Samples
      /\ seed \in [at : SeedStages, pass : 0 .. MaxPasses,
                   todo : SUBSET Samples]
      /\ stage \in [Services -> ServiceStages]
      /\ failures \in 0 .. MaxFailures
  BY DEF StartTypeOK
<1> USE <1>0
<1>1. CASE SeedStarts \/ SeedSchema \/ WaitForClip
  BY <1>1, StartupAssumption
     DEF SeedStarts, SeedSchema, WaitForClip, SeedGoes, SeedStages,
         StartTypeOK
<1>2. CASE NextPass
  <2>1. seed.pass < MaxPasses => seed.pass + 1 \in 0 .. MaxPasses
    BY StartupAssumption
  <2>2. seed' \in [at : SeedStages, pass : 0 .. MaxPasses,
                   todo : SUBSET Samples]
    BY <1>2, <2>1 DEF NextPass, NotIndexed, SeedStages
  <2> QED  BY <1>2, <2>2 DEF NextPass, StartTypeOK
<1>3. CASE \E v \in Samples : IngestSample(v)
  <2>1. PICK v \in Samples : IngestSample(v)
    BY <1>3
  <2>2. seed' \in [at : SeedStages, pass : 0 .. MaxPasses,
                   todo : SUBSET Samples]
    BY <2>1 DEF IngestSample
  <2>3. failures' \in 0 .. MaxFailures /\ indexed' \subseteq Samples
    BY <2>1, StartupAssumption DEF IngestSample
  <2> QED  BY <2>1, <2>2, <2>3 DEF IngestSample, StartTypeOK
<1>4. CASE SeedEnsure
  BY <1>4 DEF SeedEnsure, Create, SeedGoes, SeedStages, StartTypeOK
<1>5. ASSUME NEW s \in Services, Serves(s) PROVE StartTypeOK'
  <2>1. CASE ServiceStarts(s)
    BY <2>1 DEF ServiceStarts, Goes, ServiceStages, StartTypeOK
  <2>2. CASE Migrate(s)
    BY <2>2 DEF Migrate, Goes, ServiceStages, StartTypeOK
  <2>3. CASE EnsureVisual(s)
    BY <2>3 DEF EnsureVisual, Ensure, Create, Goes, ServiceStages, StartTypeOK
  <2>4. CASE s = Api /\ EnsureText
    BY <2>4 DEF EnsureText, Ensure, Create, Goes, ServiceStages, StartTypeOK
  <2> QED  BY <1>5, <2>1, <2>2, <2>3, <2>4 DEF Serves
<1>6. CASE ClipWarm \/ QdrantReturns
  BY <1>6 DEF ClipWarm, QdrantReturns, StartTypeOK
<1>7. CASE Fails
  <2>1. failures' \in 0 .. MaxFailures
    BY <1>7, StartupAssumption DEF Fails
  <2>2. /\ stage' \in [Services -> ServiceStages]
        /\ seed' \in [at : SeedStages, pass : 0 .. MaxPasses,
                      todo : SUBSET Samples]
        /\ qdrant' \in BOOLEAN /\ warm' \in BOOLEAN
    BY <1>7 DEF Fails, Goes, SeedGoes, ServiceStages, SeedStages
  <2> QED  BY <1>7, <2>1, <2>2 DEF Fails, StartTypeOK
<1>8. CASE UNCHANGED startVars
  BY <1>8 DEF startVars, StartTypeOK
<1> QED
  BY <1>1, <1>2, <1>3, <1>4, <1>5, <1>6, <1>7, <1>8 DEF StartNext, Seeds

(* StartTypeOK, for any samples, workers and bounds: the seed never begins *)
(* a pass beyond the last.                                                 *)
THEOREM StartTypeCorrect == StartSpec => []StartTypeOK
<1>1. StartInit => StartTypeOK
  <2>1. 0 \in 0 .. MaxPasses /\ 0 \in 0 .. MaxFailures
    BY StartupAssumption
  <2>2. ASSUME StartInit
        PROVE  /\ seed \in [at : SeedStages, pass : 0 .. MaxPasses,
                           todo : SUBSET Samples]
               /\ stage \in [Services -> ServiceStages]
    BY <2>1, <2>2 DEF StartInit, SeedStages, ServiceStages
  <2> QED  BY <2>1, <2>2 DEF StartInit, StartTypeOK
<1> QED  BY <1>1, TypeStep, PTL DEF StartSpec
-----------------------------------------------------------------------------
(* What is there stays there, and one service moves at a time.             *)
LEMMA OthersStay ==
    ASSUME ReadyInv, NEW s \in Services, NEW next \in ServiceStages,
           Goes(s, next), gate' = gate,
           indexed' = indexed, seed' = seed,
           collections \subseteq collections', columns \subseteq columns',
           StageTrue(s)'
    PROVE  ReadyInv'
<1>1. /\ stage' \in [Services -> ServiceStages]
      /\ \A x \in Services \ {s} : stage'[x] = stage[x]
  BY DEF ReadyInv, Goes
<1> QED  BY <1>1 DEF ReadyInv, StageTrue, SeedTrue

LEMMA SeedStep ==
    ASSUME ReadyInv, gate' = gate, stage' = stage,
           indexed \subseteq indexed', collections \subseteq collections',
           columns \subseteq columns', SeedTrue'
    PROVE  ReadyInv'
BY DEF ReadyInv, StageTrue, SeedTrue

LEMMA ReadyStep == ReadyInv /\ [StartNext]_startVars => ReadyInv'
<1> SUFFICES ASSUME ReadyInv, [StartNext]_startVars PROVE ReadyInv'
  OBVIOUS
<1>0. SeedTrue /\ stage \in [Services -> ServiceStages]
  BY DEF ReadyInv
<1>1. CASE SeedStarts \/ SeedSchema \/ WaitForClip \/ NextPass
  <2>1. SeedTrue'
    <3>1. CASE SeedStarts
      BY <1>0, <3>1 DEF SeedStarts, SeedTrue, SeedStages
    <3>2. CASE SeedSchema
      BY <1>0, <3>2 DEF SeedSchema, SeedGoes, SeedTrue, SeedStages
    <3>3. CASE WaitForClip
      BY <1>0, <3>3
         DEF WaitForClip, SeedGoes, NotIndexed, SeedTrue, SeedStages
    <3>4. CASE NextPass
      <4>1. seed.pass + 1 \in Nat
        BY <1>0 DEF SeedTrue
      <4>2. \/ seed' = [seed EXCEPT !.pass = seed.pass + 1,
                                   !.todo = NotIndexed]
            \/ /\ seed' = [seed EXCEPT !.at = "done"]
               /\ indexed = Samples
            \/ seed' = [seed EXCEPT !.at = "given_up"]
        BY <1>0, <3>4 DEF NextPass, NotIndexed, SeedTrue
      <4>3. seed.at = "pass" /\ UNCHANGED <<indexed, gate>>
        BY <3>4 DEF NextPass
      <4> QED  BY <1>0, <4>1, <4>2, <4>3
               DEF NotIndexed, SeedTrue, SeedStages
    <3> QED  BY <1>1, <3>1, <3>2, <3>3, <3>4
  <2> QED  BY <1>1, <2>1, SeedStep
           DEF SeedStarts, SeedSchema, WaitForClip, NextPass
<1>2. CASE SeedEnsure
  <2>1. SeedTrue' /\ collections \subseteq collections'
    BY <1>0, <1>2 DEF SeedEnsure, Create, SeedGoes, SeedTrue, SeedStages
  <2> QED  BY <1>2, <2>1, SeedStep DEF SeedEnsure
<1>3. ASSUME NEW v \in Samples, IngestSample(v) PROVE ReadyInv'
  <2>1. indexed \subseteq indexed' /\ indexed' \subseteq Samples
    BY <1>0, <1>3 DEF IngestSample, SeedTrue
  <2>2. seed' \in [at : SeedStages, pass : Nat, todo : SUBSET Samples]
        /\ seed'.at = "pass"
    BY <1>0, <1>3 DEF IngestSample, SeedTrue
  <2> QED  BY <1>3, <2>1, <2>2, SeedStep DEF IngestSample, SeedTrue
<1>4. ASSUME NEW s \in Services, ServiceStarts(s) PROVE ReadyInv'
  <2>1. StageTrue(s)'
    BY <1>0, <1>4
       DEF ServiceStarts, Goes, StageTrue, SeedTrue, ServiceStages
  <2> QED  BY <1>4, <2>1, OthersStay DEF ServiceStarts, ServiceStages
<1>5. ASSUME NEW s \in Services, Migrate(s) PROVE ReadyInv'
  <2>1. PICK next \in {"kind", "visual"} : Goes(s, next)
    BY <1>5 DEF Migrate
  <2>2. columns \subseteq columns' /\ "base" \in columns'
    BY <1>5 DEF Migrate, ReadyInv, StageTrue
  <2>3. stage[s] # "down" /\ stage'[s] = next
    BY <1>0, <1>5, <2>1 DEF Migrate, Goes
  <2>4. StageTrue(s)'
    BY <1>5, <2>2, <2>3 DEF Migrate, ReadyInv, StageTrue
  <2> QED  BY <1>5, <2>1, <2>2, <2>4, OthersStay DEF Migrate, ServiceStages
<1>6. ASSUME NEW s \in Services, Serves(s), ~ServiceStarts(s), ~Migrate(s)
      PROVE  ReadyInv'
  <2>1. stage[s] \notin {"down", "schema"}
    BY <1>6 DEF Serves, EnsureVisual, EnsureText, Ensure, Raises
  <2>2. PICK next \in {"text", "up", "create", "create_text", "down"} :
          /\ Goes(s, next)
          /\ next = "up" /\ s # Api => "visual" \in collections'
    BY <1>6 DEF Serves, EnsureVisual, EnsureText, Ensure, Create, Exists
  <2>3. collections \subseteq collections'
    BY <1>6 DEF Serves, EnsureVisual, EnsureText, Ensure, Create
  <2>4. UNCHANGED <<gate, columns, indexed, seed>>
    BY <1>6 DEF Serves, EnsureVisual, EnsureText, Ensure
  <2>5. stage'[s] = next
    BY <1>0, <2>2 DEF Goes
  <2>6. StageTrue(s)'
    BY <2>1, <2>2, <2>4, <2>5 DEF ReadyInv, StageTrue
  <2> QED  BY <2>2, <2>3, <2>4, <2>6, OthersStay DEF ServiceStages
<1>7. CASE ClipWarm \/ QdrantReturns \/ UNCHANGED startVars
  <2>1. UNCHANGED <<gate, columns, collections, indexed, seed, stage>>
    BY <1>7 DEF ClipWarm, QdrantReturns, startVars
  <2> QED  BY <2>1 DEF ReadyInv, SeedTrue, StageTrue
<1>8. CASE Fails
  <2>1. UNCHANGED <<gate, columns, collections, indexed>>
    BY <1>8 DEF Fails
  <2>2. CASE stage' = stage
    <3>1. seed' = seed \/ SeedGoes("given_up")
      BY <1>8 DEF Fails
    <3>2. SeedTrue'
      BY <1>0, <2>1, <3>1 DEF SeedTrue, SeedGoes, SeedStages
    <3> QED  BY <2>1, <2>2, <3>2, SeedStep
  <2>3. ASSUME NEW s \in Services, Goes(s, "down"), seed' = seed
        PROVE  ReadyInv'
    <3>1. StageTrue(s)'
      BY <1>0, <2>3 DEF Goes, StageTrue
    <3> QED  BY <2>1, <2>3, <3>1, OthersStay DEF ServiceStages
  <2> QED  BY <1>8, <2>2, <2>3 DEF Fails
<1> QED
  BY <1>1, <1>2, <1>3, <1>4, <1>5, <1>6, <1>7, <1>8
     DEF StartNext, Seeds, Serves

(* `UI up only after samples ready': for any samples and workers, whatever *)
(* dies and is started again.                                              *)
THEOREM UpMeansReadyHolds == StartSpec => []UpMeansReady
<1>1. StartInit => ReadyInv
  BY StartupAssumption
     DEF StartInit, ReadyInv, SeedTrue, StageTrue, SeedStages, ServiceStages
<1>2. ReadyInv => UpMeansReady
  BY DEF ReadyInv, StageTrue, UpMeansReady
<1> QED  BY <1>1, <1>2, ReadyStep, PTL DEF StartSpec
=============================================================================
