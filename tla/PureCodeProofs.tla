--------------------------- MODULE PureCodeProofs ---------------------------
(* Proofs about the pure code, for every input: what the loops of Passages *)
(* and Serving compute, and what their formulas without a loop say.        *)
EXTENDS Passages, Serving, FiniteSetTheorems, SequenceTheorems,
        WellFoundedInduction, TLAPS

-----------------------------------------------------------------------------
(* Loops.  Induction is over sets: what holds of the start and is passed   *)
(* on by each turn holds after each.                                       *)
LEMMA LoopInduction ==
    ASSUME NEW n \in Nat, NEW T, 0 \in T,
           \A k \in 1 .. n : k - 1 \in T => k \in T
    PROVE  0 .. n \subseteq T
<1> DEFINE Out == {k \in 0 .. n : k \notin T}
<1>1. SUFFICES ASSUME Out # {} PROVE FALSE
  OBVIOUS
<1>2. PICK m \in Out : \A k \in Out : ~ (<<k, m>> \in OpToRel(<, Nat))
  <2>1. Out \subseteq Nat
    OBVIOUS
  <2> HIDE DEF Out
  <2> QED  BY <1>1, <2>1, NatLessThanWellFounded, WFMin
<1>3. m \in Out /\ \A k \in Out : ~ (k < m)
  <2>1. Out \subseteq Nat
    OBVIOUS
  <2> HIDE DEF Out
  <2> QED  BY <1>2, <2>1 DEF OpToRel
<1> QED  BY <1>3

LEMMA MaxOfFront ==
    ASSUME NEW k \in Nat, k # 0
    PROVE  Max(1 .. k) = k /\ (1 .. k) \ {k} = 1 .. k - 1
<1>1. k \in 1 .. k /\ \A y \in 1 .. k : k >= y
  OBVIOUS
<1>2. \A x \in 1 .. k : (\A y \in 1 .. k : x >= y) => x = k
  OBVIOUS
<1> QED  BY <1>1, <1>2 DEF Max

LEMMA MaxOfSome ==
    ASSUME NEW n \in Nat, NEW S \in SUBSET (1 .. n), S # {}
    PROVE  Max(S) \in S /\ \A y \in S : y <= Max(S)
<1> DEFINE f == [x \in S |-> n - x]
           T == {f[x] : x \in S}
<1>1. T \subseteq Nat /\ T # {}
  <2>1. \A x \in S : n - x \in Nat
    OBVIOUS
  <2> QED  BY <2>1
<1>2. PICK m \in T : \A k \in T : ~ (<<k, m>> \in OpToRel(<, Nat))
  <2> HIDE DEF T
  <2> QED  BY <1>1, NatLessThanWellFounded, WFMin
<1>3. PICK x \in S : f[x] = m
  BY <1>2
<1>4. \A y \in S : ~ (f[y] < f[x])
  <2>1. \A k \in T : ~ (k < m)
    <3> HIDE DEF T
    <3> QED  BY <1>1, <1>2 DEF OpToRel
  <2> QED  BY <1>3, <2>1
<1>5. \A y \in S : x >= y
  <2> SUFFICES ASSUME NEW y \in S PROVE x >= y
    OBVIOUS
  <2>1. x \in Nat /\ y \in Nat /\ f[x] = n - x /\ f[y] = n - y
    OBVIOUS
  <2>2. ~ (n - y < n - x)
    BY <1>4, <2>1
  <2> HIDE DEF f, T
  <2> QED  BY <2>1, <2>2
<1> QED  BY <1>5 DEF Max

(* FoldLeft is a recursion over subsets of the domain: there is a function *)
(* that its equation describes.                                            *)
FoldOf(g, n, base, turn) ==
    \A s \in SUBSET (1 .. n) :
      g[s] = IF s = {} THEN base ELSE turn[<<g[s \ {Max(s)}], Max(s)>>]

LEMMA FoldExists ==
    ASSUME NEW n \in Nat, NEW S, NEW base \in S,
           NEW turn \in [S \X (1 .. n) -> S]
    PROVE  \E g \in [SUBSET (1 .. n) -> S] : FoldOf(g, n, base, turn)
<1> DEFINE Goes(m, g) ==
             \A s \in SUBSET (1 .. m) :
               g[s] = IF s = {} THEN base
                      ELSE turn[<<g[s \ {Max(s)}], Max(s)>>]
           T == {m \in 0 .. n : \E g \in [SUBSET (1 .. m) -> S] : Goes(m, g)}
<1>1. 0 \in T
  <2>1. [s \in SUBSET (1 .. 0) |-> base] \in [SUBSET (1 .. 0) -> S]
    OBVIOUS
  <2>2. \A s \in SUBSET (1 .. 0) : s = {}
    OBVIOUS
  <2>3. Goes(0, [s \in SUBSET (1 .. 0) |-> base])
    BY <2>2
  <2>4. 0 \in 0 .. n
    OBVIOUS
  <2> HIDE DEF Goes
  <2> QED  BY <2>1, <2>3, <2>4
<1>2. ASSUME NEW m \in 1 .. n, m - 1 \in T PROVE m \in T
  <2>1. PICK g \in [SUBSET (1 .. m - 1) -> S] : Goes(m - 1, g)
    BY <1>2
  <2> DEFINE h == [s \in SUBSET (1 .. m) |->
                     IF m \in s THEN turn[<<g[s \ {m}], m>>] ELSE g[s]]
  <2>2. \A s \in SUBSET (1 .. m) :
          /\ m \in s => s \ {m} \in SUBSET (1 .. m - 1) /\ Max(s) = m
          /\ m \notin s => s \in SUBSET (1 .. m - 1)
    <3>1. ASSUME NEW s \in SUBSET (1 .. m), m \in s PROVE Max(s) = m
      <4>1. m \in Nat
        OBVIOUS
      <4>2. Max(s) \in s /\ \A y \in s : y <= Max(s)
        BY <3>1, <4>1, MaxOfSome
      <4>3. Max(s) \in 1 .. m /\ m <= Max(s)
        BY <3>1, <4>2
      <4> QED  BY <4>1, <4>3
    <3> QED  BY <3>1
  <2>3. h \in [SUBSET (1 .. m) -> S]
    BY <2>2
  <2>4. Goes(m, h)
    <3> SUFFICES ASSUME NEW s \in SUBSET (1 .. m)
                 PROVE  h[s] = IF s = {} THEN base
                               ELSE turn[<<h[s \ {Max(s)}], Max(s)>>]
      OBVIOUS
    <3>1. CASE m \in s
      <4>1. s \ {m} \in SUBSET (1 .. m) /\ m \notin s \ {m} /\ Max(s) = m
        BY <2>2, <3>1
      <4> QED  BY <3>1, <4>1
    <3>2. CASE m \notin s
      <4>1. s \in SUBSET (1 .. m - 1) /\ h[s] = g[s]
        BY <2>2, <3>2
      <4>2. s # {} => /\ s \ {Max(s)} \in SUBSET (1 .. m - 1)
                      /\ h[s \ {Max(s)}] = g[s \ {Max(s)}]
        BY <4>1, <3>2
      <4> QED  BY <2>1, <4>1, <4>2
    <3> QED  BY <3>1, <3>2
  <2> HIDE DEF h, Goes
  <2> QED  BY <2>3, <2>4
<1>3. n \in T
  <2> HIDE DEF T
  <2>1. 0 .. n \subseteq T
    BY <1>1, <1>2, LoopInduction
  <2> QED  BY <2>1
<1>4. PICK g \in [SUBSET (1 .. n) -> S] : Goes(n, g)
  BY <1>3
<1> QED  BY <1>4 DEF FoldOf

(* And its value is what n turns make of the base, one after the other.    *)
TurnByTurn(h, n, base, turn, result) ==
    /\ h[0] = base /\ h[n] = result
    /\ \A k \in 1 .. n : h[k] = turn[<<h[k - 1], k>>]

FoldsWithin(iter, n, S, base, turn) ==
    /\ iter[{}] = base
    /\ \A s \in SUBSET (1 .. n) :
         s # {} /\ iter[s \ {Max(s)}] \in S
           => iter[s] = turn[<<iter[s \ {Max(s)}], Max(s)>>]

LEMMA FoldTurns ==
    ASSUME NEW n \in Nat, NEW S, NEW base \in S,
           NEW turn \in [S \X (1 .. n) -> S], NEW iter,
           FoldsWithin(iter, n, S, base, turn)
    PROVE  \E h \in [0 .. n -> S] :
             TurnByTurn(h, n, base, turn, iter[1 .. n])
<1> DEFINE h == [k \in 0 .. n |-> iter[1 .. k]]
           T == {k \in 0 .. n : h[k] \in S}
<1>1. h[0] = base
  <2>1. 1 .. 0 = {} /\ 0 \in 0 .. n
    OBVIOUS
  <2> QED  BY <2>1 DEF FoldsWithin
<1>2. ASSUME NEW k \in 1 .. n, h[k - 1] \in S
      PROVE  h[k] = turn[<<h[k - 1], k>>] /\ h[k] \in S
  <2>1. /\ 1 .. k \in SUBSET (1 .. n) /\ 1 .. k # {}
        /\ Max(1 .. k) = k /\ (1 .. k) \ {k} = 1 .. k - 1
    BY MaxOfFront
  <2>2. h[k - 1] = iter[1 .. k - 1] /\ h[k] = iter[1 .. k]
    OBVIOUS
  <2>3. iter[1 .. k] = turn[<<iter[1 .. k - 1], k>>]
    BY <1>2, <2>1, <2>2 DEF FoldsWithin
  <2> HIDE DEF h
  <2> QED  BY <1>2, <2>2, <2>3
<1>3. 0 .. n \subseteq T
  <2>1. 0 \in T
    BY <1>1
  <2>2. ASSUME NEW k \in 1 .. n, k - 1 \in T PROVE k \in T
    <3>1. h[k] \in S
      BY <1>2, <2>2
    <3> QED  BY <3>1
  <2> HIDE DEF T
  <2> QED  BY <2>1, <2>2, LoopInduction
<1>4. h \in [0 .. n -> S]
  BY <1>3
<1>5. \A k \in 1 .. n : h[k] = turn[<<h[k - 1], k>>]
  <2>1. \A k \in 1 .. n : k - 1 \in 0 .. n
    OBVIOUS
  <2> HIDE DEF h
  <2> QED  BY <1>2, <1>4, <2>1
<1>6. iter[1 .. n] = h[n]
  OBVIOUS
<1> HIDE DEF h
<1> QED  BY <1>1, <1>4, <1>5, <1>6 DEF TurnByTurn

LEMMA AppendFacts ==
    ASSUME NEW S, NEW s \in Seq(S), NEW x \in S
    PROVE  /\ Append(s, x) \in Seq(S) /\ Len(Append(s, x)) = Len(s) + 1
           /\ Len(s) \in Nat /\ DOMAIN s = 1 .. Len(s)
           /\ \A i \in 1 .. Len(s) : s[i] \in S
           /\ \A i \in 1 .. Len(s) : Append(s, x)[i] = s[i]
           /\ Append(s, x)[Len(s) + 1] = x
OBVIOUS

-----------------------------------------------------------------------------
(* dedup: one turn of its loop.                                            *)
KeepTurn(kept, f, same) ==
    IF <<f.look, Last(kept).look>> \in same THEN kept ELSE Append(kept, f)

DedupRuns(h, frames, same) ==
    /\ h[0] = <<frames[1]>>
    /\ \A k \in 1 .. Len(frames) - 1 :
         h[k] = KeepTurn(h[k - 1], frames[k + 1], same)
    /\ Dedup(frames, same) = h[Len(frames) - 1]

LEMMA DedupTurns ==
    ASSUME NEW S, NEW frames \in Seq(S), Len(frames) >= 2, NEW same
    PROVE  \E h \in [0 .. Len(frames) - 1 -> Seq(S)] :
             DedupRuns(h, frames, same)
<1> DEFINE n == Len(frames) - 1
           rest == Tail(frames)
           turn == [p \in Seq(S) \X (1 .. n) |-> KeepTurn(p[1], rest[p[2]], same)]
           iter == CHOOSE g : g = [s \in SUBSET (DOMAIN rest) |->
                     IF s = {} THEN <<Head(frames)>>
                     ELSE KeepTurn(g[s \ {Max(s)}], rest[Max(s)], same)]
<1>1. /\ n \in Nat /\ DOMAIN rest = 1 .. n /\ frames[1] \in S
      /\ Head(frames) = frames[1]
      /\ \A k \in 1 .. n : rest[k] = frames[k + 1] /\ rest[k] \in S
  OBVIOUS
<1>2. Dedup(frames, same) = iter[DOMAIN rest]
  <2>1. Dedup(frames, same) =
          IF Len(frames) < 2 THEN frames ELSE iter[DOMAIN rest]
    BY DEF Dedup, FoldLeft, MapThenFoldSet, KeepTurn
  <2>2. ~ (Len(frames) < 2)
    OBVIOUS
  <2> HIDE DEF iter, rest
  <2> QED  BY <2>1, <2>2
<1>3. turn \in [Seq(S) \X (1 .. n) -> Seq(S)]
  BY <1>1 DEF KeepTurn
<1>4. PICK base \in Seq(S) : base = <<frames[1]>>
  <2>1. frames[1] \in S
    BY <1>1
  <2> DEFINE one == frames[1]
  <2>2. one \in S
    BY <2>1
  <2> HIDE DEF one
  <2>3. <<one>> \in Seq(S)
    BY <2>2
  <2> QED  BY <2>3 DEF one
<1>n. n \in Nat
  BY <1>1
<1>d. DOMAIN rest = 1 .. n
  BY <1>1
<1> HIDE DEF turn, n
<1>5. PICK g \in [SUBSET (1 .. n) -> Seq(S)] : FoldOf(g, n, base, turn)
  BY <1>n, <1>3, <1>4, FoldExists
<1>6. ASSUME NEW s \in SUBSET (1 .. n), s # {}, NEW kept \in Seq(S)
      PROVE  /\ turn[<<kept, Max(s)>>] = KeepTurn(kept, rest[Max(s)], same)
             /\ Max(s) \in 1 .. n
  BY <1>n, <1>d, <1>6, MaxOfSome DEF turn
<1>7. g = [s \in SUBSET (DOMAIN rest) |->
             IF s = {} THEN <<Head(frames)>>
             ELSE KeepTurn(g[s \ {Max(s)}], rest[Max(s)], same)]
  <2>1. <<Head(frames)>> = base
    BY <1>1, <1>4
  <2>2. \A s \in SUBSET (1 .. n) :
          s # {} => /\ g[s \ {Max(s)}] \in Seq(S)
                    /\ g[s] = KeepTurn(g[s \ {Max(s)}], rest[Max(s)], same)
    BY <1>5, <1>6 DEF FoldOf
  <2> HIDE DEF rest
  <2> QED  BY <1>d, <1>5, <2>1, <2>2 DEF FoldOf
<1>8. iter = [s \in SUBSET (DOMAIN rest) |->
                IF s = {} THEN <<Head(frames)>>
                ELSE KeepTurn(iter[s \ {Max(s)}], rest[Max(s)], same)]
  <2> HIDE DEF rest
  <2> QED  BY <1>7
<1> HIDE DEF iter, rest
<1>9. FoldsWithin(iter, n, Seq(S), base, turn)
  <2>1. iter[{}] = base
    BY <1>1, <1>4, <1>8
  <2>2. \A s \in SUBSET (1 .. n) :
          s # {} /\ iter[s \ {Max(s)}] \in Seq(S)
            => iter[s] = turn[<<iter[s \ {Max(s)}], Max(s)>>]
    BY <1>d, <1>6, <1>8
  <2> QED  BY <2>1, <2>2 DEF FoldsWithin
<1>10. PICK h \in [0 .. n -> Seq(S)] :
         TurnByTurn(h, n, base, turn, iter[1 .. n])
  BY <1>n, <1>3, <1>4, <1>9, FoldTurns
<1>11. ASSUME NEW k \in 1 .. n
       PROVE  h[k] = KeepTurn(h[k - 1], frames[k + 1], same)
  <2>1. k - 1 \in 0 .. n
    BY <1>n
  <2>2. h[k - 1] \in Seq(S)
    BY <1>10, <2>1
  <2>3. turn[<<h[k - 1], k>>] = KeepTurn(h[k - 1], rest[k], same)
    BY <2>2 DEF turn
  <2>4. rest[k] = frames[k + 1]
    BY <1>1 DEF n
  <2> QED  BY <1>10, <2>3, <2>4 DEF TurnByTurn
<1> QED  BY <1>1, <1>2, <1>4, <1>10, <1>11, <1>d DEF n, TurnByTurn, DedupRuns

(* Of the first m frames: those kept come in order, no two in turn look    *)
(* alike, and each frame looks like the last one kept up to it.            *)
Steady(kept, m, looks, same) ==
    /\ kept # <<>>
    /\ \A l \in 1 .. Len(kept) : kept[l].at \in 1 .. m
    /\ \A l \in 2 .. Len(kept) :
         /\ kept[l - 1].at < kept[l].at
         /\ <<kept[l - 1].look, kept[l].look>> \notin same
    /\ \A i \in 1 .. m : \E j \in 1 .. Len(kept) :
         /\ \A l \in 1 .. Len(kept) : kept[l].at <= i <=> l <= j
         /\ <<kept[j].look, looks[i]>> \in same

LEMMA SteadyTurn ==
    ASSUME NEW L, NEW looks \in Seq(L), NEW same,
           \A a, b \in L : <<a, b>> \in same => <<b, a>> \in same,
           \A a \in L : <<a, a>> \in same,
           NEW kept \in Seq([at : Nat, look : L]),
           NEW m \in 1 .. Len(looks) - 1, Steady(kept, m, looks, same)
    PROVE  Steady(KeepTurn(kept, [at |-> m + 1, look |-> looks[m + 1]], same),
                  m + 1, looks, same)
<1> DEFINE F == [at : Nat, look : L]
           f == [at |-> m + 1, look |-> looks[m + 1]]
           n == Len(kept)
           more == Append(kept, f)
<1>1. /\ f \in F /\ f.at = m + 1 /\ f.look = looks[m + 1] /\ looks[m + 1] \in L
      /\ m \in Nat
  OBVIOUS
<1> HIDE DEF f
<1>2. /\ n \in Nat \ {0} /\ Last(kept) = kept[n]
      /\ \A l \in 1 .. n : kept[l] \in F /\ kept[l].at \in 1 .. m
      /\ n \in 1 .. n /\ kept[n].look \in L
  <2>1. n \in Nat /\ \A l \in 1 .. n : kept[l] \in F
    <3>1. kept \in Seq(F)
      OBVIOUS
    <3> HIDE DEF F
    <3> QED  BY <3>1
  <2>2. kept # <<>> /\ \A l \in 1 .. n : kept[l].at \in 1 .. m
    BY DEF Steady
  <2>3. n # 0 /\ n \in 1 .. n
    BY <2>1, <2>2
  <2>4. kept[n].look \in L
    BY <2>1, <2>3
  <2> HIDE DEF F
  <2> QED  BY <2>1, <2>2, <2>3, <2>4 DEF Last
<1>i. \A i \in 1 .. m + 1 : i \in 1 .. m \/ i = m + 1
  OBVIOUS
<1>3. CASE <<f.look, Last(kept).look>> \in same
  <2>1. KeepTurn(kept, f, same) = kept
    BY <1>3 DEF KeepTurn
  <2>2. <<kept[n].look, looks[m + 1]>> \in same
    BY <1>1, <1>2, <1>3
  <2>3. \A i \in 1 .. m + 1 : \E j \in 1 .. n :
          /\ \A l \in 1 .. n : kept[l].at <= i <=> l <= j
          /\ <<kept[j].look, looks[i]>> \in same
    <3> SUFFICES ASSUME NEW i \in 1 .. m + 1
                 PROVE  \E j \in 1 .. n :
                          /\ \A l \in 1 .. n : kept[l].at <= i <=> l <= j
                          /\ <<kept[j].look, looks[i]>> \in same
      OBVIOUS
    <3>1. CASE i \in 1 .. m
      BY <3>1 DEF Steady
    <3>2. CASE i = m + 1
      <4>1. \A l \in 1 .. n : kept[l].at <= i <=> l <= n
        <5> HIDE DEF n
        <5> QED  BY <1>1, <1>2, <3>2
      <4>2. n \in 1 .. n
        BY <1>2
      <4> QED  BY <2>2, <3>2, <4>1, <4>2
    <3> QED  BY <1>i, <3>1, <3>2
  <2>4. \A l \in 1 .. n : kept[l].at \in 1 .. m + 1
    BY <1>1, <1>2
  <2> QED  BY <2>1, <2>3, <2>4 DEF Steady, f
<1>4. CASE <<f.look, Last(kept).look>> \notin same
  <2>1. KeepTurn(kept, f, same) = more
    BY <1>4 DEF KeepTurn
  <2>2. /\ Len(more) = n + 1 /\ more # <<>> /\ more[n + 1] = f
        /\ \A l \in 1 .. n : more[l] = kept[l]
    BY <1>1, AppendFacts
  <2> HIDE DEF more
  <2>3. \A l \in 1 .. n + 1 : more[l].at \in 1 .. m + 1
    <3>1. ASSUME NEW l \in 1 .. n + 1 PROVE l \in 1 .. n \/ l = n + 1
      BY <1>2
    <3>2. \A l \in 1 .. n : kept[l].at \in 1 .. m + 1
      BY <1>1, <1>2
    <3>3. m + 1 \in 1 .. m + 1
      BY <1>1
    <3> HIDE DEF n, F
    <3> QED  BY <1>1, <2>2, <3>1, <3>2, <3>3
  <2>4. \A l \in 2 .. n + 1 :
          /\ more[l - 1].at < more[l].at
          /\ <<more[l - 1].look, more[l].look>> \notin same
    <3> SUFFICES ASSUME NEW l \in 2 .. n + 1
                 PROVE  /\ more[l - 1].at < more[l].at
                        /\ <<more[l - 1].look, more[l].look>> \notin same
      OBVIOUS
    <3>1. CASE l \in 2 .. n
      <4>1. more[l] = kept[l] /\ more[l - 1] = kept[l - 1]
        <5>1. l \in 1 .. n /\ l - 1 \in 1 .. n
          BY <1>2, <3>1
        <5> HIDE DEF n
        <5> QED  BY <2>2, <5>1
      <4> QED  BY <3>1, <4>1 DEF Steady
    <3>2. CASE l = n + 1
      <4>1. more[l] = f /\ more[l - 1] = kept[n] /\ kept[n].at \in 1 .. m
        BY <1>2, <2>2, <3>2
      <4>2. <<more[l - 1].look, more[l].look>> \notin same
        BY <1>1, <1>2, <1>4, <4>1
      <4> QED  BY <1>1, <4>1, <4>2
    <3> QED  BY <1>2, <3>1, <3>2
  <2>5. ASSUME NEW i \in 1 .. m + 1
        PROVE  \E j \in 1 .. n + 1 :
                 /\ \A l \in 1 .. n + 1 : more[l].at <= i <=> l <= j
                 /\ <<more[j].look, looks[i]>> \in same
    <3>1. CASE i \in 1 .. m
      <4>1. PICK j \in 1 .. n :
              /\ \A l \in 1 .. n : kept[l].at <= i <=> l <= j
              /\ <<kept[j].look, looks[i]>> \in same
        BY <3>1 DEF Steady
      <4>2. ~ (more[n + 1].at <= i) /\ ~ (n + 1 <= j)
        BY <1>1, <1>2, <2>2, <3>1
      <4>3. \A l \in 1 .. n + 1 : more[l].at <= i <=> l <= j
        <5>1. ASSUME NEW l \in 1 .. n + 1 PROVE l \in 1 .. n \/ l = n + 1
          BY <1>2
        <5> HIDE DEF n
        <5> QED  BY <2>2, <4>1, <4>2, <5>1
      <4>4. j \in 1 .. n + 1 /\ more[j] = kept[j]
        BY <1>2, <2>2
      <4> QED  BY <4>1, <4>3, <4>4
    <3>2. CASE i = m + 1
      <4>1. \A l \in 1 .. n + 1 : more[l].at <= i <=> l <= n + 1
        <5>1. \A l \in 1 .. n + 1 : l <= n + 1
          BY <1>2
        <5> HIDE DEF n
        <5> QED  BY <1>1, <2>3, <3>2, <5>1
      <4>2. n + 1 \in 1 .. n + 1
        BY <1>2
      <4> QED  BY <1>1, <2>2, <3>2, <4>1, <4>2
    <3> QED  BY <1>i, <3>1, <3>2
  <2> HIDE DEF n
  <2> QED  BY <2>1, <2>2, <2>3, <2>4, <2>5 DEF Steady, f
<1> QED  BY <1>3, <1>4

(* NoDrift, for every course of looks and every notion of sameness that    *)
(* goes both ways, as `_same' does; it need not be transitive.             *)
THEOREM DedupFollows ==
    ASSUME NEW L, NEW looks \in Seq(L), NEW same,
           \A a, b \in L : <<a, b>> \in same => <<b, a>> \in same,
           \A a \in L : <<a, a>> \in same
    PROVE  NoDrift(looks, same)
<1> DEFINE N == Len(looks)
           F == [at : Nat, look : L]
           frames == [i \in DOMAIN looks |-> [at |-> i, look |-> looks[i]]]
           kept == Dedup(frames, same)
<1>1. /\ N \in Nat /\ DOMAIN looks = 1 .. N /\ frames \in Seq(F)
      /\ Len(frames) = N /\ DOMAIN frames = 1 .. N
      /\ \A i \in 1 .. N : /\ frames[i] = [at |-> i, look |-> looks[i]]
                           /\ looks[i] \in L
  <2>1. N \in Nat /\ DOMAIN looks = 1 .. N /\ \A i \in 1 .. N : looks[i] \in L
    OBVIOUS
  <2>2. frames \in [1 .. N -> F]
    <3>1. \A i \in 1 .. N : [at |-> i, look |-> looks[i]] \in F
      BY <2>1
    <3> HIDE DEF F
    <3> QED  BY <2>1, <3>1
  <2>3. \A i \in 1 .. N : frames[i] = [at |-> i, look |-> looks[i]]
    BY <2>1
  <2> HIDE DEF frames, F, N
  <2> QED  BY <2>1, <2>2, <2>3
<1>2. N > 0 => kept \in Seq(F) /\ Steady(kept, N, looks, same)
  <2>1. CASE N = 1
    <3>1. kept = frames
      <4>1. Len(frames) < 2
        BY <1>1, <2>1
      <4> HIDE DEF frames
      <4> QED  BY <4>1 DEF Dedup
    <3>2. /\ Len(frames) = 1 /\ frames[1].at = 1 /\ frames[1].look = looks[1]
          /\ <<looks[1], looks[1]>> \in same
      BY <1>1, <2>1
    <3> HIDE DEF frames, kept
    <3>3. Steady(frames, 1, looks, same)
      BY <1>1, <3>2, <2>1 DEF Steady
    <3> QED  BY <1>1, <2>1, <3>1, <3>3
  <2>2. CASE N >= 2
    <3> HIDE DEF frames
    <3>1. PICK h \in [0 .. N - 1 -> Seq(F)] :
            /\ h[0] = <<frames[1]>>
            /\ \A k \in 1 .. N - 1 : h[k] = KeepTurn(h[k - 1], frames[k + 1], same)
            /\ kept = h[N - 1]
      <4> HIDE DEF F, N, kept
      <4>1. frames \in Seq(F) /\ Len(frames) >= 2
        BY <1>1, <2>2
      <4>2. \E h \in [0 .. Len(frames) - 1 -> Seq(F)] : DedupRuns(h, frames, same)
        BY <4>1, DedupTurns
      <4> QED  BY <1>1, <4>2 DEF kept, DedupRuns
    <3> DEFINE T == {k \in 0 .. N - 1 : Steady(h[k], k + 1, looks, same)}
    <3>2. 0 \in T
      <4>1. 0 \in 0 .. N - 1 /\ 0 + 1 = 1
        BY <1>1, <2>2
      <4>2. /\ Len(h[0]) = 1 /\ h[0] # <<>> /\ h[0][1].at = 1
            /\ h[0][1].look = looks[1] /\ <<looks[1], looks[1]>> \in same
        BY <1>1, <2>2, <3>1
      <4>3. Steady(h[0], 1, looks, same)
        BY <4>2 DEF Steady
      <4> QED  BY <4>1, <4>3
    <3>3. ASSUME NEW k \in 1 .. N - 1, k - 1 \in T PROVE k \in T
      <4>1. /\ k - 1 \in 0 .. N - 1 /\ k \in 0 .. N - 1 /\ k + 1 \in 1 .. N
            /\ (k - 1) + 1 = k /\ k \in 1 .. Len(looks) - 1
        BY <1>1
      <4>2. h[k - 1] \in Seq(F) /\ Steady(h[k - 1], k, looks, same)
        BY <3>1, <3>3, <4>1
      <4>3. h[k] = KeepTurn(h[k - 1], [at |-> k + 1, look |-> looks[k + 1]], same)
        BY <1>1, <3>1, <4>1
      <4> HIDE DEF N
      <4>4. Steady(h[k], k + 1, looks, same)
        BY <4>1, <4>2, <4>3, SteadyTurn
      <4> QED  BY <4>1, <4>4
    <3>4. 0 .. N - 1 \subseteq T
      <4>1. N - 1 \in Nat
        BY <1>1, <2>2
      <4> HIDE DEF T
      <4> QED  BY <3>2, <3>3, <4>1, LoopInduction
    <3>5. N - 1 \in 0 .. N - 1 /\ (N - 1) + 1 = N
      BY <1>1, <2>2
    <3>6. N - 1 \in T
      BY <3>4, <3>5
    <3> HIDE DEF N, kept
    <3> QED  BY <3>1, <3>5, <3>6
  <2> QED  BY <1>1, <2>1, <2>2
<1>3. CASE N = 0
  <2>1. kept = frames
    <3>1. Len(frames) < 2
      BY <1>1, <1>3
    <3> HIDE DEF frames
    <3> QED  BY <3>1 DEF Dedup
  <2>2. DOMAIN frames = {} /\ Len(kept) = 0
    BY <1>1, <1>3, <2>1
  <2> HIDE DEF frames, kept
  <2> QED  BY <2>2 DEF NoDrift, frames, kept
<1>4. CASE N > 0
  <2>1. /\ kept \in Seq(F) /\ Steady(kept, N, looks, same)
        /\ DOMAIN kept = 1 .. Len(kept) /\ Len(kept) \in Nat
    BY <1>2, <1>4
  <2> HIDE DEF kept
  <2>2. ASSUME NEW i \in 1 .. N, NEW before,
               before = {k \in DOMAIN kept : kept[k].at <= i}
        PROVE  /\ before # {}
               /\ <<kept[Max(before)].look, frames[i].look>> \in same
    <3> HIDE DEF frames, N
    <3>1. PICK j \in 1 .. Len(kept) :
            /\ \A l \in 1 .. Len(kept) : kept[l].at <= i <=> l <= j
            /\ <<kept[j].look, looks[i]>> \in same
      BY <2>1 DEF Steady
    <3>2. \A l \in 1 .. Len(kept) : l \in before <=> l \in 1 .. j
      BY <2>1, <2>2, <3>1
    <3>3. before = 1 .. j /\ j \in Nat /\ j # 0
      <4>1. before \subseteq 1 .. Len(kept) /\ 1 .. j \subseteq 1 .. Len(kept)
        BY <2>1, <2>2
      <4>2. j \in Nat /\ j # 0
        BY <2>1
      <4> DEFINE R == 1 .. Len(kept)
                 J == 1 .. j
      <4>3. before \subseteq R /\ J \subseteq R /\ \A l \in R : l \in before <=> l \in J
        BY <3>2, <4>1
      <4> HIDE DEF R, J
      <4>4. before = J
        BY <4>3
      <4> QED  BY <4>2, <4>4 DEF J
    <3>4. Max(before) = j /\ j \in before
      BY <3>3, MaxOfFront
    <3>5. frames[i].look = looks[i]
      BY <1>1
    <3> QED  BY <3>1, <3>4, <3>5
  <2>3. \A i \in DOMAIN frames :
          LET before == {k \in DOMAIN kept : kept[k].at <= i} IN
          before # {} /\ <<kept[Max(before)].look, frames[i].look>> \in same
    <3> HIDE DEF frames
    <3> QED  BY <1>1, <2>2
  <2>4. \A k \in 2 .. Len(kept) :
          /\ kept[k - 1].at < kept[k].at
          /\ ~ (<<kept[k - 1].look, kept[k].look>> \in same)
    BY <2>1 DEF Steady
  <2> HIDE DEF frames
  <2> QED  BY <2>3, <2>4 DEF NoDrift, frames, kept
<1> QED  BY <1>1, <1>3, <1>4

-----------------------------------------------------------------------------
(* Thinning: the k-th of m frames kept of n is frame (k - 1) * n / m.      *)
LEMMA DivBounds ==
    ASSUME NEW a \in Nat, NEW m \in Nat \ {0}
    PROVE  /\ a \div m \in Nat
           /\ m * (a \div m) <= a /\ a < m * (a \div m) + m
OBVIOUS

LEMMA TimesMonotone ==
    ASSUME NEW m \in Nat, NEW x \in Nat, NEW y \in Nat, x <= y
    PROVE  m * x <= m * y
OBVIOUS

LEMMA EvenSteps ==
    ASSUME NEW n \in Nat, NEW m \in Nat \ {0}, n > m, NEW a \in Nat
    PROVE  (a + n) \div m - a \div m \in 1 .. ((n + m - 1) \div m)
<1>1. PICK x \in Nat : x = a \div m /\ m * x <= a /\ a < m * x + m
  BY DivBounds
<1>2. PICK y \in Nat : y = (a + n) \div m /\ m * y <= a + n /\ a + n < m * y + m
  <2>1. a + n \in Nat
    OBVIOUS
  <2> QED  BY <2>1, DivBounds
<1>3. PICK c \in Nat : c = (n + m - 1) \div m /\ n + m - 1 < m * c + m
  <2>1. n + m - 1 \in Nat
    OBVIOUS
  <2> QED  BY <2>1, DivBounds
<1>4. y > x
  <2>1. SUFFICES ASSUME y <= x PROVE FALSE
    OBVIOUS
  <2>2. m * y <= m * x /\ m * x \in Nat /\ m * y \in Nat
    BY <2>1, TimesMonotone
  <2> QED  BY <1>1, <1>2, <2>2
<1>5. y <= x + c
  <2>1. SUFFICES ASSUME y >= (x + c) + 1 PROVE FALSE
    OBVIOUS
  <2>2. m * ((x + c) + 1) <= m * y
    BY <2>1, TimesMonotone
  <2>3. m * ((x + c) + 1) = m * x + m * c + m
    OBVIOUS
  <2>4. m * x \in Nat /\ m * c \in Nat /\ m * y \in Nat
    OBVIOUS
  <2> QED  BY <1>1, <1>2, <1>3, <2>2, <2>3, <2>4
<1> QED  BY <1>1, <1>2, <1>3, <1>4, <1>5

LEMMA ThinPlaces ==
    ASSUME NEW n \in Nat, NEW m \in Nat \ {0}, n > m
    PROVE  /\ ((1 - 1) * n) \div m = 0 /\ (((m + 1) - 1) * n) \div m = n
           /\ \A i \in 1 .. m + 1 : ((i - 1) * n) \div m \in Nat
           /\ \A i \in 1 .. m :
                /\ ((i - 1) * n) \div m < n
                /\ ((i + 1 - 1) * n) \div m - ((i - 1) * n) \div m
                     \in 1 .. ((n + m - 1) \div m)
<1>1. (1 - 1) * n = 0 /\ ((m + 1) - 1) * n = m * n
  OBVIOUS
<1>2. 0 \div m = 0 /\ (m * n) \div m = n
  OBVIOUS
<1>3. ASSUME NEW i \in 1 .. m + 1
      PROVE  (i - 1) * n \in Nat /\ ((i - 1) * n) \div m \in Nat
  <2>1. i - 1 \in Nat
    OBVIOUS
  <2>2. (i - 1) * n \in Nat
    BY <2>1
  <2> QED  BY <2>2, DivBounds
<1>4. ASSUME NEW i \in 1 .. m
      PROVE  /\ ((i - 1) * n) \div m < n
             /\ ((i + 1 - 1) * n) \div m - ((i - 1) * n) \div m
                  \in 1 .. ((n + m - 1) \div m)
  <2>1. i - 1 \in Nat /\ i - 1 <= m - 1 /\ i \in 1 .. m + 1 /\ m - 1 \in Nat
    OBVIOUS
  <2>2. PICK a \in Nat : a = (i - 1) * n
    BY <1>3, <2>1
  <2>3. (i + 1 - 1) * n = a + n
    BY <2>2
  <2>4. a \div m < n
    <3>1. n * (i - 1) <= n * (m - 1)
      BY <2>1, TimesMonotone
    <3>2. n * (m - 1) = n * m - n /\ a = n * (i - 1) /\ n * m = m * n /\ n * m \in Nat
      BY <2>2
    <3>3. a < m * n
      BY <3>1, <3>2
    <3>4. SUFFICES ASSUME a \div m >= n PROVE FALSE
      BY DivBounds
    <3>5. m * n <= m * (a \div m)
      BY <3>4, DivBounds, TimesMonotone
    <3> QED  BY <3>2, <3>3, <3>5, DivBounds
  <2> QED  BY <2>2, <2>3, <2>4, EvenSteps
<1> QED  BY <1>1, <1>2, <1>3, <1>4

(* ThinnedEvenly, for every number of frames, every cap and all timestamps *)
(* that do not go back: a capped video is sampled from end to end.         *)
THEOREM ThinningIsEven ==
    ASSUME NEW n \in Nat, NEW most \in Nat, NEW times \in Seq(Nat),
           \A i, j \in DOMAIN times : i <= j => times[i] <= times[j]
    PROVE  ThinnedEvenly(n, times, most)
<1> DEFINE ms(i) == IF Len(times) >= n THEN times[i] ELSE (i - 1) * 1000
           frames == [i \in 1 .. n |-> [jpeg |-> i, ms |-> ms(i)]]
           kept == SceneFrames([i \in 1 .. n |-> i], times, most)
           at(i) == IF i > Len(kept) THEN n + 1 ELSE kept[i].jpeg
           place(i) == ((i - 1) * n) \div most + 1
<1>1. /\ Len(frames) = n /\ kept = Thin(frames, most)
      /\ \A i \in 1 .. n : frames[i].jpeg = i /\ frames[i].ms = ms(i)
  <2>1. /\ DOMAIN [i \in 1 .. n |-> i] = 1 .. n /\ Len([i \in 1 .. n |-> i]) = n
        /\ \A i \in 1 .. n : [j \in 1 .. n |-> j][i] = i
    OBVIOUS
  <2>2. kept = Thin(frames, most)
    BY <2>1 DEF SceneFrames
  <2>3. Len(frames) = n
    <3> HIDE DEF ms
    <3> QED  OBVIOUS
  <2>4. \A i \in 1 .. n : frames[i].jpeg = i /\ frames[i].ms = ms(i)
    <3> HIDE DEF ms
    <3> QED  OBVIOUS
  <2> QED  BY <2>2, <2>3, <2>4
<1>2. \A i, j \in 1 .. n : i <= j => ms(i) <= ms(j)
  <2>1. \A i, j \in 1 .. n : i <= j => (i - 1) * 1000 <= (j - 1) * 1000
    OBVIOUS
  <2>2. Len(times) >= n => \A i \in 1 .. n : i \in DOMAIN times
    OBVIOUS
  <2> QED  BY <2>1, <2>2
<1>3. CASE most = 0 \/ n <= most
  <2>1. Thin(frames, most) = frames
    <3> HIDE DEF frames
    <3> QED  BY <1>1, <1>3 DEF Thin
  <2>2. Len(kept) = n
    BY <1>1, <2>1
  <2> HIDE DEF frames, kept
  <2> QED  BY <1>3, <2>2 DEF ThinnedEvenly, kept
<1>4. CASE most # 0 /\ n > most
  <2> HIDE DEF frames, kept
  <2>1. kept = [i \in 1 .. most |-> frames[place(i)]]
    BY <1>1, <1>4 DEF Thin
  <2> HIDE DEF place
  <2>2. /\ Len(kept) = most
        /\ \A i \in 1 .. most : kept[i] = frames[place(i)]
    BY <2>1
  <2>3. /\ place(1) = 1 /\ place(most + 1) = n + 1
        /\ \A i \in 1 .. most : place(i) \in 1 .. n
        /\ \A i \in 1 .. most :
             place(i + 1) - place(i) \in 1 .. ((n + most - 1) \div most)
    <3> DEFINE q(i) == ((i - 1) * n) \div most
               c == (n + most - 1) \div most
    <3>1. /\ q(1) = 0 /\ q(most + 1) = n
          /\ \A i \in 1 .. most + 1 : q(i) \in Nat
          /\ \A i \in 1 .. most : q(i) < n /\ q(i + 1) - q(i) \in 1 .. c
      BY <1>4, ThinPlaces
    <3>2. \A i \in 1 .. most + 1 : place(i) = q(i) + 1
      BY DEF place
    <3>3. /\ 1 \in 1 .. most + 1 /\ most + 1 \in 1 .. most + 1
          /\ \A i \in 1 .. most : i \in 1 .. most + 1 /\ i + 1 \in 1 .. most + 1
      OBVIOUS
    <3>4. \A i \in 1 .. most : place(i + 1) - place(i) = q(i + 1) - q(i)
      <4> HIDE DEF q
      <4> QED  BY <3>1, <3>2, <3>3
    <3> HIDE DEF q
    <3>5. /\ place(1) = 1 /\ place(most + 1) = n + 1
          /\ \A i \in 1 .. most : place(i) \in 1 .. n
      BY <3>1, <3>2, <3>3
    <3> HIDE DEF c
    <3>6. \A i \in 1 .. most : place(i + 1) - place(i) \in 1 .. c
      BY <3>1, <3>4
    <3> QED  BY <3>5, <3>6 DEF c
  <2>4. \A i \in 1 .. most + 1 : at(i) = place(i)
    <3> SUFFICES ASSUME NEW i \in 1 .. most + 1 PROVE at(i) = place(i)
      OBVIOUS
    <3>1. CASE i \in 1 .. most
      <4>1. kept[i].jpeg = place(i)
        <5>1. place(i) \in 1 .. n /\ kept[i] = frames[place(i)]
          BY <2>2, <2>3, <3>1
        <5> QED  BY <1>1, <5>1
      <4> QED  BY <2>2, <3>1, <4>1
    <3>2. CASE i = most + 1
      BY <2>2, <2>3, <3>2
    <3> QED  BY <3>1, <3>2
  <2>5. at(1) = 1
    BY <1>4, <2>3, <2>4
  <2>6. \A i \in 1 .. most : at(i + 1) - at(i) \in 1 .. ((n + most - 1) \div most)
    <3>1. \A i \in 1 .. most : i \in 1 .. most + 1 /\ i + 1 \in 1 .. most + 1
      OBVIOUS
    <3> HIDE DEF at
    <3> QED  BY <2>3, <2>4, <3>1
  <2>7. \A i \in 1 .. most - 1 : kept[i].ms <= kept[i + 1].ms
    <3> SUFFICES ASSUME NEW i \in 1 .. most - 1 PROVE kept[i].ms <= kept[i + 1].ms
      OBVIOUS
    <3>1. i \in 1 .. most /\ i + 1 \in 1 .. most
      OBVIOUS
    <3>2. place(i) \in 1 .. n /\ place(i + 1) \in 1 .. n
      BY <2>3, <3>1
    <3>3. place(i + 1) - place(i) >= 1
      <4> DEFINE c == (n + most - 1) \div most
      <4>1. place(i + 1) - place(i) \in 1 .. c
        BY <2>3, <3>1
      <4> HIDE DEF c
      <4> QED  BY <4>1, <3>2
    <3>4. kept[i].ms = ms(place(i)) /\ kept[i + 1].ms = ms(place(i + 1))
      <4> HIDE DEF ms
      <4> QED  BY <1>1, <2>2, <3>1, <3>2
    <3>5. place(i) <= place(i + 1)
      BY <3>2, <3>3
    <3> HIDE DEF ms
    <3> QED  BY <1>2, <3>2, <3>4, <3>5
  <2> QED  BY <1>4, <2>2, <2>5, <2>6, <2>7 DEF ThinnedEvenly, kept
<1> QED  BY <1>3, <1>4

-----------------------------------------------------------------------------
(* _split_mjpeg: one turn of its loop, at position k of the stream.        *)
Frame  == [from : Nat, to : Nat]
Reader == [start : Nat, frames : Seq(Frame)]

ReadTurn(acc, k, stream) ==
    CASE acc.start = 0 /\ stream[k] = "SOI" -> [acc EXCEPT !.start = k]
      [] acc.start # 0 /\ stream[k] = "EOI" ->
           [start |-> 0,
            frames |-> Append(acc.frames, [from |-> acc.start, to |-> k])]
      [] OTHER -> acc

NothingRead == [start |-> 0, frames |-> <<>>]

SplitRuns(h, stream) ==
    /\ h[0] = NothingRead
    /\ \A k \in 1 .. Len(stream) : h[k] = ReadTurn(h[k - 1], k, stream)
    /\ SplitMjpeg(stream) = h[Len(stream)].frames

(* What a turn does, by cases.                                             *)
LEMMA ReadCases ==
    ASSUME NEW acc \in Reader, NEW k \in Nat \ {0}, NEW stream, NEW next,
           next = ReadTurn(acc, k, stream)
    PROVE  /\ next \in Reader
           /\ \/ /\ acc.start = 0 /\ stream[k] = "SOI"
                 /\ next.start = k /\ next.frames = acc.frames
              \/ /\ acc.start # 0 /\ stream[k] = "EOI" /\ next.start = 0
                 /\ next.frames
                      = Append(acc.frames, [from |-> acc.start, to |-> k])
              \/ /\ next.start = acc.start /\ next.frames = acc.frames
                 /\ acc.start = 0 => stream[k] # "SOI"
                 /\ acc.start # 0 => stream[k] # "EOI"
<1>1. acc.start \in Nat /\ acc.frames \in Seq(Frame)
  BY DEF Reader
<1>2. CASE acc.start = 0 /\ stream[k] = "SOI"
  <2>1. next = [acc EXCEPT !.start = k]
    BY <1>2 DEF ReadTurn
  <2>2. next.start = k /\ next.frames = acc.frames /\ next \in Reader
    BY <2>1 DEF Reader
  <2> QED  BY <1>2, <2>2
<1>3. CASE acc.start # 0 /\ stream[k] = "EOI"
  <2> DEFINE whole == [from |-> acc.start, to |-> k]
  <2>1. next = [start |-> 0, frames |-> Append(acc.frames, whole)]
    BY <1>3 DEF ReadTurn
  <2>2. whole \in Frame
    BY <1>1 DEF Frame
  <2> HIDE DEF whole
  <2>3. Append(acc.frames, whole) \in Seq(Frame)
    BY <1>1, <2>2
  <2>4. next.start = 0 /\ next.frames = Append(acc.frames, whole) /\ next \in Reader
    BY <2>1, <2>3 DEF Reader
  <2> QED  BY <1>3, <2>4 DEF whole
<1>4. CASE /\ ~ (acc.start = 0 /\ stream[k] = "SOI")
           /\ ~ (acc.start # 0 /\ stream[k] = "EOI")
  <2>1. next = acc
    BY <1>4 DEF ReadTurn
  <2> QED  BY <1>4, <2>1
<1> QED  BY <1>2, <1>3, <1>4

LEMMA SplitTurns ==
    ASSUME NEW M, NEW stream \in Seq(M)
    PROVE  \E h \in [0 .. Len(stream) -> Reader] : SplitRuns(h, stream)
<1> DEFINE n == Len(stream)
           places == [k \in DOMAIN stream |-> k]
           turn == [p \in Reader \X (1 .. n) |-> ReadTurn(p[1], p[2], stream)]
           iter == CHOOSE g : g = [s \in SUBSET (DOMAIN places) |->
                     IF s = {} THEN [start |-> 0, frames |-> <<>>]
                     ELSE ReadTurn(g[s \ {Max(s)}], places[Max(s)], stream)]
<1>n. n \in Nat
  OBVIOUS
<1>d. DOMAIN places = 1 .. n /\ \A k \in 1 .. n : places[k] = k
  OBVIOUS
<1>1. SplitMjpeg(stream) = iter[DOMAIN places].frames
  BY DEF SplitMjpeg, FoldLeft, MapThenFoldSet, ReadTurn
<1>2. NothingRead \in Reader
  <2>1. <<>> \in Seq(Frame)
    OBVIOUS
  <2> QED  BY <2>1 DEF NothingRead, Reader
<1>3. turn \in [Reader \X (1 .. n) -> Reader]
  <2>1. \A acc \in Reader, k \in 1 .. n : ReadTurn(acc, k, stream) \in Reader
    <3> SUFFICES ASSUME NEW acc \in Reader, NEW k \in 1 .. n
                 PROVE  ReadTurn(acc, k, stream) \in Reader
      OBVIOUS
    <3>1. k \in Nat \ {0}
      BY <1>n
    <3> QED  BY <3>1, ReadCases
  <2> HIDE DEF n
  <2> QED  BY <2>1
<1> HIDE DEF turn, n
<1>4. PICK g \in [SUBSET (1 .. n) -> Reader] : FoldOf(g, n, NothingRead, turn)
  BY <1>n, <1>2, <1>3, FoldExists
<1>5. ASSUME NEW s \in SUBSET (1 .. n), s # {}, NEW acc \in Reader
      PROVE  turn[<<acc, Max(s)>>] = ReadTurn(acc, places[Max(s)], stream)
  <2>1. Max(s) \in 1 .. n
    BY <1>n, <1>5, MaxOfSome
  <2> HIDE DEF places
  <2> QED  BY <1>d, <2>1 DEF turn
<1>6. g = [s \in SUBSET (DOMAIN places) |->
             IF s = {} THEN [start |-> 0, frames |-> <<>>]
             ELSE ReadTurn(g[s \ {Max(s)}], places[Max(s)], stream)]
  <2>1. \A s \in SUBSET (1 .. n) :
          s # {} => /\ g[s \ {Max(s)}] \in Reader
                    /\ g[s] = ReadTurn(g[s \ {Max(s)}], places[Max(s)], stream)
    BY <1>4, <1>5 DEF FoldOf
  <2> HIDE DEF places
  <2> QED  BY <1>d, <1>4, <2>1 DEF FoldOf, NothingRead
<1>7. iter = [s \in SUBSET (DOMAIN places) |->
                IF s = {} THEN [start |-> 0, frames |-> <<>>]
                ELSE ReadTurn(iter[s \ {Max(s)}], places[Max(s)], stream)]
  <2> HIDE DEF places
  <2> QED  BY <1>6
<1> HIDE DEF iter, places
<1>8. FoldsWithin(iter, n, Reader, NothingRead, turn)
  <2>1. iter[{}] = NothingRead
    BY <1>7 DEF NothingRead
  <2>2. \A s \in SUBSET (1 .. n) :
          s # {} /\ iter[s \ {Max(s)}] \in Reader
            => iter[s] = turn[<<iter[s \ {Max(s)}], Max(s)>>]
    BY <1>d, <1>5, <1>7
  <2> QED  BY <2>1, <2>2 DEF FoldsWithin
<1>9. PICK h \in [0 .. n -> Reader] : TurnByTurn(h, n, NothingRead, turn, iter[1 .. n])
  BY <1>n, <1>2, <1>3, <1>8, FoldTurns
<1>10. ASSUME NEW k \in 1 .. n PROVE h[k] = ReadTurn(h[k - 1], k, stream)
  <2>1. h[k - 1] \in Reader
    BY <1>n, <1>9
  <2> QED  BY <1>9, <2>1 DEF TurnByTurn, turn
<1> QED  BY <1>1, <1>d, <1>9, <1>10 DEF n, TurnByTurn, SplitRuns

(* Of the first m markers: the frame that is open, and those that are      *)
(* whole, each up to its first EOI; every SOI is in one of them.           *)
NoEnd(stream, from, to) == \A e \in from .. to : stream[e] # "EOI"

WholeFrame(f, stream) ==
    /\ f.from < f.to /\ stream[f.from] = "SOI" /\ stream[f.to] = "EOI"
    /\ NoEnd(stream, f.from + 1, f.to - 1)

Framed(acc, m, stream) ==
    /\ acc.start \in 0 .. m
    /\ acc.start # 0 =>
         /\ stream[acc.start] = "SOI" /\ NoEnd(stream, acc.start + 1, m)
         /\ \A i \in 1 .. Len(acc.frames) : acc.frames[i].to < acc.start
    /\ \A i \in 1 .. Len(acc.frames) :
         /\ acc.frames[i].from \in 1 .. m /\ acc.frames[i].to \in 1 .. m
         /\ WholeFrame(acc.frames[i], stream)
    /\ \A i \in 2 .. Len(acc.frames) : acc.frames[i - 1].to < acc.frames[i].from
    /\ \A k \in 1 .. m : stream[k] = "SOI" =>
         \/ acc.start # 0 /\ k >= acc.start
         \/ \E i \in 1 .. Len(acc.frames) :
              k \in acc.frames[i].from .. acc.frames[i].to

LEMMA FramedTurn ==
    ASSUME NEW acc \in Reader, NEW m \in Nat, NEW stream,
           Framed(acc, m, stream)
    PROVE  Framed(ReadTurn(acc, m + 1, stream), m + 1, stream)
<1>1. PICK next : next = ReadTurn(acc, m + 1, stream)
  OBVIOUS
<1>2. m + 1 \in Nat \ {0}
  OBVIOUS
<1>3. /\ next \in Reader
      /\ \/ /\ acc.start = 0 /\ stream[m + 1] = "SOI"
            /\ next.start = m + 1 /\ next.frames = acc.frames
         \/ /\ acc.start # 0 /\ stream[m + 1] = "EOI" /\ next.start = 0
            /\ next.frames
                 = Append(acc.frames, [from |-> acc.start, to |-> m + 1])
         \/ /\ next.start = acc.start /\ next.frames = acc.frames
            /\ acc.start = 0 => stream[m + 1] # "SOI"
            /\ acc.start # 0 => stream[m + 1] # "EOI"
  BY <1>1, <1>2, ReadCases
<1>4. PICK old \in Seq(Frame) : old = acc.frames
  BY DEF Reader
<1>5. PICK o \in 0 .. m : o = acc.start
  BY DEF Framed
<1>6. /\ Len(old) \in Nat
      /\ \A i \in 1 .. Len(old) :
           old[i] \in Frame /\ old[i].from \in Nat /\ old[i].to \in Nat
  <2>1. Len(old) \in Nat /\ \A i \in 1 .. Len(old) : old[i] \in Frame
    OBVIOUS
  <2> QED  BY <2>1 DEF Frame
<1>7. \A k \in 1 .. m + 1 : k \in 1 .. m \/ k = m + 1
  OBVIOUS
<1>8. /\ o # 0 => /\ stream[o] = "SOI" /\ NoEnd(stream, o + 1, m)
                  /\ \A i \in 1 .. Len(old) : old[i].to < o
      /\ \A i \in 1 .. Len(old) :
           /\ old[i].from \in 1 .. m /\ old[i].to \in 1 .. m
           /\ WholeFrame(old[i], stream)
      /\ \A i \in 2 .. Len(old) : old[i - 1].to < old[i].from
      /\ \A k \in 1 .. m : stream[k] = "SOI" =>
           \/ o # 0 /\ k >= o
           \/ \E i \in 1 .. Len(old) : k \in old[i].from .. old[i].to
  BY <1>4, <1>5 DEF Framed
<1>9. \A i \in 1 .. Len(old) : old[i].from \in 1 .. m + 1 /\ old[i].to \in 1 .. m + 1
  BY <1>8
<1>10. CASE /\ o = 0 /\ stream[m + 1] = "SOI"
            /\ next.start = m + 1 /\ next.frames = old
  <2>1. NoEnd(stream, (m + 1) + 1, m + 1)
    BY DEF NoEnd
  <2>2. \A i \in 1 .. Len(old) : old[i].to < m + 1
    BY <1>8
  <2>3. \A k \in 1 .. m + 1 : stream[k] = "SOI" =>
          \/ k >= m + 1
          \/ \E i \in 1 .. Len(old) : k \in old[i].from .. old[i].to
    BY <1>7, <1>8, <1>10
  <2>4. m + 1 \in 0 .. m + 1 /\ m + 1 # 0
    OBVIOUS
  <2>5. /\ stream[next.start] = "SOI" /\ NoEnd(stream, next.start + 1, m + 1)
        /\ \A i \in 1 .. Len(old) : old[i].to < next.start
        /\ next.start \in 0 .. m + 1
    BY <1>10, <2>1, <2>2, <2>4
  <2>6. \A k \in 1 .. m + 1 : stream[k] = "SOI" =>
          \/ next.start # 0 /\ k >= next.start
          \/ \E i \in 1 .. Len(old) : k \in old[i].from .. old[i].to
    BY <1>10, <2>3, <2>4
  <2>7. Framed(next, m + 1, stream)
    BY <1>8, <1>9, <1>10, <2>5, <2>6 DEF Framed
  <2> QED  BY <1>1, <2>7
<1>11. CASE /\ next.start = o /\ next.frames = old
            /\ o = 0 => stream[m + 1] # "SOI"
            /\ o # 0 => stream[m + 1] # "EOI"
  <2>1. o # 0 => NoEnd(stream, o + 1, m + 1)
    BY <1>8, <1>11 DEF NoEnd
  <2>2. \A k \in 1 .. m + 1 : stream[k] = "SOI" =>
          \/ o # 0 /\ k >= o
          \/ \E i \in 1 .. Len(old) : k \in old[i].from .. old[i].to
    <3>1. o # 0 => m + 1 >= o
      OBVIOUS
    <3> QED  BY <1>7, <1>8, <1>11, <3>1
  <2>3. o \in 0 .. m + 1
    OBVIOUS
  <2> QED  BY <1>1, <1>8, <1>9, <1>11, <2>1, <2>2, <2>3 DEF Framed
<1>12. CASE /\ o # 0 /\ stream[m + 1] = "EOI" /\ next.start = 0
            /\ next.frames = Append(old, [from |-> o, to |-> m + 1])
  <2> DEFINE f == [from |-> o, to |-> m + 1]
             n == Len(old)
             more == Append(old, f)
  <2>1. f \in Frame /\ f.from = o /\ f.to = m + 1
    BY DEF Frame
  <2> HIDE DEF f
  <2>2. /\ Len(more) = n + 1 /\ more[n + 1] = f
        /\ \A i \in 1 .. n : more[i] = old[i]
    BY <2>1, AppendFacts
  <2>3. WholeFrame(f, stream)
    <3>1. o < m + 1 /\ (m + 1) - 1 = m
      OBVIOUS
    <3> QED  BY <1>8, <1>12, <2>1, <3>1 DEF WholeFrame
  <2>4. \A i \in 1 .. n + 1 : i \in 1 .. n \/ i = n + 1
    BY <1>6
  <2> HIDE DEF n, more
  <2>5. \A i \in 1 .. n + 1 :
          /\ more[i].from \in 1 .. m + 1 /\ more[i].to \in 1 .. m + 1
          /\ WholeFrame(more[i], stream)
    <3>1. o \in 1 .. m + 1 /\ m + 1 \in 1 .. m + 1
      BY <1>12
    <3> QED  BY <1>8, <1>9, <2>1, <2>2, <2>3, <2>4, <3>1 DEF n
  <2>6. \A i \in 2 .. n + 1 : more[i - 1].to < more[i].from
    <3> SUFFICES ASSUME NEW i \in 2 .. n + 1 PROVE more[i - 1].to < more[i].from
      OBVIOUS
    <3>1. n \in Nat
      BY <1>6 DEF n
    <3>2. CASE i \in 2 .. n
      <4>1. more[i] = old[i] /\ more[i - 1] = old[i - 1]
        <5>1. i \in 1 .. n /\ i - 1 \in 1 .. n
          BY <3>1, <3>2
        <5> QED  BY <2>2, <5>1
      <4> QED  BY <1>8, <3>2, <4>1 DEF n
    <3>3. CASE i = n + 1
      <4>1. n \in 1 .. n /\ i - 1 = n
        BY <3>1, <3>3
      <4>2. more[i] = f /\ more[i - 1] = old[n]
        BY <2>2, <3>3, <4>1
      <4>3. old[n].to < o
        BY <1>8, <1>12, <4>1 DEF n
      <4> QED  BY <2>1, <4>2, <4>3
    <3> QED  BY <3>1, <3>2, <3>3
  <2>7. ASSUME NEW k \in 1 .. m + 1, stream[k] = "SOI"
        PROVE  \E i \in 1 .. n + 1 : k \in more[i].from .. more[i].to
    <3>1. CASE k >= o
      <4>1. k \in f.from .. f.to
        BY <2>1, <3>1
      <4>2. n + 1 \in 1 .. n + 1
        BY <1>6 DEF n
      <4> QED  BY <2>2, <4>1, <4>2
    <3>2. CASE ~ (k >= o)
      <4>1. k \in 1 .. m
        BY <3>2
      <4>2. PICK i \in 1 .. n : k \in old[i].from .. old[i].to
        BY <1>8, <2>7, <3>2, <4>1 DEF n
      <4>3. i \in 1 .. n + 1
        BY <1>6 DEF n
      <4> QED  BY <2>2, <4>2, <4>3
    <3> QED  BY <3>1, <3>2
  <2>8. next.frames = more /\ 0 \in 0 .. m + 1
    BY <1>12 DEF more, f
  <2> QED  BY <1>1, <1>12, <2>2, <2>5, <2>6, <2>7, <2>8 DEF Framed
<1> QED  BY <1>3, <1>4, <1>5, <1>10, <1>11, <1>12

(* JpegsFramed, for every stream of markers.                               *)
THEOREM FramesAreWhole ==
    ASSUME NEW M, NEW stream \in Seq(M)
    PROVE  JpegsFramed(stream)
<1> DEFINE N == Len(stream)
<1>1. N \in Nat /\ DOMAIN stream = 1 .. N
  OBVIOUS
<1>2. PICK h \in [0 .. N -> Reader] : SplitRuns(h, stream)
  BY SplitTurns
<1> DEFINE T == {m \in 0 .. N : Framed(h[m], m, stream)}
<1>3. 0 \in T
  <2>1. h[0].start = 0 /\ Len(h[0].frames) = 0
    BY <1>2 DEF SplitRuns, NothingRead
  <2>2. Framed(h[0], 0, stream)
    BY <2>1 DEF Framed
  <2> QED  BY <1>1, <2>2
<1>4. ASSUME NEW k \in 1 .. N, k - 1 \in T PROVE k \in T
  <2>1. k - 1 \in Nat /\ (k - 1) + 1 = k /\ k - 1 \in 0 .. N /\ k \in 0 .. N
    BY <1>1
  <2>2. h[k - 1] \in Reader /\ Framed(h[k - 1], k - 1, stream)
    BY <1>2, <1>4, <2>1
  <2>3. Framed(ReadTurn(h[k - 1], (k - 1) + 1, stream), (k - 1) + 1, stream)
    <3> HIDE DEF T
    <3> QED  BY <2>1, <2>2, FramedTurn
  <2>4. h[k] = ReadTurn(h[k - 1], k, stream)
    BY <1>2 DEF SplitRuns
  <2> QED  BY <2>1, <2>3, <2>4
<1>5. Framed(h[N], N, stream) /\ h[N] \in Reader
  <2>1. 0 .. N \subseteq T
    <3> HIDE DEF T, N
    <3> QED  BY <1>1, <1>3, <1>4, LoopInduction
  <2> QED  BY <1>1, <1>2, <2>1
<1>6. PICK frames \in Seq(Frame) : frames = SplitMjpeg(stream) /\ frames = h[N].frames
  BY <1>2, <1>5 DEF SplitRuns, Reader
<1>7. DOMAIN frames = 1 .. Len(frames) /\ Len(frames) \in Nat
  OBVIOUS
<1> DEFINE ends(k) == {e \in DOMAIN stream : e > k /\ stream[e] = "EOI"}
<1>8. ASSUME NEW i \in 1 .. Len(frames)
      PROVE  /\ stream[frames[i].from] = "SOI"
             /\ frames[i].to \in ends(frames[i].from)
             /\ \A e \in ends(frames[i].from) : frames[i].to <= e
             /\ i > 1 => frames[i - 1].to < frames[i].from
  <2>1. /\ frames[i].from \in 1 .. N /\ frames[i].to \in 1 .. N
        /\ WholeFrame(frames[i], stream)
    BY <1>5, <1>6 DEF Framed
  <2>2. i > 1 => i \in 2 .. Len(frames)
    BY <1>7
  <2>3. i > 1 => frames[i - 1].to < frames[i].from
    BY <1>5, <1>6, <2>2 DEF Framed
  <2>4. \A e \in ends(frames[i].from) : frames[i].to <= e
    <3> SUFFICES ASSUME NEW e \in ends(frames[i].from), ~ (frames[i].to <= e)
                 PROVE  FALSE
      OBVIOUS
    <3>1. e \in frames[i].from + 1 .. frames[i].to - 1 /\ stream[e] = "EOI"
      <4>1. e \in 1 .. N /\ e > frames[i].from /\ stream[e] = "EOI"
        BY <1>1
      <4> QED  BY <1>1, <2>1, <4>1
    <3> QED  BY <2>1, <3>1 DEF WholeFrame, NoEnd
  <2>5. frames[i].to \in ends(frames[i].from) /\ stream[frames[i].from] = "SOI"
    BY <1>1, <2>1 DEF WholeFrame
  <2> QED  BY <2>3, <2>4, <2>5
<1>9. ASSUME NEW k \in 1 .. N, stream[k] = "SOI", ends(k) # {}
      PROVE  \E i \in 1 .. Len(frames) : k \in frames[i].from .. frames[i].to
  <2>1. PICK e \in 1 .. N : e > k /\ stream[e] = "EOI"
    BY <1>1, <1>9
  <2>2. ~ (h[N].start # 0 /\ k >= h[N].start)
    <3> SUFFICES ASSUME h[N].start # 0, k >= h[N].start PROVE FALSE
      OBVIOUS
    <3>1. h[N].start \in 0 .. N /\ NoEnd(stream, h[N].start + 1, N)
      BY <1>5 DEF Framed
    <3>2. e \in h[N].start + 1 .. N
      BY <1>1, <2>1, <3>1
    <3> QED  BY <2>1, <3>1, <3>2 DEF NoEnd
  <2> QED  BY <1>5, <1>6, <1>9, <2>2 DEF Framed
<1> QED  BY <1>1, <1>6, <1>7, <1>8, <1>9 DEF JpegsFramed

-----------------------------------------------------------------------------
(* video: what stream() sends, in closed form.                             *)
Bytes(from, n) == [k \in 1 .. n |-> from + k - 1]

LEMMA BytesJoin ==
    ASSUME NEW from \in Nat, NEW n \in Nat, NEW m \in Nat
    PROVE  Bytes(from, n) \o Bytes(from + n, m) = Bytes(from, n + m)
<1>1. /\ Bytes(from, n) \in Seq(Nat) /\ Len(Bytes(from, n)) = n
      /\ Bytes(from + n, m) \in Seq(Nat) /\ Len(Bytes(from + n, m)) = m
      /\ Bytes(from, n + m) \in Seq(Nat) /\ Len(Bytes(from, n + m)) = n + m
  BY DEF Bytes
<1>2. \A k \in 1 .. n : Bytes(from, n)[k] = Bytes(from, n + m)[k]
  BY DEF Bytes
<1>3. \A k \in n + 1 .. n + m : Bytes(from + n, m)[k - n] = Bytes(from, n + m)[k]
  BY DEF Bytes
<1> DEFINE s == Bytes(from, n)
           t == Bytes(from + n, m)
           u == Bytes(from, n + m)
<1> HIDE DEF s, t, u
<1>4. /\ s \in Seq(Nat) /\ t \in Seq(Nat) /\ u \in Seq(Nat)
      /\ Len(s) = n /\ Len(t) = m /\ Len(u) = n + m
      /\ \A k \in 1 .. n : s[k] = u[k]
      /\ \A k \in n + 1 .. n + m : t[k - n] = u[k]
  BY <1>1, <1>2, <1>3 DEF s, t, u
<1>5. /\ s \o t \in Seq(Nat) /\ Len(s \o t) = n + m
      /\ \A k \in 1 .. n + m : (s \o t)[k] = IF k <= n THEN s[k] ELSE t[k - n]
  BY <1>4, ConcatProperties
<1>6. \A k \in 1 .. n + m : (s \o t)[k] = u[k]
  <2> SUFFICES ASSUME NEW k \in 1 .. n + m PROVE (s \o t)[k] = u[k]
    OBVIOUS
  <2>1. (s \o t)[k] = IF k <= n THEN s[k] ELSE t[k - n]
    BY <1>5
  <2>2. CASE k <= n
    <3>1. k \in 1 .. n
      BY <2>2
    <3> QED  BY <1>4, <2>1, <2>2, <3>1
  <2>3. CASE ~ (k <= n)
    <3>1. k \in n + 1 .. n + m
      BY <2>3
    <3>2. (s \o t)[k] = t[k - n]
      BY <2>1, <2>3
    <3>3. t[k - n] = u[k]
      BY <1>4, <3>1
    <3> QED  BY <3>2, <3>3
  <2> QED  BY <2>2, <2>3
<1>7. s \o t = u
  BY <1>4, <1>5, <1>6, SeqEqual
<1> QED  BY <1>7 DEF s, t, u

LEMMA MinOfThree ==
    ASSUME NEW a \in Int, NEW b \in Int, NEW c \in Int
    PROVE  /\ Min({a, b, c}) \in {a, b, c}
           /\ Min({a, b, c}) <= a /\ Min({a, b, c}) <= b /\ Min({a, b, c}) <= c
<1>1. \E x \in {a, b, c} : \A y \in {a, b, c} : x <= y
  OBVIOUS
<1> QED  BY <1>1 DEF Min

LEMMA LengthOfRange ==
    ASSUME NEW first \in Nat \union {Absent}, NEW last \in Nat \union {Absent},
           NEW size \in Nat, ~ Unsatisfiable(first, last, size)
    PROVE  /\ FromByte(first) \in Nat /\ ToByte(last, size) \in Int
           /\ ContentLength(first, last, size) \in Nat \ {0}
           /\ FromByte(first) + ContentLength(first, last, size) - 1
                = LastByte(last, size)
           /\ LastByte(last, size) <= size - 1
           /\ LastByte(last, size) <= ToByte(last, size)
           /\ LastByte(last, size) \in {ToByte(last, size), size - 1}
<1>1. FromByte(first) \in Nat /\ ToByte(last, size) \in Int
  BY DEF FromByte, ToByte
<1>2. PICK a \in Int : a = ToByte(last, size)
  BY <1>1
<1>3. PICK b \in Int : b = size - 1
  OBVIOUS
<1>4. /\ Min({a, b}) \in {a, b} /\ Min({a, b}) <= a /\ Min({a, b}) <= b
  <2>1. \E x \in {a, b} : \A y \in {a, b} : x <= y
    OBVIOUS
  <2> QED  BY <2>1 DEF Min
<1>5. LastByte(last, size) = Min({a, b})
  BY <1>2, <1>3 DEF LastByte
<1>6. FromByte(first) < size /\ FromByte(first) <= a
  BY <1>1, <1>2 DEF Unsatisfiable
<1> QED  BY <1>1, <1>2, <1>3, <1>4, <1>5, <1>6 DEF ContentLength

(* stream() reads in blocks, of which the last may be short.               *)
LEMMA StreamSends ==
    ASSUME NEW first \in Nat \union {Absent}, NEW last \in Nat \union {Absent},
           NEW size \in Nat, NEW block \in Nat \ {0},
           ~ Unsatisfiable(first, last, size)
    PROVE  Sent(first, last, size, block)
             = Bytes(FromByte(first), ContentLength(first, last, size))
<1> DEFINE length == ContentLength(first, last, size)
           from == FromByte(first)
           at(left) == from + length - left
           n(left) == Min({block, left, size - at(left)})
           Block(left, rest) == IF n(left) <= 0 THEN <<>>
                                ELSE [k \in 1 .. n(left) |-> at(left) + k - 1] \o rest
           closed == [left \in 0 .. length |-> Bytes(at(left), left)]
           read == CHOOSE g : g =
                     [left \in 0 .. length |-> Block(left, g[left - n(left)])]
<1>1. Sent(first, last, size, block) = read[length]
  BY DEF Sent
<1>2. from \in Nat /\ length \in Nat /\ from + length <= size
  BY LengthOfRange
<1> HIDE DEF from, length
<1>3. ASSUME NEW left \in 0 .. length
      PROVE  /\ at(left) \in Nat /\ n(left) \in 0 .. left
             /\ n(left) <= 0 <=> left = 0
  <2>1. at(left) \in Nat /\ size - at(left) >= left
    BY <1>2
  <2>2. PICK room \in Int : room = size - at(left) /\ room >= left
    BY <2>1
  <2>3. /\ Min({block, left, room}) \in {block, left, room}
        /\ Min({block, left, room}) <= left
    BY MinOfThree
  <2>4. n(left) \in {block, left, room} /\ n(left) <= left
    BY <2>2, <2>3
  <2> HIDE DEF n
  <2> QED  BY <2>1, <2>2, <2>4
<1> HIDE DEF n
<1>4. ASSUME NEW left \in 0 .. length, left # 0
      PROVE  /\ left - n(left) \in 0 .. left - 1
             /\ Block(left, Bytes(at(left - n(left)), left - n(left)))
                  = Bytes(at(left), left)
  <2>1. /\ at(left) \in Nat /\ n(left) \in Nat \ {0} /\ left - n(left) \in Nat
        /\ left - n(left) \in 0 .. left - 1
        /\ at(left - n(left)) = at(left) + n(left)
        /\ n(left) + (left - n(left)) = left /\ ~ (n(left) <= 0)
    BY <1>2, <1>3, <1>4
  <2> DEFINE b == at(left)
  <2> HIDE DEF at, b
  <2>2. Bytes(b, n(left)) \o Bytes(b + n(left), left - n(left))
          = Bytes(b, n(left) + (left - n(left)))
    BY <2>1, BytesJoin DEF b
  <2>3. Bytes(b, n(left)) = [k \in 1 .. n(left) |-> b + k - 1]
    BY DEF Bytes
  <2> QED  BY <2>1, <2>2, <2>3 DEF b
<1>5. ASSUME NEW left \in 0 .. length, left = 0, NEW rest
      PROVE  Block(left, rest) = Bytes(at(left), left)
  <2>1. Bytes(at(left), left) = <<>>
    BY <1>5 DEF Bytes
  <2> QED  BY <1>3, <1>5, <2>1
<1> HIDE DEF at, Block
<1>6. closed = [left \in 0 .. length |-> Block(left, closed[left - n(left)])]
  <2>1. ASSUME NEW left \in 0 .. length
        PROVE  Bytes(at(left), left) = Block(left, closed[left - n(left)])
    <3>1. CASE left = 0
      BY <1>5, <3>1
    <3>2. CASE left # 0
      <4>1. left - n(left) \in 0 .. length
        BY <1>2, <1>4, <3>2
      <4>2. closed[left - n(left)] = Bytes(at(left - n(left)), left - n(left))
        BY <4>1
      <4> QED  BY <1>4, <3>2, <4>2
    <3> QED  BY <3>1, <3>2
  <2> QED  BY <2>1
<1>7. read = [left \in 0 .. length |-> Block(left, read[left - n(left)])]
  <2> HIDE DEF closed
  <2> QED  BY <1>6
<1> HIDE DEF read, closed
<1> DEFINE T == {m \in 0 .. length :
                   \A left \in 0 .. m : read[left] = Bytes(at(left), left)}
<1>8. 0 .. length \subseteq T
  <2>1. 0 \in T
    <3>1. \A left \in 0 .. 0 : read[left] = Bytes(at(left), left)
      BY <1>2, <1>5, <1>7
    <3> QED  BY <1>2, <3>1
  <2>2. ASSUME NEW k \in 1 .. length, k - 1 \in T PROVE k \in T
    <3>1. /\ k \in 0 .. length /\ k # 0 /\ k - 1 \in 0 .. length
          /\ \A left \in 0 .. k : left \in 0 .. k - 1 \/ left = k
      BY <1>2
    <3>2. \A left \in 0 .. k - 1 : read[left] = Bytes(at(left), left)
      BY <2>2
    <3>3. k - n(k) \in 0 .. k - 1
      BY <1>4, <3>1
    <3>4. read[k] = Bytes(at(k), k)
      BY <1>4, <1>7, <3>1, <3>2, <3>3
    <3> QED  BY <3>1, <3>2, <3>4
  <2> HIDE DEF T
  <2> QED  BY <1>2, <2>1, <2>2, LoopInduction
<1>9. read[length] = Bytes(at(length), length)
  <2>1. length \in 0 .. length
    BY <1>2
  <2> QED  BY <1>8, <2>1
<1>10. at(length) = from
  BY <1>2 DEF at
<1> QED  BY <1>1, <1>9, <1>10 DEF from, length

(* RangeKept, for every header, file and block size.                       *)
THEOREM RangesAreKept ==
    ASSUME NEW first \in Nat \union {Absent}, NEW last \in Nat \union {Absent},
           NEW size \in Nat, NEW block \in Nat \ {0}
    PROVE  RangeKept(first, last, size, block)
<1> DEFINE asked == {b \in 0 .. size - 1 :
                       FromByte(first) <= b /\ b <= ToByte(last, size)}
           sent == Sent(first, last, size, block)
           from == FromByte(first)
           length == ContentLength(first, last, size)
<1>1. CASE Unsatisfiable(first, last, size)
  <2>1. FromByte(first) \in Nat /\ ToByte(last, size) \in Int
    BY DEF FromByte, ToByte
  <2>2. asked = {}
    BY <1>1, <2>1 DEF Unsatisfiable
  <2> QED  BY <1>1, <2>2 DEF RangeKept
<1>2. CASE ~ Unsatisfiable(first, last, size)
  <2>1. /\ from \in Nat /\ length \in Nat /\ ToByte(last, size) \in Int
        /\ from + length - 1 = LastByte(last, size)
        /\ LastByte(last, size) <= size - 1
        /\ LastByte(last, size) <= ToByte(last, size)
        /\ LastByte(last, size) \in {ToByte(last, size), size - 1}
    BY <1>2, LengthOfRange
  <2>2. sent = Bytes(from, length)
    BY <1>2, StreamSends
  <2> HIDE DEF sent, from, length
  <2>3. /\ Len(sent) = length /\ DOMAIN sent = 1 .. length
        /\ \A k \in 1 .. length : sent[k] = from + k - 1
    BY <2>1, <2>2 DEF Bytes
  <2>4. asked = from .. from + length - 1
    BY <2>1 DEF from
  <2>5. ToSet(sent) = from .. from + length - 1
    <3>1. \A b \in from .. from + length - 1 : b - from + 1 \in 1 .. length
      BY <2>1
    <3>2. \A b \in from .. from + length - 1 : sent[b - from + 1] = b
      BY <2>1, <2>3, <3>1
    <3>3. \A k \in 1 .. length : sent[k] \in from .. from + length - 1
      BY <2>1, <2>3
    <3> QED  BY <2>3, <3>1, <3>2, <3>3 DEF ToSet
  <2>6. \A i, j \in DOMAIN sent : i < j => sent[i] < sent[j]
    BY <2>1, <2>3
  <2> QED  BY <1>2, <2>3, <2>4, <2>5, <2>6 DEF RangeKept, sent, length
<1> QED  BY <1>1, <1>2

-----------------------------------------------------------------------------
(* Histograms.  Their buckets count what was observed up to their bound,   *)
(* and those that nothing was counted in do not exist.                     *)
Histograms(B) == UNION {[D -> Nat] : D \in SUBSET B}

UpTo(observed, k, b) == {i \in 1 .. k : observed[i] <= b}

Counts(buckets, observed, k, B) ==
    /\ DOMAIN buckets = {b \in B : UpTo(observed, k, b) # {}}
    /\ \A b \in DOMAIN buckets :
         buckets[b] = Cardinality(UpTo(observed, k, b))

LEMMA UpToCounted ==
    ASSUME NEW observed, NEW k \in Nat, NEW b
    PROVE  /\ IsFiniteSet(UpTo(observed, k, b))
           /\ Cardinality(UpTo(observed, k, b)) \in Nat
           /\ Cardinality(UpTo(observed, k, b)) = 0
                <=> UpTo(observed, k, b) = {}
           /\ UpTo(observed, k + 1, b)
                = UpTo(observed, k, b)
                    \union (IF observed[k + 1] <= b THEN {k + 1} ELSE {})
           /\ Cardinality(UpTo(observed, k + 1, b))
                = Cardinality(UpTo(observed, k, b))
                    + (IF observed[k + 1] <= b THEN 1 ELSE 0)
<1>1. IsFiniteSet(1 .. k)
  BY FS_Interval
<1>2. IsFiniteSet(UpTo(observed, k, b))
  <2>1. UpTo(observed, k, b) \subseteq 1 .. k
    BY DEF UpTo
  <2> QED  BY <1>1, <2>1, FS_Subset
<1>3. /\ Cardinality(UpTo(observed, k, b)) \in Nat
      /\ Cardinality(UpTo(observed, k, b)) = 0 <=> UpTo(observed, k, b) = {}
  BY <1>2, FS_CardinalityType, FS_EmptySet
<1>4. UpTo(observed, k + 1, b)
        = UpTo(observed, k, b)
            \union (IF observed[k + 1] <= b THEN {k + 1} ELSE {})
  <2>1. 1 .. k + 1 = (1 .. k) \union {k + 1}
    OBVIOUS
  <2> QED  BY <2>1 DEF UpTo
<1>5. k + 1 \notin UpTo(observed, k, b)
  BY DEF UpTo
<1>6. Cardinality(UpTo(observed, k, b) \union {k + 1})
        = Cardinality(UpTo(observed, k, b)) + 1
  BY <1>2, <1>5, FS_AddElement
<1>7. CASE observed[k + 1] <= b
  BY <1>2, <1>3, <1>4, <1>6, <1>7
<1>8. CASE ~ (observed[k + 1] <= b)
  <2>1. UpTo(observed, k + 1, b) = UpTo(observed, k, b)
    BY <1>4, <1>8
  <2> QED  BY <1>2, <1>3, <1>4, <1>8, <2>1
<1> QED  BY <1>7, <1>8

LEMMA ObserveTyped ==
    ASSUME NEW bounds, NEW buckets \in Histograms(ToSet(bounds)), NEW v
    PROVE  Observe(buckets, v, bounds) \in Histograms(ToSet(bounds))
<1> DEFINE B == ToSet(bounds)
           D == DOMAIN buckets \union {b \in B : v <= b}
<1>1. DOMAIN buckets \subseteq B /\ \A b \in DOMAIN buckets : buckets[b] \in Nat
  BY DEF Histograms
<1>2. D \in SUBSET B
  BY <1>1
<1>3. \A b \in D : InBucket(buckets, b) \in Nat
  BY <1>1 DEF InBucket
<1>4. Observe(buckets, v, bounds) \in [D -> Nat]
  BY <1>3 DEF Observe
<1> QED  BY <1>2, <1>4 DEF Histograms

LEMMA ObserveCounts ==
    ASSUME NEW bounds, NEW buckets, NEW observed, NEW k \in Nat,
           Counts(buckets, observed, k, ToSet(bounds))
    PROVE  Counts(Observe(buckets, observed[k + 1], bounds), observed, k + 1,
                  ToSet(bounds))
<1> DEFINE B == ToSet(bounds)
           v == observed[k + 1]
           fit == {b \in B : v <= b}
           more == Observe(buckets, v, bounds)
<1>1. /\ DOMAIN more = DOMAIN buckets \union fit
      /\ \A b \in DOMAIN buckets \union fit :
           more[b] = InBucket(buckets, b) + (IF b \in fit THEN 1 ELSE 0)
  BY DEF Observe
<1> HIDE DEF more, B
<1>2. \A b \in B : b \in DOMAIN more <=> UpTo(observed, k + 1, b) # {}
  <2>1. \A b \in B : b \in DOMAIN buckets <=> UpTo(observed, k, b) # {}
    BY DEF Counts, B
  <2>2. \A b \in B : UpTo(observed, k + 1, b)
          = UpTo(observed, k, b) \union (IF v <= b THEN {k + 1} ELSE {})
    BY UpToCounted
  <2> QED  BY <1>1, <2>1, <2>2
<1>3. DOMAIN more \subseteq B
  BY <1>1 DEF Counts, B
<1>4. \A b \in DOMAIN more : more[b] = Cardinality(UpTo(observed, k + 1, b))
  <2> SUFFICES ASSUME NEW b \in DOMAIN more
               PROVE  more[b] = Cardinality(UpTo(observed, k + 1, b))
    OBVIOUS
  <2>1. InBucket(buckets, b) = Cardinality(UpTo(observed, k, b))
    <3>1. CASE b \in DOMAIN buckets
      BY <3>1 DEF InBucket, Counts
    <3>2. CASE b \notin DOMAIN buckets
      <4>1. UpTo(observed, k, b) = {}
        BY <1>3, <3>2 DEF Counts, B
      <4> QED  BY <3>2, <4>1, UpToCounted DEF InBucket
    <3> QED  BY <3>1, <3>2
  <2>2. b \in fit <=> v <= b
    BY <1>3
  <2>3. Cardinality(UpTo(observed, k + 1, b))
          = Cardinality(UpTo(observed, k, b)) + (IF v <= b THEN 1 ELSE 0)
    BY UpToCounted
  <2> HIDE DEF fit, v
  <2> QED  BY <1>1, <2>1, <2>2, <2>3
<1>5. DOMAIN more = {b \in B : UpTo(observed, k + 1, b) # {}}
  BY <1>2, <1>3
<1> QED  BY <1>4, <1>5 DEF Counts, more, B

HistogramRuns(h, observed, bounds) ==
    /\ h[0] = NoBuckets
    /\ \A k \in 1 .. Len(observed) : h[k] = Observe(h[k - 1], observed[k], bounds)
    /\ Histogram(observed, bounds) = h[Len(observed)]

LEMMA HistogramTurns ==
    ASSUME NEW M, NEW observed \in Seq(M), NEW bounds
    PROVE  \E h \in [0 .. Len(observed) -> Histograms(ToSet(bounds))] :
             HistogramRuns(h, observed, bounds)
<1> DEFINE n == Len(observed)
           H == Histograms(ToSet(bounds))
           turn == [p \in H \X (1 .. n) |-> Observe(p[1], observed[p[2]], bounds)]
           iter == CHOOSE g : g = [s \in SUBSET (DOMAIN observed) |->
                     IF s = {} THEN NoBuckets
                     ELSE Observe(g[s \ {Max(s)}], observed[Max(s)], bounds)]
<1>n. n \in Nat
  OBVIOUS
<1>d. DOMAIN observed = 1 .. n
  OBVIOUS
<1>1. Histogram(observed, bounds) = iter[DOMAIN observed]
  BY DEF Histogram, FoldLeft, MapThenFoldSet
<1>2. NoBuckets \in H
  <2>1. NoBuckets \in [{} -> Nat]
    BY DEF NoBuckets
  <2> QED  BY <2>1 DEF Histograms
<1>3. turn \in [H \X (1 .. n) -> H]
  <2>1. \A buckets \in H, k \in 1 .. n : Observe(buckets, observed[k], bounds) \in H
    BY ObserveTyped
  <2> HIDE DEF n, H
  <2> QED  BY <2>1
<1> HIDE DEF turn, n, H
<1>4. PICK g \in [SUBSET (1 .. n) -> H] : FoldOf(g, n, NoBuckets, turn)
  BY <1>n, <1>2, <1>3, FoldExists
<1>5. ASSUME NEW s \in SUBSET (1 .. n), s # {}, NEW buckets \in H
      PROVE  turn[<<buckets, Max(s)>>] = Observe(buckets, observed[Max(s)], bounds)
  <2>1. Max(s) \in 1 .. n
    BY <1>n, <1>5, MaxOfSome
  <2> QED  BY <2>1 DEF turn
<1>6. g = [s \in SUBSET (DOMAIN observed) |->
             IF s = {} THEN NoBuckets
             ELSE Observe(g[s \ {Max(s)}], observed[Max(s)], bounds)]
  <2>1. \A s \in SUBSET (1 .. n) :
          s # {} => /\ g[s \ {Max(s)}] \in H
                    /\ g[s] = Observe(g[s \ {Max(s)}], observed[Max(s)], bounds)
    BY <1>4, <1>5 DEF FoldOf
  <2> QED  BY <1>d, <1>4, <2>1 DEF FoldOf
<1>7. iter = [s \in SUBSET (DOMAIN observed) |->
                IF s = {} THEN NoBuckets
                ELSE Observe(iter[s \ {Max(s)}], observed[Max(s)], bounds)]
  BY <1>6
<1> HIDE DEF iter
<1>8. FoldsWithin(iter, n, H, NoBuckets, turn)
  <2>1. iter[{}] = NoBuckets
    BY <1>7
  <2>2. \A s \in SUBSET (1 .. n) :
          s # {} /\ iter[s \ {Max(s)}] \in H
            => iter[s] = turn[<<iter[s \ {Max(s)}], Max(s)>>]
    BY <1>d, <1>5, <1>7
  <2> QED  BY <2>1, <2>2 DEF FoldsWithin
<1>9. PICK h \in [0 .. n -> H] : TurnByTurn(h, n, NoBuckets, turn, iter[1 .. n])
  BY <1>n, <1>2, <1>3, <1>8, FoldTurns
<1>10. ASSUME NEW k \in 1 .. n PROVE h[k] = Observe(h[k - 1], observed[k], bounds)
  <2>1. h[k - 1] \in H
    BY <1>n, <1>9
  <2> QED  BY <1>9, <2>1 DEF TurnByTurn, turn
<1> QED  BY <1>1, <1>d, <1>9, <1>10 DEF n, H, TurnByTurn, HistogramRuns

LEMMA HistogramCounts ==
    ASSUME NEW M, NEW observed \in Seq(M), NEW bounds
    PROVE  Counts(Histogram(observed, bounds), observed, Len(observed),
                  ToSet(bounds))
<1> DEFINE n == Len(observed)
<1>1. n \in Nat
  OBVIOUS
<1>2. PICK h : HistogramRuns(h, observed, bounds)
  BY HistogramTurns
<1> DEFINE T == {k \in 0 .. n : Counts(h[k], observed, k, ToSet(bounds))}
<1>3. 0 \in T
  <2>1. \A b : UpTo(observed, 0, b) = {}
    BY DEF UpTo
  <2>2. Counts(h[0], observed, 0, ToSet(bounds))
    BY <1>2, <2>1 DEF Counts, HistogramRuns, NoBuckets
  <2> QED  BY <1>1, <2>2
<1>4. ASSUME NEW k \in 1 .. n, k - 1 \in T PROVE k \in T
  <2>1. k - 1 \in Nat /\ (k - 1) + 1 = k /\ k \in 0 .. n
    BY <1>1
  <2>2. Counts(h[k - 1], observed, k - 1, ToSet(bounds))
    BY <1>4
  <2>3. Counts(Observe(h[k - 1], observed[(k - 1) + 1], bounds), observed,
               (k - 1) + 1, ToSet(bounds))
    <3> HIDE DEF T
    <3> QED  BY <2>1, <2>2, ObserveCounts
  <2> QED  BY <1>2, <2>1, <2>3 DEF HistogramRuns
<1>5. 0 .. n \subseteq T
  <2> HIDE DEF T, n
  <2> QED  BY <1>1, <1>3, <1>4, LoopInduction
<1> QED  BY <1>1, <1>2, <1>5 DEF HistogramRuns

LEMMA MinOfSome ==
    ASSUME NEW S \in SUBSET Nat, S # {}
    PROVE  Min(S) \in S /\ \A y \in S : Min(S) <= y
<1>1. PICK m \in S : \A k \in S : ~ (<<k, m>> \in OpToRel(<, Nat))
  BY NatLessThanWellFounded, WFMin
<1>2. \A k \in S : ~ (k < m)
  BY <1>1 DEF OpToRel
<1>3. \A k \in S : m <= k
  BY <1>2
<1> QED  BY <1>3 DEF Min

(* render: with bounds in order, a bucket that does not exist shows none.  *)
LEMMA RenderedCounts ==
    ASSUME NEW bounds \in Seq(Int), NEW observed \in Seq(Int), NEW buckets,
           NEW n \in Nat, n = Len(observed),
           \A i, j \in DOMAIN bounds : i < j => bounds[i] < bounds[j],
           Counts(buckets, observed, n, ToSet(bounds))
    PROVE  \A i \in DOMAIN bounds :
             Rendered(buckets, bounds)[i]
               = Cardinality(UpTo(observed, n, bounds[i]))
<1> DEFINE size == Len(bounds)
           Shows(i, before) == IF i = 0 THEN 0
                               ELSE IF bounds[i] \in DOMAIN buckets
                                      THEN buckets[bounds[i]]
                                    ELSE before
           closed == [i \in 0 .. size |->
                        IF i = 0 THEN 0
                        ELSE Cardinality(UpTo(observed, n, bounds[i]))]
           line == CHOOSE g : g = [i \in 0 .. size |-> Shows(i, g[i - 1])]
<1>1. Rendered(buckets, bounds) = [i \in DOMAIN bounds |-> line[i]]
  BY DEF Rendered
<1>2. /\ size \in Nat /\ DOMAIN bounds = 1 .. size
      /\ \A i \in 1 .. size : bounds[i] \in Int /\ bounds[i] \in ToSet(bounds)
  BY DEF ToSet
<1>3. ASSUME NEW i \in 1 .. size, bounds[i] \in DOMAIN buckets
      PROVE  buckets[bounds[i]] = closed[i]
  BY <1>2, <1>3 DEF Counts
<1>4. ASSUME NEW i \in 1 .. size, bounds[i] \notin DOMAIN buckets
      PROVE  closed[i] = 0 /\ closed[i - 1] = 0
  <2>1. UpTo(observed, n, bounds[i]) = {}
    BY <1>2, <1>4 DEF Counts
  <2>2. closed[i] = 0
    BY <1>2, <2>1, UpToCounted
  <2>3. CASE i = 1
    BY <1>2, <2>2, <2>3
  <2>4. CASE i # 1
    <3>1. i - 1 \in 1 .. size /\ i - 1 \in 0 .. size /\ i - 1 # 0 /\ i - 1 < i
      BY <1>2, <2>4
    <3>2. bounds[i - 1] < bounds[i] /\ bounds[i - 1] \in Int /\ bounds[i] \in Int
      BY <1>2, <3>1
    <3>3. UpTo(observed, n, bounds[i - 1]) = {}
      <4>1. \A k \in 1 .. n : observed[k] \in Int
        OBVIOUS
      <4> QED  BY <2>1, <3>2, <4>1 DEF UpTo
    <3> QED  BY <2>2, <3>1, <3>3, UpToCounted
  <2> QED  BY <2>3, <2>4
<1>5. closed = [i \in 0 .. size |-> Shows(i, closed[i - 1])]
  <2>1. ASSUME NEW i \in 0 .. size PROVE closed[i] = Shows(i, closed[i - 1])
    <3>1. CASE i = 0
      BY <3>1
    <3>2. CASE i # 0
      <4>1. i \in 1 .. size
        BY <1>2, <3>2
      <4> HIDE DEF closed
      <4> QED  BY <1>3, <1>4, <3>2, <4>1
    <3> QED  BY <3>1, <3>2
  <2> HIDE DEF Shows
  <2>2. closed = [i \in 0 .. size |-> closed[i]]
    OBVIOUS
  <2> HIDE DEF closed
  <2> QED  BY <2>1, <2>2
<1>6. line = [i \in 0 .. size |-> Shows(i, line[i - 1])]
  <2> HIDE DEF closed, Shows
  <2> QED  BY <1>5
<1> HIDE DEF line
<1> DEFINE T == {i \in 0 .. size : line[i] = closed[i]}
<1>7. 0 .. size \subseteq T
  <2>1. 0 \in T
    BY <1>2, <1>6
  <2>2. ASSUME NEW k \in 1 .. size, k - 1 \in T PROVE k \in T
    <3>1. k \in 0 .. size /\ k # 0 /\ line[k - 1] = closed[k - 1]
      BY <1>2, <2>2
    <3> HIDE DEF closed
    <3>2. line[k] = Shows(k, line[k - 1])
      BY <1>6, <3>1
    <3>3. line[k] = closed[k]
      BY <1>3, <1>4, <3>1, <3>2
    <3> QED  BY <3>1, <3>3
  <2> HIDE DEF T, size
  <2> QED  BY <1>2, <2>1, <2>2, LoopInduction
<1>8. ASSUME NEW i \in 1 .. size
      PROVE  line[i] = Cardinality(UpTo(observed, n, bounds[i]))
  <2>1. i \in 0 .. size /\ i # 0
    BY <1>2
  <2>2. line[i] = closed[i]
    BY <1>7, <2>1
  <2> QED  BY <2>1, <2>2
<1> QED  BY <1>1, <1>2, <1>8

(* LatencyTrue, for every course of requests, all bounds that rise, and    *)
(* every percentile.                                                       *)
THEOREM LatencyIsTrue ==
    ASSUME NEW bounds \in Seq(Int), bounds # <<>>,
           \A i, j \in DOMAIN bounds : i < j => bounds[i] < bounds[j],
           NEW observed \in Seq(Int), NEW q \in Nat
    PROVE  LatencyTrue(observed, bounds, q)
<1> DEFINE buckets == Histogram(observed, bounds)
           n == Len(observed)
           upTo(b) == Cardinality({i \in DOMAIN observed : observed[i] <= b})
           p == Percentile(buckets, n, q, bounds)
           enough == {i \in DOMAIN bounds :
                        100 * InBucket(buckets, bounds[i]) >= q * n}
<1>1. n \in Nat /\ DOMAIN observed = 1 .. n
  OBVIOUS
<1>2. /\ Len(bounds) \in Nat \ {0} /\ DOMAIN bounds = 1 .. Len(bounds)
      /\ \A i \in DOMAIN bounds : bounds[i] \in Int /\ bounds[i] \in ToSet(bounds)
      /\ Last(bounds) = bounds[Len(bounds)]
  BY DEF ToSet, Last
<1>3. \A b : /\ upTo(b) = Cardinality(UpTo(observed, n, b)) /\ upTo(b) \in Nat
             /\ upTo(b) = 0 <=> UpTo(observed, n, b) = {}
  <2> SUFFICES ASSUME NEW b
               PROVE  /\ upTo(b) = Cardinality(UpTo(observed, n, b))
                      /\ upTo(b) \in Nat
                      /\ upTo(b) = 0 <=> UpTo(observed, n, b) = {}
    OBVIOUS
  <2>1. {i \in DOMAIN observed : observed[i] <= b} = UpTo(observed, n, b)
    BY <1>1 DEF UpTo
  <2>2. upTo(b) = Cardinality(UpTo(observed, n, b))
    BY <2>1
  <2>3. n \in Nat
    BY <1>1
  <2> HIDE DEF n, upTo
  <2>4. /\ Cardinality(UpTo(observed, n, b)) \in Nat
        /\ Cardinality(UpTo(observed, n, b)) = 0 <=> UpTo(observed, n, b) = {}
    BY <2>3, UpToCounted
  <2> QED  BY <2>2, <2>4
<1>4. Counts(buckets, observed, n, ToSet(bounds))
  BY HistogramCounts
<1> HIDE DEF buckets
<1>5. \A b \in ToSet(bounds) : InBucket(buckets, b) = upTo(b)
  <2> SUFFICES ASSUME NEW b \in ToSet(bounds)
               PROVE  InBucket(buckets, b) = upTo(b)
    OBVIOUS
  <2>1. CASE b \in DOMAIN buckets
    <3> HIDE DEF n, upTo
    <3> QED  BY <1>3, <1>4, <2>1 DEF InBucket, Counts
  <2>2. CASE b \notin DOMAIN buckets
    <3> HIDE DEF n, upTo
    <3>1. UpTo(observed, n, b) = {}
      BY <1>4, <2>2 DEF Counts
    <3> QED  BY <1>3, <2>2, <3>1 DEF InBucket
  <2> QED  BY <2>1, <2>2
<1>6. \A i \in DOMAIN bounds : Rendered(buckets, bounds)[i] = upTo(bounds[i])
  <2> HIDE DEF n, upTo
  <2>1. n = Len(observed)
    BY DEF n
  <2> QED  BY <1>1, <1>3, <1>4, <2>1, RenderedCounts
<1> HIDE DEF upTo, n
<1>7. enough = {i \in DOMAIN bounds : 100 * upTo(bounds[i]) >= q * n}
  BY <1>2, <1>5
<1>8. ASSUME n > 0
      PROVE  /\ \A b \in ToSet(bounds) : b < p => 100 * upTo(b) < q * n
             /\ 100 * upTo(p) >= q * n \/ p = Last(bounds)
  <2>1. p = IF enough = {} THEN Last(bounds) ELSE bounds[Min(enough)]
    BY <1>1, <1>8 DEF Percentile
  <2>2. enough \in SUBSET Nat /\ enough \subseteq DOMAIN bounds
    BY <1>2
  <2>3. \A j \in DOMAIN bounds : j \notin enough => 100 * upTo(bounds[j]) < q * n
    <3>1. q * n \in Nat
      BY <1>1
    <3> SUFFICES ASSUME NEW j \in DOMAIN bounds, j \notin enough
                 PROVE  100 * upTo(bounds[j]) < q * n
      OBVIOUS
    <3>2. ~ (100 * upTo(bounds[j]) >= q * n)
      BY <1>7
    <3>3. PICK c \in Nat : c = upTo(bounds[j])
      BY <1>3
    <3>4. PICK d \in Nat : d = q * n
      BY <3>1
    <3> QED  BY <3>2, <3>3, <3>4
  <2>4. CASE enough = {}
    <3>1. \A b \in ToSet(bounds) : 100 * upTo(b) < q * n
      BY <2>3, <2>4 DEF ToSet
    <3> HIDE DEF enough, p
    <3> QED  BY <2>1, <2>4, <3>1
  <2>5. CASE enough # {}
    <3> HIDE DEF enough, p
    <3>1. PICK m \in DOMAIN bounds :
            /\ m \in enough /\ p = bounds[m] /\ \A y \in enough : m <= y
      BY <2>1, <2>2, <2>5, MinOfSome
    <3>2. ASSUME NEW j \in DOMAIN bounds, bounds[j] < p
          PROVE  j \notin enough
      <4>1. ~ (m < j) /\ m # j
        BY <1>2, <3>1, <3>2
      <4> QED  BY <1>2, <3>1, <4>1
    <3>3. \A b \in ToSet(bounds) : b < p => 100 * upTo(b) < q * n
      BY <2>3, <3>2 DEF ToSet
    <3>4. 100 * upTo(p) >= q * n
      BY <1>7, <3>1
    <3> QED  BY <3>3, <3>4
  <2> QED  BY <2>4, <2>5
<1> HIDE DEF p
<1> QED  BY <1>6, <1>8 DEF LatencyTrue, buckets, upTo, n, p

-----------------------------------------------------------------------------
(* _window_chunks: its loop starts at 0, step, 2 * step, ... up to the     *)
(* first start from which a window reaches the end.                        *)
Multiples(step, k) == {j * step : j \in 0 .. k - 1}

LEMMA MultiplesCounted ==
    ASSUME NEW step \in Nat \ {0}, NEW k \in Nat
    PROVE  /\ IsFiniteSet(Multiples(step, k))
           /\ Cardinality(Multiples(step, k)) = k
<1> DEFINE T == {m \in 0 .. k : /\ IsFiniteSet(Multiples(step, m))
                                /\ Cardinality(Multiples(step, m)) = m}
<1>1. 0 \in T
  <2>1. Multiples(step, 0) = {}
    BY DEF Multiples
  <2>2. 0 \in 0 .. k
    OBVIOUS
  <2> QED  BY <2>1, <2>2, FS_EmptySet
<1>2. ASSUME NEW m \in 1 .. k, m - 1 \in T PROVE m \in T
  <2>1. m - 1 \in Nat /\ m \in 0 .. k
    OBVIOUS
  <2>2. Multiples(step, m) = Multiples(step, m - 1) \union {(m - 1) * step}
    <3>1. 0 .. m - 1 = (0 .. (m - 1) - 1) \union {m - 1}
      OBVIOUS
    <3> QED  BY <3>1 DEF Multiples
  <2>3. (m - 1) * step \notin Multiples(step, m - 1)
    <3> SUFFICES ASSUME NEW j \in 0 .. (m - 1) - 1, j * step = (m - 1) * step
                 PROVE  FALSE
      BY DEF Multiples
    <3>1. (m - 1) * step = j * step + (m - 1 - j) * step /\ m - 1 - j \in Nat \ {0}
      OBVIOUS
    <3>2. step * 1 <= step * (m - 1 - j) /\ step * 1 = step
      BY <3>1, TimesMonotone
    <3> QED  BY <3>1, <3>2
  <2>4. /\ IsFiniteSet(Multiples(step, m - 1))
        /\ Cardinality(Multiples(step, m - 1)) = m - 1
    BY <1>2
  <2>5. Cardinality(Multiples(step, m - 1) \union {(m - 1) * step}) = (m - 1) + 1
    BY <2>3, <2>4, FS_AddElement
  <2>6. IsFiniteSet(Multiples(step, m - 1) \union {(m - 1) * step})
    BY <2>4, FS_AddElement
  <2>7. IsFiniteSet(Multiples(step, m)) /\ (m - 1) + 1 = m
    BY <2>2, <2>6
  <2>8. Cardinality(Multiples(step, m)) = (m - 1) + 1
    BY <2>2, <2>5
  <2> QED  BY <2>1, <2>7, <2>8
<1>3. 0 .. k \subseteq T
  <2> HIDE DEF T
  <2> QED  BY <1>1, <1>2, LoopInduction
<1> QED  BY <1>3

LEMMA MultiplesOrdered ==
    ASSUME NEW step \in Nat \ {0}, NEW i \in Nat, NEW j \in Nat
    PROVE  /\ i * step \in Nat /\ i * step < j * step <=> i < j
           /\ i < j => i * step + step <= j * step
<1>1. i * step \in Nat /\ j * step \in Nat /\ step * i = i * step /\ step * j = j * step
  OBVIOUS
<1>2. i < j => i * step + step <= j * step
  <2> SUFFICES ASSUME i < j PROVE i * step + step <= j * step
    OBVIOUS
  <2>1. step * (i + 1) <= step * j
    BY TimesMonotone
  <2>2. step * (i + 1) = i * step + step
    OBVIOUS
  <2> QED  BY <1>1, <2>1, <2>2
<1>3. ~ (i < j) => j * step <= i * step
  BY <1>1, TimesMonotone
<1> QED  BY <1>1, <1>2, <1>3

(* The last start: the K-th multiple is the first that reaches the end.    *)
LEMMA LastStart ==
    ASSUME NEW n \in Nat, NEW size \in Nat \ {0}, NEW step \in 1 .. size, size < n
    PROVE  \E K \in Nat \ {0} :
             /\ K <= n /\ K * step <= n - 1 /\ K * step + size >= n
             /\ \A j \in 0 .. K - 1 : j * step + size < n
<1> DEFINE reach == {j \in Nat : j * step + size >= n}
<1>1. n \in reach
  <2>1. step * n = n * step /\ n * 1 <= n * step /\ n * 1 = n
    BY TimesMonotone
  <2> QED  BY <2>1
<1>2. PICK K \in reach : \A j \in reach : K <= j
  <2>1. reach \in SUBSET Nat /\ reach # {}
    BY <1>1
  <2> HIDE DEF reach
  <2> QED  BY <2>1, MinOfSome
<1>3. K \in Nat /\ K * step + size >= n /\ K <= n /\ K # 0
  <2>1. 0 * step = 0
    OBVIOUS
  <2>2. 0 \notin reach
    BY <2>1
  <2> QED  BY <1>1, <1>2, <2>2
<1>4. \A j \in 0 .. K - 1 : j * step + size < n
  <2> SUFFICES ASSUME NEW j \in 0 .. K - 1, ~ (j * step + size < n) PROVE FALSE
    OBVIOUS
  <2>1. j \in Nat /\ j * step \in Nat /\ j < K
    BY <1>3
  <2>2. j \in reach
    BY <2>1
  <2> HIDE DEF reach
  <2> QED  BY <1>2, <1>3, <2>1, <2>2
<1>5. K * step <= n - 1
  <2>1. K - 1 \in 0 .. K - 1 /\ K * step = (K - 1) * step + step
    BY <1>3
  <2>2. (K - 1) * step + size < n
    BY <1>4, <2>1
  <2>3. (K - 1) * step \in Nat
    BY <1>3
  <2> QED  BY <2>1, <2>2, <2>3
<1> QED  BY <1>3, <1>4, <1>5

LEMMA StartsFound ==
    ASSUME NEW n \in Nat, NEW size \in Nat \ {0}, NEW overlap \in Nat,
           NEW step, step = Greatest(1, size - overlap),
           NEW K \in Nat \ {0}, K <= n, K * step <= n - 1, K * step + size >= n,
           \A j \in 0 .. K - 1 : j * step + size < n
    PROVE  Starts(n, size, overlap) = Multiples(step, K + 1)
<1>1. step \in Nat \ {0}
  BY DEF Greatest
<1> DEFINE range == {k * step : k \in 0 .. n} \intersect 0 .. (n - 1)
<1>2. Starts(n, size, overlap)
        = {s \in range : \A r \in range : r < s => r + size < n}
  BY DEF Starts
<1>3. \A k \in 0 .. K : k * step \in range
  <2> SUFFICES ASSUME NEW k \in 0 .. K PROVE k * step \in range
    OBVIOUS
  <2>1. k \in Nat /\ k \in 0 .. n
    OBVIOUS
  <2>2. k * step \in Nat /\ K * step \in Nat /\ k * step <= K * step
    <3>1. ~ (K < k)
      OBVIOUS
    <3> QED  BY <1>1, <2>1, <3>1, MultiplesOrdered
  <2>3. k * step \in 0 .. n - 1
    BY <2>2
  <2> QED  BY <2>1, <2>3
<1>4. ASSUME NEW k \in 0 .. K, NEW r \in range, r < k * step
      PROVE  r + size < n
  <2>1. PICK j \in 0 .. n : r = j * step
    OBVIOUS
  <2>2. j \in Nat /\ k \in Nat
    OBVIOUS
  <2>3. j < k
    BY <1>1, <1>4, <2>1, <2>2, MultiplesOrdered
  <2>4. j \in 0 .. K - 1
    BY <2>3
  <2> QED  BY <2>1, <2>4
<1>5. ASSUME NEW s \in range, \A r \in range : r < s => r + size < n
      PROVE  \E k \in 0 .. K : s = k * step
  <2>1. PICK k \in 0 .. n : s = k * step
    OBVIOUS
  <2>2. K \in 0 .. K
    OBVIOUS
  <2>3. K * step \in range
    BY <1>3, <2>2
  <2>4. K * step \in Nat /\ ~ (K * step < s)
    BY <1>1, <1>5, <2>3, MultiplesOrdered
  <2>5. ~ (K < k)
    BY <1>1, <2>1, <2>4, MultiplesOrdered
  <2>6. k \in 0 .. K
    BY <2>5
  <2> QED  BY <2>1, <2>6
<1>6. Multiples(step, K + 1) = {k * step : k \in 0 .. K}
  <2>1. (K + 1) - 1 = K
    OBVIOUS
  <2> QED  BY <2>1 DEF Multiples
<1> HIDE DEF range
<1> QED  BY <1>2, <1>3, <1>4, <1>5, <1>6

(* Of its starts, the k-th is the one with k - 1 before it.                *)
LEMMA NthStart ==
    ASSUME NEW step \in Nat \ {0}, NEW m \in Nat, NEW k \in 1 .. m
    PROVE  (CHOOSE s \in Multiples(step, m) :
              Cardinality({r \in Multiples(step, m) : r < s}) = k - 1)
             = (k - 1) * step
<1> DEFINE M == Multiples(step, m)
<1>1. \A j \in 0 .. m - 1 : Cardinality({r \in M : r < j * step}) = j
  <2> SUFFICES ASSUME NEW j \in 0 .. m - 1
               PROVE  Cardinality({r \in M : r < j * step}) = j
    OBVIOUS
  <2>1. j \in Nat
    OBVIOUS
  <2>2. {r \in M : r < j * step} = Multiples(step, j)
    <3>1. \A i \in 0 .. m - 1 : i \in Nat /\ (i * step < j * step <=> i < j)
      BY <2>1, MultiplesOrdered
    <3>2. \A i \in 0 .. m - 1 : i < j <=> i \in 0 .. j - 1
      OBVIOUS
    <3>3. 0 .. j - 1 \subseteq 0 .. m - 1
      OBVIOUS
    <3> QED  BY <3>1, <3>2, <3>3 DEF Multiples
  <2> HIDE DEF M
  <2> QED  BY <2>1, <2>2, MultiplesCounted
<1>2. k - 1 \in 0 .. m - 1 /\ (k - 1) * step \in M
  <2>1. k - 1 \in 0 .. m - 1
    OBVIOUS
  <2> QED  BY <2>1 DEF Multiples
<1>3. Cardinality({r \in M : r < (k - 1) * step}) = k - 1
  BY <1>1, <1>2
<1>4. ASSUME NEW s \in M, Cardinality({r \in M : r < s}) = k - 1
      PROVE  s = (k - 1) * step
  <2>1. PICK j \in 0 .. m - 1 : s = j * step
    BY DEF Multiples
  <2> HIDE DEF M
  <2>2. j = k - 1
    BY <1>1, <1>4, <2>1
  <2> QED  BY <2>1, <2>2
<1> HIDE DEF M
<1>5. (CHOOSE s \in M : Cardinality({r \in M : r < s}) = k - 1) = (k - 1) * step
  BY <1>2, <1>3, <1>4
<1> QED  BY <1>5 DEF M

LongSpans(n, size, step, K) ==
    [k \in 1 .. K + 1 |-> [from |-> (k - 1) * step + 1,
                           to |-> Lesser((k - 1) * step + size, n)]]

LEMMA SpansOfLongText ==
    ASSUME NEW n \in Nat, NEW size \in Nat \ {0}, NEW overlap \in Nat, size < n,
           NEW step, step = Greatest(1, size - overlap),
           NEW K \in Nat \ {0}, K <= n, K * step <= n - 1, K * step + size >= n,
           \A j \in 0 .. K - 1 : j * step + size < n
    PROVE  WindowSpans(n, size, overlap) = LongSpans(n, size, step, K)
<1>1. step \in Nat \ {0}
  BY DEF Greatest
<1>m. PICK m \in Nat : m = K + 1
  OBVIOUS
<1> DEFINE M == Multiples(step, m)
           nth(k) == CHOOSE s \in M : Cardinality({r \in M : r < s}) = k - 1
<1>2. Starts(n, size, overlap) = M
  BY <1>m, StartsFound
<1>3. Cardinality(M) = K + 1
  BY <1>1, <1>m, MultiplesCounted
<1>4. ASSUME NEW k \in 1 .. m PROVE nth(k) = (k - 1) * step
  BY <1>1, NthStart
<1> HIDE DEF M
<1>5. WindowSpans(n, size, overlap)
        = [k \in 1 .. Cardinality(M) |->
             [from |-> nth(k) + 1, to |-> Lesser(nth(k) + size, n)]]
  <2>1. ~ (n <= size)
    OBVIOUS
  <2> QED  BY <1>2, <2>1 DEF WindowSpans
<1> HIDE DEF nth
<1> QED  BY <1>m, <1>3, <1>4, <1>5 DEF LongSpans

(* Every word is in the window of its multiple of step, or in the last.    *)
LEMMA WordsWindowed ==
    ASSUME NEW n \in Nat, NEW size \in Nat \ {0}, NEW step \in 1 .. size,
           NEW K \in Nat \ {0}, K * step + size >= n, NEW w \in 1 .. n
    PROVE  \E k \in 1 .. K + 1 :
             (k - 1) * step + 1 <= w /\ w <= (k - 1) * step + size
<1>1. PICK q \in Nat : step * q <= w - 1 /\ w - 1 < step * q + step
  <2>1. w - 1 \in Nat /\ step \in Nat \ {0}
    OBVIOUS
  <2> QED  BY <2>1, DivBounds
<1>2. CASE q <= K
  <2>1. q + 1 \in 1 .. K + 1 /\ (q + 1) - 1 = q /\ q * step = step * q
    BY <1>2
  <2>2. step * q \in Nat
    OBVIOUS
  <2>3. q * step + 1 <= w /\ w <= q * step + size
    BY <1>1, <2>1, <2>2
  <2> QED  BY <2>1, <2>3
<1>3. CASE ~ (q <= K)
  <2>1. step * K <= step * q
    BY <1>3, TimesMonotone
  <2>2. K * step = step * K /\ step * K \in Nat /\ step * q \in Nat
    OBVIOUS
  <2>3. K + 1 \in 1 .. K + 1 /\ (K + 1) - 1 = K
    OBVIOUS
  <2>4. K * step + 1 <= w /\ w <= K * step + size
    BY <1>1, <2>1, <2>2
  <2> QED  BY <2>3, <2>4
<1> QED  BY <1>2, <1>3

(* WellWindowed, for every length of text, every window and every overlap. *)
THEOREM WindowsAreWell ==
    ASSUME NEW n \in Nat, NEW size \in Nat \ {0}, NEW overlap \in Nat
    PROVE  WellWindowed(n, size, overlap)
<1> DEFINE spans == WindowSpans(n, size, overlap)
<1>1. CASE n = 0
  <2>1. spans = <<>>
    BY <1>1 DEF WindowSpans
  <2>2. DOMAIN spans = {} /\ Len(spans) = 0 /\ 1 .. n = {}
    BY <1>1, <2>1
  <2> HIDE DEF spans
  <2> QED  BY <2>2 DEF WellWindowed, spans
<1>2. CASE n # 0 /\ n <= size
  <2>1. spans = <<[from |-> 1, to |-> n]>>
    BY <1>2 DEF WindowSpans
  <2>2. /\ DOMAIN spans = {1} /\ Len(spans) = 1
        /\ spans[1].from = 1 /\ spans[1].to = n
    BY <2>1
  <2> HIDE DEF spans
  <2>3. UNION {spans[k].from .. spans[k].to : k \in DOMAIN spans} = 1 .. n
    BY <2>2
  <2> QED  BY <1>2, <2>2, <2>3 DEF WellWindowed, spans
<1>3. CASE size < n
  <2>1. PICK step \in 1 .. size : step = Greatest(1, size - overlap)
    BY DEF Greatest
  <2>2. PICK K \in Nat \ {0} :
          /\ K <= n /\ K * step <= n - 1 /\ K * step + size >= n
          /\ \A j \in 0 .. K - 1 : j * step + size < n
    BY <1>3, LastStart
  <2> DEFINE at(k) == (k - 1) * step
  <2>3. spans = LongSpans(n, size, step, K)
    BY <1>3, <2>1, <2>2, SpansOfLongText
  <2>4. /\ DOMAIN spans = 1 .. K + 1 /\ Len(spans) = K + 1
        /\ \A k \in 1 .. K + 1 : /\ spans[k].from = at(k) + 1
                                 /\ spans[k].to = Lesser(at(k) + size, n)
    <3> HIDE DEF spans
    <3> QED  BY <2>3 DEF LongSpans
  <2>5. ASSUME NEW k \in 1 .. K + 1
        PROVE  at(k) \in Nat /\ at(k) <= n - 1
    <3>1. k - 1 \in Nat /\ ~ (K < k - 1) /\ step \in Nat \ {0}
      OBVIOUS
    <3>2. at(k) \in Nat /\ K * step \in Nat /\ ~ (K * step < at(k))
      BY <3>1, MultiplesOrdered
    <3> QED  BY <2>2, <3>2
  <2>6. ASSUME NEW k \in 1 .. K + 1, k # K + 1
        PROVE  at(k) + size < n /\ at(k + 1) = at(k) + step
    <3>1. k - 1 \in 0 .. K - 1 /\ (k + 1) - 1 = (k - 1) + 1
      BY <2>6
    <3> QED  BY <2>2, <3>1
  <2>7. \A w \in 1 .. n : \E k \in 1 .. K + 1 : at(k) + 1 <= w /\ w <= at(k) + size
    BY <2>2, WordsWindowed
  <2> HIDE DEF spans, at
  <2>8. ASSUME NEW k \in 1 .. K + 1
        PROVE  /\ spans[k].from \in 1 .. n /\ spans[k].to \in 1 .. n
               /\ spans[k].to - spans[k].from < size
               /\ \A w \in 1 .. n : at(k) + 1 <= w /\ w <= at(k) + size
                    => w \in spans[k].from .. spans[k].to
    <3>1. PICK a \in Nat : a = at(k) /\ a <= n - 1
      BY <2>5
    <3>2. spans[k].from = a + 1 /\ spans[k].to = Lesser(a + size, n)
      BY <2>4, <3>1
    <3>3. /\ Lesser(a + size, n) \in Nat /\ Lesser(a + size, n) <= n
          /\ Lesser(a + size, n) <= a + size
          /\ Lesser(a + size, n) = a + size \/ Lesser(a + size, n) = n
      BY DEF Lesser
    <3> QED  BY <3>1, <3>2, <3>3
  <2>9. UNION {spans[k].from .. spans[k].to : k \in DOMAIN spans} = 1 .. n
    <3>1. \A k \in 1 .. K + 1 : spans[k].from .. spans[k].to \subseteq 1 .. n
      BY <2>8
    <3>2. \A w \in 1 .. n : \E k \in 1 .. K + 1 :
            w \in spans[k].from .. spans[k].to
      BY <2>7, <2>8
    <3> QED  BY <2>4, <3>1, <3>2
  <2>10. ASSUME NEW k \in 2 .. K + 1
         PROVE  /\ spans[k].to > spans[k - 1].to
                /\ spans[k - 1].to - spans[k].from + 1 = Lesser(overlap, size - 1)
    <3>1. k \in 1 .. K + 1 /\ k - 1 \in 1 .. K + 1 /\ k - 1 # K + 1 /\ (k - 1) + 1 = k
      OBVIOUS
    <3>2. at(k - 1) + size < n /\ at(k) = at(k - 1) + step
      BY <2>6, <3>1
    <3>3. PICK a \in Nat : a = at(k - 1)
      BY <2>5, <3>1
    <3>4. /\ spans[k - 1].to = a + size /\ spans[k].from = a + step + 1
          /\ spans[k].to = Lesser(a + step + size, n)
      BY <2>4, <3>1, <3>2, <3>3 DEF Lesser
    <3>5. size - step = Lesser(overlap, size - 1)
      BY <2>1 DEF Lesser, Greatest
    <3>6. spans[k].to > spans[k - 1].to
      BY <3>2, <3>3, <3>4 DEF Lesser
    <3>7. (a + size) - (a + step + 1) + 1 = size - step
      OBVIOUS
    <3> QED  BY <3>4, <3>5, <3>6, <3>7
  <2> QED  BY <2>4, <2>8, <2>9, <2>10 DEF WellWindowed, spans
<1> QED  BY <1>1, <1>2, <1>3

-----------------------------------------------------------------------------
(* FlattenSeq: the parts joined one after the other.                       *)
JoinsParts(f, parts) ==
    /\ f[0] = <<>>
    /\ \A i \in 1 .. Len(parts) : f[i] = f[i - 1] \o parts[i]

LEMMA PartsJoin ==
    ASSUME NEW S, NEW parts \in Seq(Seq(S))
    PROVE  \E f \in [0 .. Len(parts) -> Seq(S)] : JoinsParts(f, parts)
<1> DEFINE n == Len(parts)
           Texts == Seq(S)
           turn == [p \in Texts \X (1 .. n) |-> p[1] \o parts[p[2]]]
<1>1. n \in Nat /\ \A i \in 1 .. n : parts[i] \in Texts
  <2>1. parts \in Seq(Texts)
    OBVIOUS
  <2> HIDE DEF Texts
  <2> QED  BY <2>1
<1>2. PICK base \in Texts : base = <<>>
  BY EmptySeq
<1>3. turn \in [Texts \X (1 .. n) -> Texts]
  <2>1. \A s \in Texts, i \in 1 .. n : s \o parts[i] \in Texts
    <3> SUFFICES ASSUME NEW s \in Texts, NEW i \in 1 .. n
                 PROVE  s \o parts[i] \in Texts
      OBVIOUS
    <3>1. parts[i] \in Texts
      BY <1>1
    <3> QED  BY <3>1, ConcatProperties
  <2> HIDE DEF Texts, n
  <2> QED  BY <2>1
<1> HIDE DEF Texts, n, turn
<1>4. PICK g \in [SUBSET (1 .. n) -> Texts] : FoldOf(g, n, base, turn)
  BY <1>1, <1>2, <1>3, FoldExists
<1>5. FoldsWithin(g, n, Texts, base, turn)
  BY <1>4 DEF FoldOf, FoldsWithin
<1>6. PICK f \in [0 .. n -> Texts] : TurnByTurn(f, n, base, turn, g[1 .. n])
  BY <1>1, <1>3, <1>5, FoldTurns
<1>7. ASSUME NEW i \in 1 .. n PROVE f[i] = f[i - 1] \o parts[i]
  <2>1. f[i - 1] \in Texts
    BY <1>1, <1>6
  <2> QED  BY <1>6, <2>1 DEF TurnByTurn, turn
<1> QED  BY <1>2, <1>6, <1>7 DEF n, Texts, JoinsParts, TurnByTurn

LEMMA FlattenJoins ==
    ASSUME NEW S, NEW parts \in Seq(Seq(S)),
           NEW f \in [0 .. Len(parts) -> Seq(S)], JoinsParts(f, parts)
    PROVE  FlattenSeq(parts) = f[Len(parts)]
<1> DEFINE n == Len(parts)
           flat == CHOOSE g : g =
                     [i \in 1 .. n |-> IF i = 1 THEN parts[i]
                                       ELSE g[i - 1] \o parts[i]]
<1>1. n \in Nat
  OBVIOUS
<1>2. CASE n = 0
  <2>1. parts = <<>> /\ FlattenSeq(parts) = parts
    BY <1>2 DEF FlattenSeq
  <2> QED  BY <1>2, <2>1 DEF JoinsParts
<1>3. CASE n # 0
  <2>1. FlattenSeq(parts) = flat[n]
    BY <1>3 DEF FlattenSeq
  <2>2. 1 \in 1 .. n /\ n \in 0 .. n
    BY <1>1, <1>3
  <2>3. parts[1] \in Seq(S)
    <3>1. PICK T : T = Seq(S)
      OBVIOUS
    <3>2. parts \in Seq(T)
      BY <3>1
    <3>3. parts[1] \in T
      BY <2>2, <3>2
    <3> QED  BY <3>1, <3>3
  <2>4. f[1] = parts[1]
    <3>1. PICK one \in 1 .. n : one = 1 /\ one - 1 = 0
      BY <2>2
    <3>2. f[one] = f[one - 1] \o parts[one] /\ f[0] = <<>>
      BY DEF JoinsParts
    <3> QED  BY <2>3, <3>1, <3>2, ConcatEmptySeq
  <2> DEFINE h == [i \in 1 .. n |-> f[i]]
  <2>5. h = [i \in 1 .. n |-> IF i = 1 THEN parts[i] ELSE h[i - 1] \o parts[i]]
    <3>1. ASSUME NEW i \in 1 .. n
          PROVE  f[i] = IF i = 1 THEN parts[i] ELSE h[i - 1] \o parts[i]
      <4>1. CASE i = 1
        BY <2>4, <4>1
      <4>2. CASE i # 1
        <5>1. i - 1 \in 1 .. n
          BY <1>1, <4>2
        <5>2. f[i] = f[i - 1] \o parts[i]
          BY DEF JoinsParts
        <5> QED  BY <4>2, <5>1, <5>2
      <4> QED  BY <4>1, <4>2
    <3> QED  BY <3>1
  <2>6. flat = [i \in 1 .. n |-> IF i = 1 THEN parts[i]
                                 ELSE flat[i - 1] \o parts[i]]
    <3> HIDE DEF h
    <3> QED  BY <2>5
  <2> HIDE DEF flat, h
  <2> DEFINE T == {i \in 0 .. n : i = 0 \/ flat[i] = f[i]}
  <2>7. 0 .. n \subseteq T
    <3>1. 0 \in T
      BY <1>1
    <3>2. ASSUME NEW k \in 1 .. n, k - 1 \in T PROVE k \in T
      <4>1. k \in 0 .. n
        BY <1>1
      <4>2. CASE k = 1
        BY <2>2, <2>4, <2>6, <4>1, <4>2
      <4>3. CASE k # 1
        <5>1. flat[k - 1] = f[k - 1]
          BY <1>1, <3>2, <4>3
        <5>2. f[k] = f[k - 1] \o parts[k]
          BY DEF JoinsParts
        <5> QED  BY <2>6, <4>1, <4>3, <5>1, <5>2
      <4> QED  BY <4>2, <4>3
    <3> HIDE DEF T, n
    <3> QED  BY <1>1, <3>1, <3>2, LoopInduction
  <2> QED  BY <1>3, <2>1, <2>2, <2>7
<1> QED  BY <1>2, <1>3

(* So a part appended is joined to what was there.                         *)
LEMMA FlattenAppend ==
    ASSUME NEW S, NEW parts \in Seq(Seq(S)), NEW part \in Seq(S)
    PROVE  /\ FlattenSeq(parts) \in Seq(S)
           /\ FlattenSeq(Append(parts, part)) = FlattenSeq(parts) \o part
<1> DEFINE Texts == Seq(S)
           n == Len(parts)
           more == Append(parts, part)
<1>1. /\ n \in Nat /\ more \in Seq(Texts) /\ Len(more) = n + 1
      /\ more[n + 1] = part /\ \A i \in 1 .. n : more[i] = parts[i]
  <2>1. parts \in Seq(Texts) /\ part \in Texts
    OBVIOUS
  <2> HIDE DEF Texts
  <2> QED  BY <2>1, AppendFacts
<1>2. PICK f \in [0 .. n -> Seq(S)] : JoinsParts(f, parts)
  BY PartsJoin
<1>3. FlattenSeq(parts) = f[n] /\ f[n] \in Seq(S)
  <2>1. n \in 0 .. n
    BY <1>1
  <2>2. f[n] \in Seq(S)
    BY <1>2, <2>1
  <2>3. FlattenSeq(parts) = f[Len(parts)]
    <3> HIDE DEF Texts
    <3> QED  BY <1>2, FlattenJoins
  <2> QED  BY <2>2, <2>3
<1> HIDE DEF more, n
<1> DEFINE g == [i \in 0 .. n + 1 |-> IF i = n + 1 THEN f[n] \o part ELSE f[i]]
<1>4. g \in [0 .. Len(more) -> Seq(S)]
  <2>1. f[n] \o part \in Seq(S)
    BY <1>3, ConcatProperties
  <2>2. \A i \in 0 .. n + 1 : i = n + 1 \/ i \in 0 .. n
    BY <1>1
  <2>3. \A i \in 0 .. n : f[i] \in Seq(S)
    BY <1>2
  <2> QED  BY <1>1, <2>1, <2>2, <2>3
<1>5. JoinsParts(g, more)
  <2>1. g[0] = <<>>
    BY <1>1, <1>2 DEF JoinsParts
  <2>2. ASSUME NEW i \in 1 .. n + 1 PROVE g[i] = g[i - 1] \o more[i]
    <3>1. CASE i = n + 1
      <4>1. g[i] = f[n] \o part /\ g[i - 1] = f[n] /\ more[i] = part
        BY <1>1, <3>1
      <4> QED  BY <4>1
    <3>2. CASE i # n + 1
      <4>1. i \in 1 .. n
        BY <1>1, <3>2
      <4>2. g[i] = f[i] /\ g[i - 1] = f[i - 1] /\ more[i] = parts[i]
        BY <1>1, <4>1
      <4>3. f[i] = f[i - 1] \o parts[i]
        BY <1>2, <4>1 DEF JoinsParts, n
      <4> QED  BY <4>2, <4>3
    <3> QED  BY <3>1, <3>2
  <2> HIDE DEF g
  <2> QED  BY <1>1, <2>1, <2>2 DEF JoinsParts
<1>6. g[Len(more)] = f[n] \o part
  BY <1>1
<1> HIDE DEF g
<1>7. FlattenSeq(more) = g[Len(more)]
  BY <1>1, <1>4, <1>5, FlattenJoins
<1> QED  BY <1>3, <1>6, <1>7 DEF more

LEMMA AppendJoins ==
    ASSUME NEW S, NEW s \in Seq(S), NEW t \in Seq(S), NEW x \in S
    PROVE  s \o Append(t, x) = Append(s \o t, x)
<1>1. /\ Append(t, x) \in Seq(S) /\ Len(Append(t, x)) = Len(t) + 1
      /\ Len(t) \in Nat /\ Len(s) \in Nat
      /\ \A i \in 1 .. Len(t) : Append(t, x)[i] = t[i]
      /\ Append(t, x)[Len(t) + 1] = x
  BY AppendFacts
<1>2. /\ s \o t \in Seq(S) /\ Len(s \o t) = Len(s) + Len(t)
      /\ \A i \in 1 .. Len(s) + Len(t) :
           (s \o t)[i] = IF i <= Len(s) THEN s[i] ELSE t[i - Len(s)]
  BY ConcatProperties
<1> DEFINE u == s \o t
           v == Append(t, x)
           left == s \o v
           right == Append(u, x)
<1> HIDE DEF u, v
<1>3. /\ right \in Seq(S) /\ Len(right) = Len(u) + 1
      /\ \A i \in 1 .. Len(u) : right[i] = u[i]
      /\ right[Len(u) + 1] = x
  BY <1>2, AppendFacts DEF u
<1>4. /\ left \in Seq(S) /\ Len(left) = Len(s) + Len(v)
      /\ \A i \in 1 .. Len(s) + Len(v) :
           left[i] = IF i <= Len(s) THEN s[i] ELSE v[i - Len(s)]
  BY <1>1, ConcatProperties DEF v
<1> HIDE DEF left, right
<1>5. Len(u) = Len(s) + Len(t) /\ Len(v) = Len(t) + 1
  BY <1>1, <1>2 DEF u, v
<1>6. Len(left) = Len(right)
  BY <1>1, <1>3, <1>4, <1>5
<1>7. ASSUME NEW i \in 1 .. Len(left) PROVE left[i] = right[i]
  <2>1. CASE i <= Len(s) + Len(t)
    <3>1. i \in 1 .. Len(s) + Len(t) /\ i \in 1 .. Len(u) /\ i \in 1 .. Len(s) + Len(v)
      BY <1>1, <1>4, <1>5, <2>1
    <3>2. left[i] = IF i <= Len(s) THEN s[i] ELSE v[i - Len(s)]
      BY <1>4, <3>1
    <3>3. right[i] = IF i <= Len(s) THEN s[i] ELSE t[i - Len(s)]
      BY <1>2, <1>3, <3>1 DEF u
    <3>4. ~ (i <= Len(s)) => i - Len(s) \in 1 .. Len(t)
      BY <1>1, <2>1, <3>1
    <3>5. ~ (i <= Len(s)) => v[i - Len(s)] = t[i - Len(s)]
      BY <1>1, <3>4 DEF v
    <3> QED  BY <3>2, <3>3, <3>5
  <2>2. CASE ~ (i <= Len(s) + Len(t))
    <3>1. i = Len(u) + 1 /\ i - Len(s) = Len(t) + 1 /\ ~ (i <= Len(s))
      <4>1. Len(left) = Len(s) + Len(t) + 1
        BY <1>1, <1>4, <1>5
      <4>2. PICK a \in Nat, b \in Nat : a = Len(s) /\ b = Len(t)
        BY <1>1
      <4> QED  BY <1>5, <2>2, <4>1, <4>2
    <3>2. left[i] = v[i - Len(s)]
      BY <1>1, <1>4, <1>5, <3>1
    <3> QED  BY <1>1, <1>3, <3>1, <3>2 DEF v
  <2> QED  BY <2>1, <2>2
<1>8. left = right
  BY <1>3, <1>4, <1>6, <1>7, SeqEqual
<1> QED  BY <1>8 DEF left, right, u, v

LEMMA PrefixGrows ==
    ASSUME NEW S, NEW s \in Seq(S), NEW m \in 0 .. Len(s) - 1
    PROVE  SubSeq(s, 1, m + 1) = Append(SubSeq(s, 1, m), s[m + 1])
OBVIOUS

-----------------------------------------------------------------------------
(* chunk_cues: one turn of its loop, at cue c.                             *)
PassagesOf(C) == [cues : Seq(C), start : Int, end : Int]
CueState(C) == [chunks : Seq(PassagesOf(C)), open : PassagesOf(C)]

Extended(open, c) == [cues  |-> Append(open.cues, c),
                    start |-> IF open = NoPassage THEN c.start ELSE open.start,
                    end   |-> c.end]

CueTurn(acc, c, span) ==
    IF LongEnough(Extended(acc.open, c), span)
      THEN [chunks |-> Append(acc.chunks, Extended(acc.open, c)),
            open |-> NoPassage]
      ELSE [acc EXCEPT !.open = Extended(acc.open, c)]

NoCues == [chunks |-> <<>>, open |-> NoPassage]

LEMMA ExtendedTyped ==
    ASSUME NEW C, \A c \in C : c.start \in Int /\ c.end \in Int,
           NEW open \in PassagesOf(C), NEW c \in C
    PROVE  Extended(open, c) \in PassagesOf(C)
<1>1. open.cues \in Seq(C) /\ open.start \in Int
  BY DEF PassagesOf
<1>2. Append(open.cues, c) \in Seq(C)
  BY <1>1, AppendFacts
<1> QED  BY <1>1, <1>2 DEF Extended, PassagesOf

LEMMA CueTurnTyped ==
    ASSUME NEW C, \A c \in C : c.start \in Int /\ c.end \in Int,
           NEW acc \in CueState(C), NEW c \in C, NEW span
    PROVE  CueTurn(acc, c, span) \in CueState(C)
<1> DEFINE P == PassagesOf(C)
           o == Extended(acc.open, c)
<1>1. acc.chunks \in Seq(P) /\ acc.open \in P
  BY DEF CueState
<1>2. o \in P
  BY <1>1, ExtendedTyped
<1>3. NoPassage \in P
  BY EmptySeq DEF NoPassage, PassagesOf
<1> HIDE DEF P, o
<1>4. Append(acc.chunks, o) \in Seq(P)
  BY <1>1, <1>2, AppendFacts
<1> QED  BY <1>2, <1>3, <1>4 DEF CueTurn, CueState, P, o

CuesRun(h, cues, span) ==
    /\ h[0] = NoCues
    /\ \A k \in 1 .. Len(cues) : h[k] = CueTurn(h[k - 1], cues[k], span)
    /\ ChunkCues(cues, span)
         = IF h[Len(cues)].open = NoPassage THEN h[Len(cues)].chunks
           ELSE Append(h[Len(cues)].chunks, h[Len(cues)].open)

LEMMA CueTurns ==
    ASSUME NEW C, \A c \in C : c.start \in Int /\ c.end \in Int,
           NEW cues \in Seq(C), NEW span
    PROVE  \E h \in [0 .. Len(cues) -> CueState(C)] : CuesRun(h, cues, span)
<1> DEFINE n == Len(cues)
           S == CueState(C)
           turn == [p \in S \X (1 .. n) |-> CueTurn(p[1], cues[p[2]], span)]
           iter == CHOOSE g : g = [s \in SUBSET (DOMAIN cues) |->
                     IF s = {} THEN [chunks |-> <<>>, open |-> NoPassage]
                     ELSE CueTurn(g[s \ {Max(s)}], cues[Max(s)], span)]
           all == iter[DOMAIN cues]
<1>n. n \in Nat
  OBVIOUS
<1>d. DOMAIN cues = 1 .. n
  OBVIOUS
<1>1. ChunkCues(cues, span)
        = IF all.open = NoPassage THEN all.chunks
          ELSE Append(all.chunks, all.open)
  BY DEF ChunkCues, FoldLeft, MapThenFoldSet, CueTurn, Extended
<1>2. NoCues \in S
  <2> DEFINE P == PassagesOf(C)
  <2>1. NoPassage \in P
    BY EmptySeq DEF NoPassage, PassagesOf
  <2> HIDE DEF P
  <2>2. <<>> \in Seq(P)
    BY EmptySeq
  <2> QED  BY <2>1, <2>2 DEF NoCues, CueState, P
<1>3. turn \in [S \X (1 .. n) -> S]
  <2>1. \A acc \in S, k \in 1 .. n : CueTurn(acc, cues[k], span) \in S
    BY CueTurnTyped
  <2> HIDE DEF n, S
  <2> QED  BY <2>1
<1> HIDE DEF turn, n, S
<1>4. PICK g \in [SUBSET (1 .. n) -> S] : FoldOf(g, n, NoCues, turn)
  BY <1>n, <1>2, <1>3, FoldExists
<1>5. ASSUME NEW s \in SUBSET (1 .. n), s # {}, NEW acc \in S
      PROVE  turn[<<acc, Max(s)>>] = CueTurn(acc, cues[Max(s)], span)
  <2>1. Max(s) \in 1 .. n
    BY <1>n, <1>5, MaxOfSome
  <2> QED  BY <2>1 DEF turn
<1>6. g = [s \in SUBSET (DOMAIN cues) |->
             IF s = {} THEN [chunks |-> <<>>, open |-> NoPassage]
             ELSE CueTurn(g[s \ {Max(s)}], cues[Max(s)], span)]
  <2>1. \A s \in SUBSET (1 .. n) :
          s # {} => /\ g[s \ {Max(s)}] \in S
                    /\ g[s] = CueTurn(g[s \ {Max(s)}], cues[Max(s)], span)
    BY <1>4, <1>5 DEF FoldOf
  <2> QED  BY <1>d, <1>4, <2>1 DEF FoldOf, NoCues
<1>7. iter = [s \in SUBSET (DOMAIN cues) |->
                IF s = {} THEN [chunks |-> <<>>, open |-> NoPassage]
                ELSE CueTurn(iter[s \ {Max(s)}], cues[Max(s)], span)]
  BY <1>6
<1> HIDE DEF iter
<1>8. FoldsWithin(iter, n, S, NoCues, turn)
  <2>1. iter[{}] = NoCues
    BY <1>7 DEF NoCues
  <2>2. \A s \in SUBSET (1 .. n) :
          s # {} /\ iter[s \ {Max(s)}] \in S
            => iter[s] = turn[<<iter[s \ {Max(s)}], Max(s)>>]
    BY <1>d, <1>5, <1>7
  <2> QED  BY <2>1, <2>2 DEF FoldsWithin
<1>9. PICK h \in [0 .. n -> S] : TurnByTurn(h, n, NoCues, turn, iter[1 .. n])
  BY <1>n, <1>2, <1>3, <1>8, FoldTurns
<1>10. ASSUME NEW k \in 1 .. n PROVE h[k] = CueTurn(h[k - 1], cues[k], span)
  <2>1. h[k - 1] \in S
    BY <1>n, <1>9
  <2> QED  BY <1>9, <2>1 DEF TurnByTurn, turn
<1>11. all = h[n]
  BY <1>d, <1>9 DEF TurnByTurn
<1> HIDE DEF all
<1> QED  BY <1>1, <1>9, <1>10, <1>11 DEF n, S, TurnByTurn, CuesRun

(* A passage is what its cues make of it, and just long enough; the one    *)
(* that is open is not long enough yet.                                    *)
Passage(p, span) ==
    /\ Len(p.cues) >= 1 /\ p.start = p.cues[1].start
    /\ p.end = p.cues[Len(p.cues)].end
    /\ \A k \in 1 .. Len(p.cues) - 1 : p.cues[k].end - p.cues[1].start < span

StillOpen(p, span) ==
    p = NoPassage \/ (Passage(p, span) /\ p.end - p.start < span)

CuesOf(chunks) == [i \in DOMAIN chunks |-> chunks[i].cues]

Taken(acc, m, cues, span) ==
    /\ FlattenSeq(CuesOf(acc.chunks)) \o acc.open.cues = SubSeq(cues, 1, m)
    /\ \A i \in 1 .. Len(acc.chunks) :
         /\ Passage(acc.chunks[i], span)
         /\ acc.chunks[i].end - acc.chunks[i].start >= span
    /\ StillOpen(acc.open, span)

LEMMA PassageExtended ==
    ASSUME NEW C, \A c \in C : c.start \in Int /\ c.end \in Int,
           NEW open \in PassagesOf(C), NEW c \in C, NEW span \in Int,
           StillOpen(open, span)
    PROVE  Passage(Extended(open, c), span)
<1> DEFINE more == Append(open.cues, c)
           n == Len(open.cues)
           p == Extended(open, c)
<1>1. open.cues \in Seq(C) /\ open.start \in Int /\ open.end \in Int
  BY DEF PassagesOf
<1>2. /\ Len(more) = n + 1 /\ n \in Nat /\ more[n + 1] = c
      /\ \A i \in 1 .. n : more[i] = open.cues[i]
      /\ \A i \in 1 .. n : open.cues[i] \in C
  BY <1>1, AppendFacts
<1>3. /\ p.cues = more /\ p.end = c.end
      /\ open = NoPassage => p.start = c.start
      /\ open # NoPassage => p.start = open.start
  BY DEF Extended
<1> HIDE DEF more, p
<1>4. CASE open = NoPassage
  <2>1. n = 0
    BY <1>4, EmptySeq DEF NoPassage
  <2>2. /\ Len(p.cues) = 1 /\ p.cues[1] = c /\ p.start = c.start
        /\ p.end = c.end
    BY <1>2, <1>3, <1>4, <2>1
  <2> QED  BY <2>2 DEF Passage, p
<1>5. CASE open # NoPassage /\ Passage(open, span) /\ open.end - open.start < span
  <2>1. /\ n >= 1 /\ open.start = open.cues[1].start
        /\ open.end = open.cues[n].end
        /\ \A k \in 1 .. n - 1 : open.cues[k].end - open.cues[1].start < span
    BY <1>5 DEF Passage
  <2> HIDE DEF n
  <2>2. more[1] = open.cues[1] /\ p.start = more[1].start
    BY <1>2, <1>3, <1>5, <2>1
  <2>3. ASSUME NEW k \in 1 .. n PROVE more[k].end - more[1].start < span
    <3>1. more[k] = open.cues[k]
      BY <1>2
    <3>2. CASE k \in 1 .. n - 1
      BY <2>1, <2>2, <3>1, <3>2
    <3>3. CASE k = n
      BY <1>5, <2>1, <2>2, <3>1, <3>3
    <3> QED  BY <1>2, <3>2, <3>3
  <2>4. (n + 1) - 1 = n /\ n + 1 >= 1
    BY <1>2
  <2> QED  BY <1>2, <1>3, <2>2, <2>3, <2>4 DEF Passage, p
<1> QED  BY <1>4, <1>5 DEF StillOpen

LEMMA CuesOfAppended ==
    ASSUME NEW C, NEW chunks \in Seq(PassagesOf(C)), NEW p \in PassagesOf(C)
    PROVE  /\ CuesOf(chunks) \in Seq(Seq(C)) /\ p.cues \in Seq(C)
           /\ CuesOf(Append(chunks, p)) = Append(CuesOf(chunks), p.cues)
<1> DEFINE P == PassagesOf(C)
           Texts == Seq(C)
           n == Len(chunks)
           more == Append(chunks, p)
           left == CuesOf(more)
           right == Append(CuesOf(chunks), p.cues)
<1>1. \A q \in P : q.cues \in Texts
  BY DEF PassagesOf
<1>2. chunks \in Seq(P) /\ p \in P
  OBVIOUS
<1> HIDE DEF P, Texts
<1>3. /\ n \in Nat /\ DOMAIN chunks = 1 .. n /\ \A i \in 1 .. n : chunks[i] \in P
      /\ more \in Seq(P) /\ Len(more) = n + 1 /\ DOMAIN more = 1 .. n + 1
      /\ \A i \in 1 .. n : more[i] = chunks[i]
      /\ more[n + 1] = p
  BY <1>2, AppendFacts
<1> HIDE DEF more, n
<1>4. /\ CuesOf(chunks) \in Seq(Texts) /\ Len(CuesOf(chunks)) = n
      /\ \A i \in 1 .. n : CuesOf(chunks)[i] = chunks[i].cues
  BY <1>1, <1>3 DEF CuesOf
<1>5. p.cues \in Texts
  BY <1>1, <1>2
<1>6. /\ right \in Seq(Texts) /\ Len(right) = n + 1
      /\ \A i \in 1 .. n : right[i] = CuesOf(chunks)[i]
      /\ right[n + 1] = p.cues
  BY <1>4, <1>5, AppendFacts
<1>7. /\ left \in Seq(Texts) /\ Len(left) = n + 1
      /\ \A i \in 1 .. n + 1 : left[i] = more[i].cues
  <2>1. \A i \in 1 .. n + 1 : more[i].cues \in Texts
    BY <1>1, <1>3
  <2> QED  BY <1>3, <2>1 DEF CuesOf
<1> HIDE DEF left, right
<1>8. \A i \in 1 .. n + 1 : left[i] = right[i]
  <2>1. \A i \in 1 .. n + 1 : i \in 1 .. n \/ i = n + 1
    BY <1>3
  <2> QED  BY <1>3, <1>4, <1>6, <1>7, <2>1
<1>9. left = right
  BY <1>6, <1>7, <1>8, SeqEqual
<1> QED  BY <1>4, <1>5, <1>9 DEF left, right, more, Texts

LEMMA TakenTurn ==
    ASSUME NEW C, \A c \in C : c.start \in Int /\ c.end \in Int,
           NEW cues \in Seq(C), NEW span \in Int,
           NEW acc \in CueState(C), NEW m \in 0 .. Len(cues) - 1,
           Taken(acc, m, cues, span)
    PROVE  Taken(CueTurn(acc, cues[m + 1], span), m + 1, cues, span)
<1> DEFINE P == PassagesOf(C)
           Texts == Seq(C)
           c == cues[m + 1]
           p == Extended(acc.open, c)
           before == FlattenSeq(CuesOf(acc.chunks))
<1>1. c \in C
  OBVIOUS
<1> HIDE DEF c
<1>2. acc.chunks \in Seq(P) /\ acc.open \in P
  BY DEF CueState
<1>3. p \in P /\ p.cues = Append(acc.open.cues, c) /\ acc.open.cues \in Texts
  <2>1. p \in P
    BY <1>1, <1>2, ExtendedTyped
  <2> QED  BY <1>2, <2>1 DEF Extended, PassagesOf
<1>4. Passage(p, span)
  BY <1>1, <1>2, PassageExtended DEF Taken
<1>5. /\ CuesOf(acc.chunks) \in Seq(Texts) /\ before \in Texts
      /\ p.cues \in Texts
      /\ CuesOf(Append(acc.chunks, p)) = Append(CuesOf(acc.chunks), p.cues)
  <2>1. /\ CuesOf(acc.chunks) \in Seq(Texts) /\ p.cues \in Texts
        /\ CuesOf(Append(acc.chunks, p)) = Append(CuesOf(acc.chunks), p.cues)
    BY <1>2, <1>3, CuesOfAppended
  <2> QED  BY <2>1, FlattenAppend
<1>6. before \o p.cues = SubSeq(cues, 1, m + 1)
  <2>1. before \o p.cues = Append(before \o acc.open.cues, c)
    <3>1. PICK s \in Seq(C), t \in Seq(C) : s = before /\ t = acc.open.cues
      BY <1>3, <1>5
    <3>2. s \o Append(t, c) = Append(s \o t, c)
      BY <1>1, AppendJoins
    <3> HIDE DEF p, before
    <3> QED  BY <1>3, <3>1, <3>2
  <2>2. before \o acc.open.cues = SubSeq(cues, 1, m)
    BY DEF Taken
  <2>3. SubSeq(cues, 1, m + 1) = Append(SubSeq(cues, 1, m), c)
    BY PrefixGrows DEF c
  <2> QED  BY <2>1, <2>2, <2>3
<1>7. p.start \in Int /\ p.end \in Int
  BY <1>3 DEF PassagesOf
<1>8. \A i \in 1 .. Len(acc.chunks) :
        /\ Passage(acc.chunks[i], span)
        /\ acc.chunks[i].end - acc.chunks[i].start >= span
  BY DEF Taken
<1>9. CASE LongEnough(p, span)
  <2> DEFINE more == Append(acc.chunks, p)
  <2>1. CueTurn(acc, c, span) = [chunks |-> more, open |-> NoPassage]
    BY <1>9 DEF CueTurn
  <2>2. FlattenSeq(CuesOf(more)) = before \o p.cues
    BY <1>5, FlattenAppend
  <2>3. /\ before \o p.cues \in Texts
        /\ (before \o p.cues) \o <<>> = before \o p.cues
    <3>1. before \o p.cues \in Texts
      BY <1>5, ConcatProperties
    <3> QED  BY <3>1, ConcatEmptySeq
  <2>4. /\ Len(more) = Len(acc.chunks) + 1 /\ Len(acc.chunks) \in Nat
        /\ \A i \in 1 .. Len(acc.chunks) : more[i] = acc.chunks[i]
        /\ more[Len(acc.chunks) + 1] = p
    <3> HIDE DEF P, p
    <3> QED  BY <1>2, <1>3, AppendFacts
  <2>5. p.end - p.start >= span
    BY <1>9 DEF LongEnough
  <2>6. \A i \in 1 .. Len(acc.chunks) + 1 :
          i \in 1 .. Len(acc.chunks) \/ i = Len(acc.chunks) + 1
    BY <2>4
  <2> HIDE DEF more, p, before
  <2>7. \A i \in 1 .. Len(more) :
          Passage(more[i], span) /\ more[i].end - more[i].start >= span
    BY <1>4, <1>8, <2>4, <2>5, <2>6
  <2>8. FlattenSeq(CuesOf(more)) \o NoPassage.cues = SubSeq(cues, 1, m + 1)
    BY <1>6, <2>2, <2>3 DEF NoPassage
  <2> DEFINE next == [chunks |-> more, open |-> NoPassage]
  <2>9. next.chunks = more /\ next.open = NoPassage
    OBVIOUS
  <2> HIDE DEF next
  <2>10. Taken(next, m + 1, cues, span)
    BY <2>7, <2>8, <2>9 DEF Taken, StillOpen
  <2> QED  BY <2>1, <2>10 DEF next, c, p
<1>10. CASE ~ LongEnough(p, span)
  <2>1. PICK next : next = CueTurn(acc, c, span)
    OBVIOUS
  <2>2. next.chunks = acc.chunks /\ next.open = p
    <3>1. next = [acc EXCEPT !.open = p]
      BY <1>10, <2>1 DEF CueTurn
    <3>2. acc \in [chunks : Seq(P), open : P]
      BY DEF CueState
    <3> HIDE DEF P, p
    <3> QED  BY <3>1, <3>2
  <2>3. StillOpen(p, span)
    <3> HIDE DEF p
    <3> QED  BY <1>4, <1>7, <1>10 DEF StillOpen, LongEnough
  <2> HIDE DEF p
  <2>4. Taken(next, m + 1, cues, span)
    BY <1>6, <1>8, <2>2, <2>3 DEF Taken
  <2> QED  BY <2>1, <2>4 DEF c
<1> QED  BY <1>9, <1>10

(* CuesPartitioned, for every captions and every span.                     *)
THEOREM CuesArePartitioned ==
    ASSUME NEW C, \A c \in C : c.start \in Int /\ c.end \in Int,
           NEW cues \in Seq(C), NEW span \in Int
    PROVE  CuesPartitioned(cues, span)
<1> DEFINE N == Len(cues)
           P == PassagesOf(C)
           Texts == Seq(C)
<1>1. N \in Nat
  OBVIOUS
<1>2. PICK h \in [0 .. N -> CueState(C)] : CuesRun(h, cues, span)
  BY CueTurns
<1> DEFINE T == {m \in 0 .. N : Taken(h[m], m, cues, span)}
<1>3. 0 \in T
  <2>1. h[0] = [chunks |-> <<>>, open |-> NoPassage]
    BY <1>2 DEF CuesRun, NoCues
  <2>2. h[0].chunks = <<>> /\ h[0].open = NoPassage /\ NoPassage.cues = <<>>
    BY <2>1 DEF NoPassage
  <2>3. CuesOf(<<>>) = <<>>
    BY DEF CuesOf
  <2>4. FlattenSeq(<<>>) = <<>>
    BY DEF FlattenSeq
  <2>5. <<>> \o <<>> = <<>> /\ SubSeq(cues, 1, 0) = <<>>
    OBVIOUS
  <2>6. Len(<<>>) = 0
    OBVIOUS
  <2>7. FlattenSeq(CuesOf(h[0].chunks)) \o h[0].open.cues = SubSeq(cues, 1, 0)
    BY <2>2, <2>3, <2>4, <2>5
  <2>8. Taken(h[0], 0, cues, span)
    BY <2>2, <2>6, <2>7 DEF Taken, StillOpen
  <2> QED  BY <1>1, <2>8
<1>4. ASSUME NEW k \in 1 .. N, k - 1 \in T PROVE k \in T
  <2>1. /\ k - 1 \in 0 .. N - 1 /\ (k - 1) + 1 = k /\ k - 1 \in 0 .. N
        /\ k \in 0 .. N
    BY <1>1
  <2>2. h[k - 1] \in CueState(C) /\ Taken(h[k - 1], k - 1, cues, span)
    BY <1>2, <1>4, <2>1
  <2>3. Taken(CueTurn(h[k - 1], cues[(k - 1) + 1], span), (k - 1) + 1, cues, span)
    <3> HIDE DEF T
    <3> QED  BY <2>1, <2>2, TakenTurn
  <2>4. h[k] = CueTurn(h[k - 1], cues[k], span)
    BY <1>2 DEF CuesRun
  <2> QED  BY <2>1, <2>3, <2>4
<1>5. PICK all \in CueState(C) : all = h[N] /\ Taken(all, N, cues, span)
  <2>1. 0 .. N \subseteq T
    <3> HIDE DEF T, N
    <3> QED  BY <1>1, <1>3, <1>4, LoopInduction
  <2> QED  BY <1>1, <1>2, <2>1
<1>6. PICK chunks \in Seq(P) : chunks = all.chunks
  BY DEF CueState
<1>7. PICK open \in P : open = all.open
  BY DEF CueState
<1>8. ChunkCues(cues, span) = IF open = NoPassage THEN chunks ELSE Append(chunks, open)
  BY <1>2, <1>5, <1>6, <1>7 DEF CuesRun
<1>9. /\ FlattenSeq(CuesOf(chunks)) \o open.cues = cues
      /\ \A i \in 1 .. Len(chunks) :
           /\ Passage(chunks[i], span)
           /\ chunks[i].end - chunks[i].start >= span
      /\ StillOpen(open, span)
  <2>1. SubSeq(cues, 1, N) = cues
    BY SubSeqFull
  <2> QED  BY <1>5, <1>6, <1>7, <2>1 DEF Taken
<1>10. /\ CuesOf(chunks) \in Seq(Texts) /\ open.cues \in Texts
       /\ FlattenSeq(CuesOf(chunks)) \in Texts
       /\ CuesOf(Append(chunks, open)) = Append(CuesOf(chunks), open.cues)
       /\ FlattenSeq(Append(CuesOf(chunks), open.cues))
            = FlattenSeq(CuesOf(chunks)) \o open.cues
  <2>1. /\ CuesOf(chunks) \in Seq(Texts) /\ open.cues \in Texts
        /\ CuesOf(Append(chunks, open)) = Append(CuesOf(chunks), open.cues)
    BY CuesOfAppended
  <2> QED  BY <2>1, FlattenAppend
<1>11. PICK passages \in Seq(P) : passages = ChunkCues(cues, span)
  <2> HIDE DEF P
  <2>1. Append(chunks, open) \in Seq(P)
    BY AppendFacts
  <2> QED  BY <1>8, <2>1
<1>12. FlattenSeq(CuesOf(passages)) = cues
  <2>1. CASE open = NoPassage
    <3>1. FlattenSeq(CuesOf(chunks)) \o <<>> = FlattenSeq(CuesOf(chunks))
      BY <1>10, ConcatEmptySeq
    <3> QED  BY <1>8, <1>9, <1>11, <2>1, <3>1 DEF NoPassage
  <2>2. CASE open # NoPassage
    BY <1>8, <1>9, <1>10, <1>11, <2>2
  <2> QED  BY <2>1, <2>2
<1>13. /\ Len(passages) \in Nat /\ DOMAIN passages = 1 .. Len(passages)
       /\ \A i \in 1 .. Len(passages) : passages[i] \in P
  <2> HIDE DEF P
  <2> QED  OBVIOUS
<1>14. ASSUME NEW i \in 1 .. Len(passages)
       PROVE  /\ Passage(passages[i], span)
              /\ i < Len(passages) => passages[i].end - passages[i].start >= span
  <2>1. CASE open = NoPassage
    BY <1>8, <1>9, <1>11, <2>1
  <2>2. CASE open # NoPassage
    <3>1. /\ Len(passages) = Len(chunks) + 1 /\ Len(chunks) \in Nat
          /\ \A j \in 1 .. Len(chunks) : passages[j] = chunks[j]
          /\ passages[Len(chunks) + 1] = open
      <4> HIDE DEF P
      <4> QED  BY <1>8, <1>11, <2>2, AppendFacts
    <3>2. Passage(open, span)
      BY <1>9, <2>2 DEF StillOpen
    <3>3. CASE i \in 1 .. Len(chunks)
      BY <1>9, <3>1, <3>3
    <3>4. CASE i = Len(chunks) + 1
      BY <3>1, <3>2, <3>4
    <3> QED  BY <3>1, <3>3, <3>4
  <2> QED  BY <2>1, <2>2
<1>15. ASSUME NEW i \in DOMAIN passages
       PROVE  LET p == passages[i]  n == Len(p.cues)
                  lasts(k) == p.cues[k].end - p.cues[1].start
              IN /\ p.start = p.cues[1].start /\ p.end = p.cues[n].end
                 /\ i < Len(passages) => lasts(n) >= span
                 /\ \A k \in 1 .. (n - 1) : lasts(k) < span
  BY <1>13, <1>14 DEF Passage
<1> HIDE DEF N, P, Texts
<1> QED  BY <1>11, <1>12, <1>15 DEF CuesPartitioned, CuesOf

-----------------------------------------------------------------------------
(* chunk_deck: what is in the windows of each slide.                       *)
LEMMA SpansInside ==
    ASSUME NEW n \in Nat, NEW size \in Nat \ {0}, NEW overlap \in Nat
    PROVE  /\ Len(WindowSpans(n, size, overlap)) \in Nat
           /\ DOMAIN WindowSpans(n, size, overlap)
                = 1 .. Len(WindowSpans(n, size, overlap))
           /\ \A k \in DOMAIN WindowSpans(n, size, overlap) :
                /\ WindowSpans(n, size, overlap)[k].from \in 1 .. n
                /\ WindowSpans(n, size, overlap)[k].to \in 1 .. n
<1> DEFINE spans == WindowSpans(n, size, overlap)
<1>1. CASE n = 0
  <2>1. spans = <<>>
    BY <1>1 DEF WindowSpans
  <2> HIDE DEF spans
  <2>2. Len(spans) = 0 /\ DOMAIN spans = {} /\ 1 .. 0 = {}
    BY <2>1
  <2>3. Len(spans) \in Nat /\ DOMAIN spans = 1 .. Len(spans)
    BY <2>2
  <2> QED  BY <2>2, <2>3 DEF spans
<1>2. CASE n # 0 /\ n <= size
  <2>1. spans = <<[from |-> 1, to |-> n]>>
    BY <1>2 DEF WindowSpans
  <2>2. /\ Len(spans) = 1 /\ DOMAIN spans = 1 .. 1
        /\ spans[1].from = 1 /\ spans[1].to = n
    BY <2>1
  <2> HIDE DEF spans
  <2>3. \A k \in DOMAIN spans : spans[k].from \in 1 .. n /\ spans[k].to \in 1 .. n
    BY <1>2, <2>2
  <2> QED  BY <2>2, <2>3 DEF spans
<1>3. CASE size < n
  <2>1. PICK step \in 1 .. size : step = Greatest(1, size - overlap)
    BY DEF Greatest
  <2>2. PICK K \in Nat \ {0} :
          /\ K <= n /\ K * step <= n - 1 /\ K * step + size >= n
          /\ \A j \in 0 .. K - 1 : j * step + size < n
    BY <1>3, LastStart
  <2>3. spans = LongSpans(n, size, step, K)
    BY <1>3, <2>1, <2>2, SpansOfLongText
  <2> HIDE DEF spans
  <2>4. /\ DOMAIN spans = 1 .. K + 1 /\ Len(spans) = K + 1
        /\ \A k \in 1 .. K + 1 :
             /\ spans[k].from = (k - 1) * step + 1
             /\ spans[k].to = Lesser((k - 1) * step + size, n)
    BY <2>3 DEF LongSpans
  <2>5. ASSUME NEW k \in 1 .. K + 1
        PROVE  spans[k].from \in 1 .. n /\ spans[k].to \in 1 .. n
    <3>1. k - 1 \in Nat /\ ~ (K < k - 1) /\ step \in Nat \ {0}
      OBVIOUS
    <3>2. PICK a \in Nat : a = (k - 1) * step /\ a <= n - 1
      <4>1. /\ (k - 1) * step \in Nat /\ K * step \in Nat
            /\ ~ (K * step < (k - 1) * step)
        BY <3>1, MultiplesOrdered
      <4> QED  BY <2>2, <4>1
    <3>3. spans[k].from = a + 1 /\ spans[k].to = Lesser(a + size, n)
      BY <2>4, <3>2
    <3>4. Lesser(a + size, n) \in 1 .. n
      BY <1>3, <3>2 DEF Lesser
    <3>5. a + 1 \in 1 .. n
      BY <3>2
    <3> QED  BY <3>3, <3>4, <3>5
  <2> QED  BY <2>4, <2>5 DEF spans
<1> QED  BY <1>1, <1>2, <1>3

CoveredBy(words, pieces) ==
    ToSet(words) = UNION {ToSet(piece) : piece \in ToSet(pieces)}

LEMMA WindowsCoverText ==
    ASSUME NEW W, NEW words \in Seq(W), NEW size \in Nat \ {0}, NEW overlap \in Nat
    PROVE  /\ WindowChunks(words, size, overlap) \in Seq(Seq(W))
           /\ CoveredBy(words, WindowChunks(words, size, overlap))
<1> DEFINE n == Len(words)
           spans == WindowSpans(n, size, overlap)
           pieces == WindowChunks(words, size, overlap)
<1>1. n \in Nat /\ DOMAIN words = 1 .. n /\ \A i \in 1 .. n : words[i] \in W
  OBVIOUS
<1> HIDE DEF n
<1>2. /\ Len(spans) \in Nat /\ DOMAIN spans = 1 .. Len(spans)
      /\ \A k \in DOMAIN spans : spans[k].from \in 1 .. n /\ spans[k].to \in 1 .. n
  BY <1>1, SpansInside
<1>3. UNION {spans[k].from .. spans[k].to : k \in DOMAIN spans} = 1 .. n
  <2>1. WellWindowed(n, size, overlap)
    BY <1>1, WindowsAreWell
  <2> QED  BY <2>1 DEF WellWindowed
<1>4. pieces = [k \in DOMAIN spans |-> SubSeq(words, spans[k].from, spans[k].to)]
  BY DEF WindowChunks, n
<1> HIDE DEF spans, pieces
<1>5. ASSUME NEW k \in DOMAIN spans
      PROVE  /\ pieces[k] \in Seq(W)
             /\ ToSet(pieces[k]) = {words[w] : w \in spans[k].from .. spans[k].to}
  <2>1. PICK from \in 1 .. n, to \in 1 .. n : from = spans[k].from /\ to = spans[k].to
    BY <1>2
  <2>2. from \in Int /\ to \in Int /\ \A i \in from .. to : words[i] \in W
    BY <1>1
  <2>3. /\ SubSeq(words, from, to) \in Seq(W)
        /\ Len(SubSeq(words, from, to)) = IF from <= to THEN to - from + 1 ELSE 0
        /\ \A i \in 1 .. to - from + 1 : SubSeq(words, from, to)[i] = words[from + i - 1]
    BY <2>2, SubSeqProperties
  <2>4. PICK piece : piece = SubSeq(words, from, to)
    OBVIOUS
  <2>5. /\ piece \in Seq(W) /\ Len(piece) = IF from <= to THEN to - from + 1 ELSE 0
        /\ \A i \in 1 .. to - from + 1 : piece[i] = words[from + i - 1]
    BY <2>3, <2>4
  <2>6. DOMAIN piece = 1 .. to - from + 1
    BY <1>1, <2>5
  <2>7. \A w \in from .. to : \E i \in DOMAIN piece : words[w] = piece[i]
    <3> TAKE w \in from .. to
    <3>1. w - from + 1 \in 1 .. to - from + 1 /\ from + (w - from + 1) - 1 = w
      BY <1>1
    <3> QED  BY <2>5, <2>6, <3>1
  <2>8. \A i \in DOMAIN piece : \E w \in from .. to : piece[i] = words[w]
    <3> TAKE i \in DOMAIN piece
    <3>1. i \in 1 .. to - from + 1
      BY <2>6
    <3>2. from + i - 1 \in from .. to
      BY <1>1, <3>1
    <3> QED  BY <2>5, <3>1, <3>2
  <2>9. ToSet(piece) = {words[w] : w \in from .. to}
    <3>1. \A x \in ToSet(piece) : x \in {words[w] : w \in from .. to}
      BY <2>8 DEF ToSet
    <3>2. \A x \in {words[w] : w \in from .. to} : x \in ToSet(piece)
      BY <2>7 DEF ToSet
    <3> QED  BY <3>1, <3>2
  <2>10. piece = pieces[k]
    BY <1>4, <2>1, <2>4
  <2> QED  BY <2>1, <2>5, <2>9, <2>10
<1>6. pieces \in Seq(Seq(W)) /\ DOMAIN pieces = DOMAIN spans
  <2> DEFINE Texts == Seq(W)
  <2>1. \A k \in DOMAIN spans : SubSeq(words, spans[k].from, spans[k].to) \in Texts
    BY <1>4, <1>5
  <2> HIDE DEF Texts
  <2>2. pieces \in Seq(Texts) /\ DOMAIN pieces = DOMAIN spans
    BY <1>2, <1>4, <2>1
  <2> QED  BY <2>2 DEF Texts
<1>7. CoveredBy(words, pieces)
  <2>1. ToSet(words) = {words[w] : w \in 1 .. n}
    BY <1>1 DEF ToSet
  <2>2. ToSet(pieces) = {pieces[k] : k \in DOMAIN spans}
    BY <1>6 DEF ToSet
  <2>3. ASSUME NEW w \in 1 .. n
        PROVE  \E piece \in ToSet(pieces) : words[w] \in ToSet(piece)
    <3>1. PICK k \in DOMAIN spans : w \in spans[k].from .. spans[k].to
      BY <1>3
    <3>2. words[w] \in ToSet(pieces[k]) /\ pieces[k] \in ToSet(pieces)
      BY <1>5, <2>2, <3>1
    <3> QED  BY <3>2
  <2>4. ASSUME NEW piece \in ToSet(pieces), NEW x \in ToSet(piece)
        PROVE  x \in ToSet(words)
    <3>1. PICK k \in DOMAIN spans : piece = pieces[k]
      BY <2>2
    <3>2. PICK w \in spans[k].from .. spans[k].to : x = words[w]
      BY <1>5, <3>1
    <3>3. w \in 1 .. n
      BY <1>3
    <3> QED  BY <2>1, <3>2, <3>3
  <2>5. \A x \in ToSet(words) : \E piece \in ToSet(pieces) : x \in ToSet(piece)
    BY <2>1, <2>3
  <2>6. ToSet(words) = UNION {ToSet(piece) : piece \in ToSet(pieces)}
    BY <2>4, <2>5
  <2> QED  BY <2>6 DEF CoveredBy
<1> QED  BY <1>6, <1>7 DEF pieces

LEMMA ToSetJoined ==
    ASSUME NEW S, NEW s \in Seq(S), NEW t \in Seq(S)
    PROVE  ToSet(s \o t) = ToSet(s) \union ToSet(t)
<1> DEFINE u == s \o t
<1>1. /\ u \in Seq(S) /\ Len(u) = Len(s) + Len(t)
      /\ \A i \in 1 .. Len(s) + Len(t) :
           u[i] = IF i <= Len(s) THEN s[i] ELSE t[i - Len(s)]
  BY ConcatProperties
<1> HIDE DEF u
<1>2. /\ Len(s) \in Nat /\ Len(t) \in Nat
      /\ DOMAIN s = 1 .. Len(s) /\ DOMAIN t = 1 .. Len(t)
      /\ DOMAIN u = 1 .. Len(s) + Len(t)
  BY <1>1
<1>3. \A i \in DOMAIN s : i \in DOMAIN u /\ u[i] = s[i]
  BY <1>1, <1>2
<1>4. \A i \in DOMAIN t : Len(s) + i \in DOMAIN u /\ u[Len(s) + i] = t[i]
  BY <1>1, <1>2
<1>5. \A i \in DOMAIN u :
        \/ i \in DOMAIN s /\ u[i] = s[i]
        \/ i - Len(s) \in DOMAIN t /\ u[i] = t[i - Len(s)]
  BY <1>1, <1>2
<1>6. ToSet(u) = ToSet(s) \union ToSet(t)
  BY <1>3, <1>4, <1>5 DEF ToSet
<1> QED  BY <1>6 DEF u

LEMMA ToSetFlat ==
    ASSUME NEW S, NEW parts \in Seq(Seq(S))
    PROVE  ToSet(FlattenSeq(parts)) = UNION {ToSet(parts[i]) : i \in DOMAIN parts}
<1> DEFINE n == Len(parts)
           Texts == Seq(S)
<1>1. n \in Nat /\ DOMAIN parts = 1 .. n /\ \A i \in 1 .. n : parts[i] \in Texts
  <2>1. parts \in Seq(Texts)
    OBVIOUS
  <2> HIDE DEF Texts
  <2> QED  BY <2>1
<1>2. PICK f \in [0 .. n -> Texts] : JoinsParts(f, parts)
  BY PartsJoin
<1>3. FlattenSeq(parts) = f[n]
  BY <1>2, FlattenJoins
<1> DEFINE T == {k \in 0 .. n :
                   ToSet(f[k]) = UNION {ToSet(parts[i]) : i \in 1 .. k}}
<1>4. 0 \in T
  <2>1. f[0] = <<>>
    BY <1>2 DEF JoinsParts
  <2>2. ToSet(f[0]) = {}
    BY <2>1 DEF ToSet
  <2>3. 1 .. 0 = {} /\ 0 \in 0 .. n
    BY <1>1
  <2> QED  BY <2>2, <2>3
<1>5. ASSUME NEW k \in 1 .. n, k - 1 \in T PROVE k \in T
  <2>1. k \in 0 .. n /\ k - 1 \in 0 .. n /\ 1 .. k = (1 .. k - 1) \union {k}
    BY <1>1
  <2>2. f[k] = f[k - 1] \o parts[k]
    BY <1>2 DEF JoinsParts
  <2>3. f[k - 1] \in Texts /\ parts[k] \in Texts
    BY <1>1, <1>2, <2>1
  <2>4. ToSet(f[k]) = ToSet(f[k - 1]) \union ToSet(parts[k])
    BY <2>2, <2>3, ToSetJoined
  <2>5. ToSet(f[k - 1]) = UNION {ToSet(parts[i]) : i \in 1 .. k - 1}
    BY <1>5
  <2>6. ToSet(f[k]) = UNION {ToSet(parts[i]) : i \in 1 .. k}
    BY <2>1, <2>4, <2>5
  <2> QED  BY <2>1, <2>6
<1>6. n \in T
  <2>1. 0 .. n \subseteq T
    <3> HIDE DEF T, n
    <3> QED  BY <1>1, <1>4, <1>5, LoopInduction
  <2>2. n \in 0 .. n
    BY <1>1
  <2> HIDE DEF T
  <2> QED  BY <2>1, <2>2
<1> QED  BY <1>1, <1>3, <1>6

-----------------------------------------------------------------------------
(* The chunks of one slide.                                                *)
SlideChunks(pieces, s) ==
    [k \in DOMAIN pieces |-> [text |-> pieces[k], slide |-> s]]

(* EachSlideFound, for every deck and every window.                        *)
THEOREM SlidesAreFound ==
    ASSUME NEW W, NEW slides \in Seq(Seq(W)),
           NEW size \in Nat \ {0}, NEW overlap \in Nat
    PROVE  EachSlideFound(slides, size, overlap)
<1> DEFINE N == Len(slides)
           Texts == Seq(W)
           Chunk == [text : Texts, slide : Nat]
           pieces(s) == WindowChunks(slides[s], size, overlap)
           parts == [s \in DOMAIN slides |-> SlideChunks(pieces(s), s)]
           chunks == ChunkDeck(slides, size, overlap)
<1>1. /\ N \in Nat /\ DOMAIN slides = 1 .. N
      /\ \A s \in DOMAIN slides : slides[s] \in Texts
  <2>1. slides \in Seq(Texts)
    OBVIOUS
  <2> HIDE DEF Texts
  <2> QED  BY <2>1
<1>2. chunks = FlattenSeq(parts)
  BY DEF ChunkDeck, SlideChunks
<1>3. ASSUME NEW s \in DOMAIN slides
      PROVE  /\ pieces(s) \in Seq(Texts)
             /\ ToSet(slides[s]) = UNION {ToSet(piece) : piece \in ToSet(pieces(s))}
  <2>1. PICK words \in Seq(W) : words = slides[s]
    BY <1>1
  <2>2. /\ WindowChunks(words, size, overlap) \in Seq(Seq(W))
        /\ CoveredBy(words, WindowChunks(words, size, overlap))
    BY WindowsCoverText
  <2> QED  BY <2>1, <2>2 DEF CoveredBy
<1> HIDE DEF pieces, chunks
<1>4. ASSUME NEW s \in DOMAIN slides
      PROVE  /\ DOMAIN parts[s] = DOMAIN pieces(s)
             /\ \A k \in DOMAIN pieces(s) : /\ parts[s][k].text = pieces(s)[k]
                                            /\ parts[s][k].slide = s
  BY DEF SlideChunks
<1>5. ASSUME NEW s \in DOMAIN slides
      PROVE  parts[s] \in Seq(Chunk)
  <2>1. PICK found \in Seq(Texts) : found = pieces(s)
    BY <1>3
  <2>2. s \in Nat
    BY <1>1
  <2>3. /\ Len(found) \in Nat /\ DOMAIN found = 1 .. Len(found)
        /\ \A k \in 1 .. Len(found) : found[k] \in Texts
    <3> HIDE DEF Texts
    <3> QED  OBVIOUS
  <2>4. \A k \in 1 .. Len(found) : [text |-> found[k], slide |-> s] \in Chunk
    <3> HIDE DEF Texts
    <3> QED  BY <2>2, <2>3
  <2> HIDE DEF Chunk
  <2>5. SlideChunks(found, s) \in Seq(Chunk)
    BY <2>3, <2>4 DEF SlideChunks
  <2> QED  BY <2>1, <2>5
<1>6. parts \in Seq(Seq(Chunk)) /\ DOMAIN parts = DOMAIN slides
  <2> DEFINE Parts == Seq(Chunk)
  <2>1. /\ \A s \in 1 .. N : parts[s] \in Parts
        /\ parts = [s \in 1 .. N |-> parts[s]]
    BY <1>1, <1>5
  <2> HIDE DEF Parts, parts
  <2>2. parts \in Seq(Parts) /\ DOMAIN parts = DOMAIN slides
    BY <1>1, <2>1
  <2> QED  BY <2>2 DEF Parts
<1>7. ToSet(chunks) = UNION {ToSet(parts[s]) : s \in DOMAIN slides}
  <2> HIDE DEF parts, Chunk
  <2> QED  BY <1>2, <1>6, ToSetFlat
<1> HIDE DEF parts
<1>8. ASSUME NEW s \in DOMAIN slides, NEW x \in ToSet(slides[s])
      PROVE  \E i \in DOMAIN chunks : chunks[i].slide = s /\ x \in ToSet(chunks[i].text)
  <2>1. PICK piece \in ToSet(pieces(s)) : x \in ToSet(piece)
    BY <1>3
  <2>2. PICK k \in DOMAIN pieces(s) : piece = pieces(s)[k]
    BY DEF ToSet
  <2>3. parts[s][k] \in ToSet(parts[s])
    BY <1>4 DEF ToSet
  <2>4. parts[s][k] \in ToSet(chunks)
    BY <1>7, <2>3
  <2>5. PICK i \in DOMAIN chunks : chunks[i] = parts[s][k]
    BY <2>4 DEF ToSet
  <2>6. parts[s][k].text = piece /\ parts[s][k].slide = s
    BY <1>4, <2>2
  <2>7. chunks[i].slide = s /\ x \in ToSet(chunks[i].text)
    BY <2>1, <2>5, <2>6
  <2> QED  BY <2>7
<1>9. ASSUME NEW s \in DOMAIN slides, NEW i \in DOMAIN chunks, chunks[i].slide = s,
             NEW x \in ToSet(chunks[i].text)
      PROVE  x \in ToSet(slides[s])
  <2>1. chunks[i] \in ToSet(chunks)
    BY DEF ToSet
  <2>2. PICK r \in DOMAIN slides : chunks[i] \in ToSet(parts[r])
    BY <1>7, <2>1
  <2>3. PICK k \in DOMAIN parts[r] : chunks[i] = parts[r][k]
    BY <2>2 DEF ToSet
  <2>4. r = s /\ chunks[i].text = pieces(s)[k] /\ k \in DOMAIN pieces(s)
    BY <1>4, <1>9, <2>3
  <2>5. pieces(s)[k] \in ToSet(pieces(s)) /\ x \in ToSet(pieces(s)[k])
    BY <2>4 DEF ToSet
  <2> QED  BY <1>3, <2>5
<1>10. ASSUME NEW s \in DOMAIN slides
       PROVE  ToSet(slides[s])
                = UNION {ToSet(chunks[i].text) : i \in {j \in DOMAIN chunks : chunks[j].slide = s}}
  <2>1. \A x \in ToSet(slides[s]) : \E i \in {j \in DOMAIN chunks : chunks[j].slide = s} :
          x \in ToSet(chunks[i].text)
    BY <1>8
  <2>2. \A i \in {j \in DOMAIN chunks : chunks[j].slide = s} :
          \A x \in ToSet(chunks[i].text) : x \in ToSet(slides[s])
    BY <1>9
  <2> QED  BY <2>1, <2>2
<1> QED  BY <1>10 DEF EachSlideFound, chunks

-----------------------------------------------------------------------------
(* chunk_paper: one turn of its inner loop, for a piece of a page.         *)
PaperChunks(W) == [text : Seq(W), page : Nat]
PaperState(W, lower) ==
    [seen : SUBSET {Key(t, lower) : t \in Seq(W)}, chunks : Seq(PaperChunks(W))]

OneMore(out, piece, page, lower) ==
    IF Key(piece, lower) \in out.seen THEN out
    ELSE [seen |-> out.seen \union {Key(piece, lower)},
          chunks |-> Append(out.chunks, [text |-> piece, page |-> page])]

(* The inner loop: all pieces of a page.                                   *)
WholePage(acc, pieces, page, lower) ==
    LET more(out, piece) == OneMore(out, piece, page, lower)
    IN FoldLeft(more, acc, pieces)

NoText == [seen |-> {}, chunks |-> <<>>]

(* The texts seen are those of the chunks, no two alike, and the chunks    *)
(* are in the order of their pages, all up to this one.                    *)
FoldedOnce(acc, page, lower) ==
    /\ acc.seen = {Key(acc.chunks[i].text, lower) : i \in DOMAIN acc.chunks}
    /\ \A i, j \in DOMAIN acc.chunks : i < j =>
         /\ Key(acc.chunks[i].text, lower) # Key(acc.chunks[j].text, lower)
         /\ acc.chunks[i].page <= acc.chunks[j].page
    /\ \A i \in DOMAIN acc.chunks : acc.chunks[i].page <= page

FoundBy(acc, key, page, lower) ==
    \E i \in DOMAIN acc.chunks :
      acc.chunks[i].page <= page /\ Key(acc.chunks[i].text, lower) = key

KeepsFound(acc, next, lower) ==
    \A key, page : FoundBy(acc, key, page, lower) => FoundBy(next, key, page, lower)

LEMMA OneMoreTyped ==
    ASSUME NEW W, NEW lower, NEW acc \in PaperState(W, lower),
           NEW piece \in Seq(W), NEW page \in Nat
    PROVE  OneMore(acc, piece, page, lower) \in PaperState(W, lower)
<1> DEFINE C == PaperChunks(W)
           Keys == {Key(t, lower) : t \in Seq(W)}
           c == [text |-> piece, page |-> page]
<1>1. acc.seen \in SUBSET Keys /\ acc.chunks \in Seq(C)
  BY DEF PaperState
<1>2. c \in C /\ Key(piece, lower) \in Keys
  BY DEF PaperChunks
<1> HIDE DEF C, Keys, c
<1>3. Append(acc.chunks, c) \in Seq(C)
  BY <1>1, <1>2, AppendFacts
<1>4. OneMore(acc, piece, page, lower)
        = IF Key(piece, lower) \in acc.seen THEN acc
          ELSE [seen |-> acc.seen \union {Key(piece, lower)},
                chunks |-> Append(acc.chunks, c)]
  BY DEF OneMore, c
<1>5. acc.seen \union {Key(piece, lower)} \in SUBSET Keys
  BY <1>1, <1>2
<1>6. PaperState(W, lower) = [seen : SUBSET Keys, chunks : Seq(C)]
  BY DEF PaperState, Keys, C
<1> QED  BY <1>3, <1>4, <1>5, <1>6

LEMMA OneMoreTurn ==
    ASSUME NEW W, NEW lower, NEW acc \in PaperState(W, lower),
           NEW piece \in Seq(W), NEW page \in Nat, FoldedOnce(acc, page, lower)
    PROVE  /\ FoldedOnce(OneMore(acc, piece, page, lower), page, lower)
           /\ FoundBy(OneMore(acc, piece, page, lower), Key(piece, lower), page, lower)
           /\ KeepsFound(acc, OneMore(acc, piece, page, lower), lower)
<1> DEFINE C == PaperChunks(W)
           c == [text |-> piece, page |-> page]
           n == Len(acc.chunks)
<1>1. PICK next : next = OneMore(acc, piece, page, lower)
  OBVIOUS
<1>2. acc.chunks \in Seq(C)
  BY DEF PaperState
<1>3. c \in C /\ c.text = piece /\ c.page = page
  BY DEF PaperChunks
<1>4. CASE Key(piece, lower) \in acc.seen
  <2>1. next = acc
    BY <1>1, <1>4 DEF OneMore
  <2>2. FoundBy(acc, Key(piece, lower), page, lower)
    BY <1>4 DEF FoldedOnce, FoundBy
  <2> QED  BY <1>1, <2>1, <2>2 DEF KeepsFound
<1>5. CASE Key(piece, lower) \notin acc.seen
  <2>1. /\ next.seen = acc.seen \union {Key(piece, lower)}
        /\ next.chunks = Append(acc.chunks, c)
    BY <1>1, <1>5 DEF OneMore
  <2> HIDE DEF C, c
  <2>2. /\ n \in Nat /\ DOMAIN acc.chunks = 1 .. n
        /\ next.chunks \in Seq(C) /\ Len(next.chunks) = n + 1
        /\ \A i \in 1 .. n : next.chunks[i] = acc.chunks[i]
        /\ next.chunks[n + 1] = c
        /\ \A i \in 1 .. n : acc.chunks[i] \in C
    BY <1>2, <1>3, <2>1, AppendFacts
  <2> HIDE DEF n
  <2>3. DOMAIN next.chunks = 1 .. n + 1
    BY <2>2
  <2>4. /\ \A i \in DOMAIN next.chunks : i \in DOMAIN acc.chunks \/ i = n + 1
        /\ \A i \in DOMAIN acc.chunks : i \in DOMAIN next.chunks /\ i # n + 1
        /\ n + 1 \in DOMAIN next.chunks
    BY <2>2, <2>3
  <2>5. \A i \in DOMAIN acc.chunks : acc.chunks[i].page \in Nat /\ acc.chunks[i].page <= page
    BY <2>2 DEF FoldedOnce, C, PaperChunks
  <2>6. next.seen = {Key(next.chunks[i].text, lower) : i \in DOMAIN next.chunks}
    <3>1. \A key \in next.seen : \E i \in DOMAIN next.chunks :
            key = Key(next.chunks[i].text, lower)
      BY <1>3, <2>1, <2>2, <2>4 DEF FoldedOnce
    <3>2. \A i \in DOMAIN next.chunks : Key(next.chunks[i].text, lower) \in next.seen
      BY <1>3, <2>1, <2>2, <2>4 DEF FoldedOnce
    <3> QED  BY <3>1, <3>2
  <2>7. ASSUME NEW i \in DOMAIN next.chunks, NEW j \in DOMAIN next.chunks, i < j
        PROVE  /\ Key(next.chunks[i].text, lower) # Key(next.chunks[j].text, lower)
               /\ next.chunks[i].page <= next.chunks[j].page
    <3>1. i \in DOMAIN acc.chunks
      BY <2>2, <2>3, <2>7
    <3>2. CASE j \in DOMAIN acc.chunks
      BY <2>2, <2>7, <3>1, <3>2 DEF FoldedOnce
    <3>3. CASE j = n + 1
      <4>1. Key(acc.chunks[i].text, lower) \in acc.seen
        BY <3>1 DEF FoldedOnce
      <4>2. next.chunks[i] = acc.chunks[i] /\ next.chunks[j] = c
        BY <2>2, <3>1, <3>3
      <4> QED  BY <1>3, <1>5, <2>5, <3>1, <4>1, <4>2
    <3> QED  BY <2>4, <3>2, <3>3
  <2>8. \A i \in DOMAIN next.chunks : next.chunks[i].page <= page
    <3>1. page <= page
      OBVIOUS
    <3> QED  BY <1>3, <2>2, <2>4, <2>5, <3>1
  <2>9. FoldedOnce(next, page, lower)
    BY <2>6, <2>7, <2>8 DEF FoldedOnce
  <2>10. FoundBy(next, Key(piece, lower), page, lower)
    BY <1>3, <2>2, <2>4, <2>8 DEF FoundBy
  <2>11. KeepsFound(acc, next, lower)
    BY <2>2, <2>4 DEF KeepsFound, FoundBy
  <2> QED  BY <1>1, <2>9, <2>10, <2>11
<1> QED  BY <1>4, <1>5

PageRuns(h, acc, pieces, page, lower) ==
    /\ h[0] = acc
    /\ \A k \in 1 .. Len(pieces) : h[k] = OneMore(h[k - 1], pieces[k], page, lower)
    /\ WholePage(acc, pieces, page, lower) = h[Len(pieces)]

LEMMA PageTurns ==
    ASSUME NEW W, NEW lower, NEW acc \in PaperState(W, lower),
           NEW pieces \in Seq(Seq(W)), NEW page \in Nat
    PROVE  \E h \in [0 .. Len(pieces) -> PaperState(W, lower)] :
             PageRuns(h, acc, pieces, page, lower)
<1> DEFINE n == Len(pieces)
           S == PaperState(W, lower)
           turn == [p \in S \X (1 .. n) |-> OneMore(p[1], pieces[p[2]], page, lower)]
           iter == CHOOSE g : g = [s \in SUBSET (DOMAIN pieces) |->
                     IF s = {} THEN acc
                     ELSE OneMore(g[s \ {Max(s)}], pieces[Max(s)], page, lower)]
<1>n. /\ n \in Nat /\ DOMAIN pieces = 1 .. n
      /\ \A k \in 1 .. n : pieces[k] \in Seq(W)
  <2> DEFINE Texts == Seq(W)
  <2>1. pieces \in Seq(Texts)
    OBVIOUS
  <2> HIDE DEF Texts
  <2>2. n \in Nat /\ DOMAIN pieces = 1 .. n /\ \A k \in 1 .. n : pieces[k] \in Texts
    BY <2>1
  <2> QED  BY <2>2 DEF Texts
<1>1. WholePage(acc, pieces, page, lower) = iter[DOMAIN pieces]
  BY DEF WholePage, FoldLeft, MapThenFoldSet
<1>2. acc \in S
  OBVIOUS
<1>3. turn \in [S \X (1 .. n) -> S]
  <2>1. \A out \in S, k \in 1 .. n : OneMore(out, pieces[k], page, lower) \in S
    BY <1>n, OneMoreTyped
  <2> HIDE DEF n, S
  <2> QED  BY <2>1
<1> HIDE DEF turn, n, S
<1>4. PICK g \in [SUBSET (1 .. n) -> S] : FoldOf(g, n, acc, turn)
  BY <1>n, <1>2, <1>3, FoldExists
<1>5. ASSUME NEW s \in SUBSET (1 .. n), s # {}, NEW out \in S
      PROVE  turn[<<out, Max(s)>>] = OneMore(out, pieces[Max(s)], page, lower)
  <2>1. Max(s) \in 1 .. n
    BY <1>n, <1>5, MaxOfSome
  <2> QED  BY <2>1 DEF turn
<1>6. g = [s \in SUBSET (DOMAIN pieces) |->
             IF s = {} THEN acc
             ELSE OneMore(g[s \ {Max(s)}], pieces[Max(s)], page, lower)]
  <2>1. \A s \in SUBSET (1 .. n) :
          s # {} => /\ g[s \ {Max(s)}] \in S
                    /\ g[s] = OneMore(g[s \ {Max(s)}], pieces[Max(s)], page, lower)
    BY <1>4, <1>5 DEF FoldOf
  <2> QED  BY <1>n, <1>4, <2>1 DEF FoldOf
<1>7. iter = [s \in SUBSET (DOMAIN pieces) |->
                IF s = {} THEN acc
                ELSE OneMore(iter[s \ {Max(s)}], pieces[Max(s)], page, lower)]
  BY <1>6
<1> HIDE DEF iter
<1>8. FoldsWithin(iter, n, S, acc, turn)
  <2>1. iter[{}] = acc
    BY <1>7
  <2>2. \A s \in SUBSET (1 .. n) :
          s # {} /\ iter[s \ {Max(s)}] \in S
            => iter[s] = turn[<<iter[s \ {Max(s)}], Max(s)>>]
    BY <1>n, <1>5, <1>7
  <2> QED  BY <2>1, <2>2 DEF FoldsWithin
<1>9. PICK h \in [0 .. n -> S] : TurnByTurn(h, n, acc, turn, iter[1 .. n])
  BY <1>n, <1>2, <1>3, <1>8, FoldTurns
<1>10. ASSUME NEW k \in 1 .. n PROVE h[k] = OneMore(h[k - 1], pieces[k], page, lower)
  <2>1. h[k - 1] \in S
    BY <1>n, <1>9
  <2> QED  BY <1>9, <2>1 DEF TurnByTurn, turn
<1>11. iter[DOMAIN pieces] = h[n]
  BY <1>n, <1>9 DEF TurnByTurn
<1> QED  BY <1>1, <1>9, <1>10, <1>11 DEF n, S, TurnByTurn, PageRuns

(* What a page adds: its pieces can be found, and nothing is lost.         *)
AllFound(acc, pieces, k, page, lower) ==
    \A j \in 1 .. k : FoundBy(acc, Key(pieces[j], lower), page, lower)

LEMMA PageKept ==
    ASSUME NEW W, NEW lower, NEW acc \in PaperState(W, lower),
           NEW pieces \in Seq(Seq(W)), NEW page \in Nat,
           FoldedOnce(acc, page, lower)
    PROVE  /\ WholePage(acc, pieces, page, lower) \in PaperState(W, lower)
           /\ FoldedOnce(WholePage(acc, pieces, page, lower), page, lower)
           /\ KeepsFound(acc, WholePage(acc, pieces, page, lower), lower)
           /\ AllFound(WholePage(acc, pieces, page, lower), pieces, Len(pieces),
                       page, lower)
<1> DEFINE n == Len(pieces)
           S == PaperState(W, lower)
<1>1. n \in Nat /\ \A k \in 1 .. n : pieces[k] \in Seq(W)
  <2> DEFINE Texts == Seq(W)
  <2>1. pieces \in Seq(Texts)
    OBVIOUS
  <2> HIDE DEF Texts
  <2>2. n \in Nat /\ \A k \in 1 .. n : pieces[k] \in Texts
    BY <2>1
  <2> QED  BY <2>2 DEF Texts
<1>2. PICK h \in [0 .. n -> S] : PageRuns(h, acc, pieces, page, lower)
  BY PageTurns
<1> DEFINE T == {k \in 0 .. n : /\ FoldedOnce(h[k], page, lower)
                                /\ KeepsFound(acc, h[k], lower)
                                /\ AllFound(h[k], pieces, k, page, lower)}
<1>3. 0 \in T
  <2>1. h[0] = acc
    BY <1>2 DEF PageRuns
  <2>2. KeepsFound(acc, acc, lower) /\ AllFound(acc, pieces, 0, page, lower)
    BY DEF KeepsFound, AllFound
  <2> QED  BY <1>1, <2>1, <2>2
<1>4. ASSUME NEW k \in 1 .. n, k - 1 \in T PROVE k \in T
  <2>1. /\ k - 1 \in 0 .. n /\ k \in 0 .. n
        /\ \A j \in 1 .. k : j \in 1 .. k - 1 \/ j = k
    BY <1>1
  <2>2. PICK old \in S : old = h[k - 1]
    BY <1>2, <2>1
  <2>3. PICK piece \in Seq(W) : piece = pieces[k]
    BY <1>1
  <2>4. PICK next : next = OneMore(old, piece, page, lower) /\ next = h[k]
    BY <1>2, <2>2, <2>3 DEF PageRuns
  <2>5. /\ FoldedOnce(old, page, lower) /\ KeepsFound(acc, old, lower)
        /\ AllFound(old, pieces, k - 1, page, lower)
    BY <1>4, <2>2
  <2>6. /\ FoldedOnce(next, page, lower)
        /\ FoundBy(next, Key(piece, lower), page, lower)
        /\ KeepsFound(old, next, lower)
    <3> HIDE DEF T
    <3> QED  BY <2>4, <2>5, OneMoreTurn
  <2>7. KeepsFound(acc, next, lower)
    BY <2>5, <2>6 DEF KeepsFound
  <2>8. AllFound(next, pieces, k, page, lower)
    <3>1. ASSUME NEW j \in 1 .. k
          PROVE  FoundBy(next, Key(pieces[j], lower), page, lower)
      <4>1. CASE j = k
        BY <2>3, <2>6, <4>1
      <4>2. CASE j \in 1 .. k - 1
        BY <2>5, <2>6, <4>2 DEF AllFound, KeepsFound
      <4> QED  BY <2>1, <4>1, <4>2
    <3> QED  BY <3>1 DEF AllFound
  <2> QED  BY <2>1, <2>4, <2>6, <2>7, <2>8
<1>5. n \in T
  <2> HIDE DEF T
  <2>1. 0 .. n \subseteq T
    BY <1>1, <1>3, <1>4, LoopInduction
  <2> QED  BY <1>1, <2>1
<1>6. WholePage(acc, pieces, page, lower) = h[n] /\ h[n] \in S
  BY <1>1, <1>2 DEF PageRuns
<1> QED  BY <1>5, <1>6

-----------------------------------------------------------------------------
(* chunk_paper: its outer loop, over the pages.                            *)
PaperRuns(h, pages, size, overlap, lower) ==
    /\ h[0] = NoText
    /\ \A p \in 1 .. Len(pages) :
         h[p] = WholePage(h[p - 1], WindowChunks(pages[p], size, overlap), p, lower)
    /\ ChunkPaper(pages, size, overlap, lower) = h[Len(pages)].chunks

LEMMA PiecesOfPage ==
    ASSUME NEW W, NEW pages \in Seq(Seq(W)), NEW size \in Nat \ {0},
           NEW overlap \in Nat, NEW p \in 1 .. Len(pages)
    PROVE  WindowChunks(pages[p], size, overlap) \in Seq(Seq(W))
<1>1. PICK words \in Seq(W) : words = pages[p]
  <2> DEFINE Texts == Seq(W)
  <2>1. pages \in Seq(Texts)
    OBVIOUS
  <2> HIDE DEF Texts
  <2>2. pages[p] \in Texts
    BY <2>1
  <2> QED  BY <2>2 DEF Texts
<1>2. WindowChunks(words, size, overlap) \in Seq(Seq(W))
  BY WindowsCoverText
<1> QED  BY <1>1, <1>2

LEMMA PaperTurns ==
    ASSUME NEW W, NEW lower, NEW pages \in Seq(Seq(W)),
           NEW size \in Nat \ {0}, NEW overlap \in Nat
    PROVE  \E h \in [0 .. Len(pages) -> PaperState(W, lower)] :
             PaperRuns(h, pages, size, overlap, lower)
<1> DEFINE n == Len(pages)
           S == PaperState(W, lower)
           pieces(p) == WindowChunks(pages[p], size, overlap)
           index == [p \in DOMAIN pages |-> p]
           turn == [p \in S \X (1 .. n) |-> WholePage(p[1], pieces(p[2]), p[2], lower)]
           iter == CHOOSE g : g = [s \in SUBSET (DOMAIN index) |->
                     IF s = {} THEN [seen |-> {}, chunks |-> <<>>]
                     ELSE WholePage(g[s \ {Max(s)}], pieces(index[Max(s)]),
                                  index[Max(s)], lower)]
<1>n. n \in Nat /\ DOMAIN pages = 1 .. n
  OBVIOUS
<1>p. ASSUME NEW p \in 1 .. n PROVE pieces(p) \in Seq(Seq(W))
  BY PiecesOfPage
<1>1. ChunkPaper(pages, size, overlap, lower) = iter[DOMAIN index].chunks
  BY DEF ChunkPaper, FoldLeft, MapThenFoldSet, WholePage, OneMore
<1>i. DOMAIN index = 1 .. n /\ \A p \in 1 .. n : index[p] = p
  BY <1>n
<1>2. PICK base \in S : base = NoText
  <2> DEFINE C == PaperChunks(W)
  <2>1. <<>> \in Seq(C)
    <3> HIDE DEF C
    <3> QED  BY EmptySeq
  <2> HIDE DEF C
  <2> QED  BY <2>1 DEF NoText, PaperState, C
<1> HIDE DEF pieces
<1>3. turn \in [S \X (1 .. n) -> S]
  <2>1. ASSUME NEW out \in S, NEW p \in 1 .. n
        PROVE  WholePage(out, pieces(p), p, lower) \in S
    <3>1. PICK here \in Seq(Seq(W)) : here = pieces(p)
      BY <1>p
    <3>2. PICK h \in [0 .. Len(here) -> PaperState(W, lower)] :
            PageRuns(h, out, here, p, lower)
      <4>1. p \in Nat
        BY <1>n
      <4> QED  BY <4>1, PageTurns
    <3>3. Len(here) \in 0 .. Len(here)
      OBVIOUS
    <3> QED  BY <3>1, <3>2, <3>3 DEF PageRuns
  <2> HIDE DEF n, S
  <2> QED  BY <2>1
<1> HIDE DEF turn, n, S
<1>4. PICK g \in [SUBSET (1 .. n) -> S] : FoldOf(g, n, base, turn)
  BY <1>n, <1>2, <1>3, FoldExists
<1>5. ASSUME NEW s \in SUBSET (1 .. n), s # {}, NEW out \in S
      PROVE  turn[<<out, Max(s)>>]
               = WholePage(out, pieces(index[Max(s)]), index[Max(s)], lower)
  <2>1. Max(s) \in 1 .. n
    BY <1>n, <1>5, MaxOfSome
  <2>2. index[Max(s)] = Max(s)
    BY <1>i, <2>1
  <2> QED  BY <2>1, <2>2 DEF turn
<1> HIDE DEF index
<1>6. g = [s \in SUBSET (DOMAIN index) |->
             IF s = {} THEN [seen |-> {}, chunks |-> <<>>]
             ELSE WholePage(g[s \ {Max(s)}], pieces(index[Max(s)]),
                          index[Max(s)], lower)]
  <2>1. \A s \in SUBSET (1 .. n) :
          s # {} => /\ g[s \ {Max(s)}] \in S
                    /\ g[s] = WholePage(g[s \ {Max(s)}], pieces(index[Max(s)]),
                                      index[Max(s)], lower)
    BY <1>4, <1>5 DEF FoldOf
  <2> QED  BY <1>i, <1>2, <1>4, <2>1 DEF FoldOf, NoText
<1>7. iter = [s \in SUBSET (DOMAIN index) |->
                IF s = {} THEN [seen |-> {}, chunks |-> <<>>]
                ELSE WholePage(iter[s \ {Max(s)}], pieces(index[Max(s)]),
                             index[Max(s)], lower)]
  BY <1>6
<1> HIDE DEF iter
<1>8. FoldsWithin(iter, n, S, base, turn)
  <2>1. iter[{}] = base
    BY <1>2, <1>7 DEF NoText
  <2>2. \A s \in SUBSET (1 .. n) :
          s # {} /\ iter[s \ {Max(s)}] \in S
            => iter[s] = turn[<<iter[s \ {Max(s)}], Max(s)>>]
    BY <1>i, <1>5, <1>7
  <2> QED  BY <2>1, <2>2 DEF FoldsWithin
<1>9. PICK h \in [0 .. n -> S] : TurnByTurn(h, n, base, turn, iter[1 .. n])
  BY <1>n, <1>2, <1>3, <1>8, FoldTurns
<1>10. ASSUME NEW p \in 1 .. n PROVE h[p] = WholePage(h[p - 1], pieces(p), p, lower)
  <2>1. p - 1 \in 0 .. n
    BY <1>n
  <2>2. h[p - 1] \in S
    BY <1>9, <2>1
  <2>3. turn[<<h[p - 1], p>>] = WholePage(h[p - 1], pieces(p), p, lower)
    BY <2>2 DEF turn
  <2> QED  BY <1>9, <2>3 DEF TurnByTurn
<1>11. iter[DOMAIN index] = h[n] /\ h[0] = NoText
  BY <1>i, <1>2, <1>9 DEF TurnByTurn
<1> QED  BY <1>1, <1>9, <1>10, <1>11 DEF n, S, PaperRuns, pieces

(* EachTextOnce, for every paper, every window and any lower case.         *)
THEOREM TextsAreOnce ==
    ASSUME NEW W, NEW pages \in Seq(Seq(W)),
           NEW size \in Nat \ {0}, NEW overlap \in Nat, NEW lower
    PROVE  EachTextOnce(pages, size, overlap, lower)
<1> DEFINE n == Len(pages)
           S == PaperState(W, lower)
           pieces(p) == WindowChunks(pages[p], size, overlap)
<1>1. n \in Nat /\ DOMAIN pages = 1 .. n
  OBVIOUS
<1>2. PICK h \in [0 .. n -> S] : PaperRuns(h, pages, size, overlap, lower)
  BY PaperTurns
<1>3. ASSUME NEW p \in 1 .. n PROVE pieces(p) \in Seq(Seq(W))
  BY PiecesOfPage
<1>4. /\ h[0] = NoText
      /\ \A p \in 1 .. n : h[p] = WholePage(h[p - 1], pieces(p), p, lower)
      /\ ChunkPaper(pages, size, overlap, lower) = h[n].chunks
  BY <1>2 DEF PaperRuns
<1> HIDE DEF pieces
<1> DEFINE T == {p \in 0 .. n :
                   /\ FoldedOnce(h[p], p, lower)
                   /\ \A q \in 1 .. p :
                        AllFound(h[p], pieces(q), Len(pieces(q)), q, lower)}
<1>5. 0 \in T
  <2>1. FoldedOnce(NoText, 0, lower)
    BY DEF FoldedOnce, NoText
  <2> QED  BY <1>1, <1>4, <2>1
<1>6. ASSUME NEW p \in 1 .. n, p - 1 \in T PROVE p \in T
  <2>1. /\ p - 1 \in 0 .. n /\ p \in 0 .. n /\ p \in Nat
        /\ \A q \in 1 .. p : q \in 1 .. p - 1 \/ q = p
    BY <1>1
  <2>2. PICK old \in S : old = h[p - 1]
    BY <1>2, <2>1
  <2>3. PICK here \in Seq(Seq(W)) : here = pieces(p)
    BY <1>3
  <2>4. PICK next : next = WholePage(old, here, p, lower) /\ next = h[p]
    BY <1>4, <2>2, <2>3
  <2>5. FoldedOnce(old, p, lower)
    <3>1. FoldedOnce(old, p - 1, lower)
      BY <1>6, <2>2
    <3>2. \A i \in DOMAIN old.chunks : old.chunks[i].page \in Nat
      <4>1. old.chunks \in Seq(PaperChunks(W))
        BY DEF PaperState
      <4>2. \A i \in DOMAIN old.chunks : old.chunks[i] \in PaperChunks(W)
        BY <4>1
      <4> QED  BY <4>2 DEF PaperChunks
    <3>3. \A i \in DOMAIN old.chunks : old.chunks[i].page <= p
      BY <2>1, <3>1, <3>2 DEF FoldedOnce
    <3> QED  BY <3>1, <3>3 DEF FoldedOnce
  <2>6. /\ FoldedOnce(next, p, lower) /\ KeepsFound(old, next, lower)
        /\ AllFound(next, here, Len(here), p, lower)
    <3>1. old \in PaperState(W, lower) /\ p \in Nat
      BY <2>1
    <3>2. /\ FoldedOnce(WholePage(old, here, p, lower), p, lower)
          /\ KeepsFound(old, WholePage(old, here, p, lower), lower)
          /\ AllFound(WholePage(old, here, p, lower), here, Len(here), p, lower)
      <4> HIDE DEF T, S, n
      <4> QED  BY <2>5, <3>1, PageKept
    <3> QED  BY <2>4, <3>2
  <2>7. ASSUME NEW q \in 1 .. p
        PROVE  AllFound(next, pieces(q), Len(pieces(q)), q, lower)
    <3>1. CASE q = p
      BY <2>3, <2>6, <3>1
    <3>2. CASE q \in 1 .. p - 1
      <4>1. AllFound(old, pieces(q), Len(pieces(q)), q, lower)
        BY <1>6, <2>2, <3>2
      <4> QED  BY <2>6, <4>1 DEF AllFound, KeepsFound
    <3> QED  BY <2>1, <3>1, <3>2
  <2> QED  BY <2>1, <2>4, <2>6, <2>7
<1>7. n \in T
  <2> HIDE DEF T
  <2>1. 0 .. n \subseteq T
    BY <1>1, <1>5, <1>6, LoopInduction
  <2> QED  BY <1>1, <2>1
<1>8. PICK chunks : chunks = h[n].chunks
  OBVIOUS
<1>9. \A i, j \in DOMAIN chunks :
        i < j => /\ Key(chunks[i].text, lower) # Key(chunks[j].text, lower)
                 /\ chunks[i].page <= chunks[j].page
  BY <1>7, <1>8 DEF FoldedOnce
<1>10. ASSUME NEW p \in DOMAIN pages, NEW k \in DOMAIN pieces(p)
       PROVE  \E i \in DOMAIN chunks :
                /\ chunks[i].page <= p
                /\ Key(chunks[i].text, lower) = Key(pieces(p)[k], lower)
  <2>1. p \in 1 .. n
    BY <1>1
  <2>2. k \in 1 .. Len(pieces(p))
    BY <1>3, <2>1
  <2>3. AllFound(h[n], pieces(p), Len(pieces(p)), p, lower)
    BY <1>7, <2>1
  <2> QED  BY <1>8, <2>2, <2>3 DEF AllFound, FoundBy
<1> QED  BY <1>4, <1>8, <1>9, <1>10 DEF EachTextOnce, Key, pieces
=============================================================================
