---------------------------- MODULE SearchProofs ----------------------------
(* Proofs about a question: Fusion, for any hits, window, RRF_K and boost, *)
(* and Answering, for any library, question, gate and model.               *)
EXTENDS Fusion, Answering, SequenceTheorems, FiniteSetTheorems, TLAPS

(* Fusion: how hits become moments.                                        *)

(* What a hit does to the window it joins.                                 *)
LEMMA SlottedFacts ==
    ASSUME NEW w \in WindowRecord, NEW h \in Hit
    PROVE  /\ Slotted(w, h) \in WindowRecord
           /\ Slotted(w, h).source = w.source
           /\ Slotted(w, h).loc = w.loc
           /\ Slotted(w, h).t = w.t
           /\ Slotted(w, h).frame =
                IF h.modality = "frame" /\ w.frame = Nothing THEN h ELSE w.frame
           /\ Slotted(w, h).text =
                IF h.modality = "text" /\ w.text = Nothing THEN h ELSE w.text
<1>1. h.modality \in {"frame", "text"}
  BY DEF Hit, Modalities
<1>2. CASE h.modality = "frame" /\ w.frame = Nothing
  BY <1>2 DEF Slotted, WindowRecord
<1>3. CASE h.modality = "text" /\ w.text = Nothing
  BY <1>3 DEF Slotted, WindowRecord
<1>4. CASE /\ ~ (h.modality = "frame" /\ w.frame = Nothing)
           /\ ~ (h.modality = "text" /\ w.text = Nothing)
  <2>1. Slotted(w, h) = w
    BY <1>4 DEF Slotted
  <2> QED
    BY <2>1, <1>4
<1> QED
  BY <1>1, <1>2, <1>3, <1>4

LEMMA OpenedFacts ==
    ASSUME NEW h \in Hit
    PROVE  /\ Opened(h) \in WindowRecord
           /\ Opened(h).source = h.source
           /\ Opened(h).loc = h.loc
           /\ Opened(h).t = h.t
           /\ Opened(h).frame = IF h.modality = "frame" THEN h ELSE Nothing
           /\ Opened(h).text = IF h.modality = "text" THEN h ELSE Nothing
  BY DEF Opened, Hit, WindowRecord

LEMMA NothingIsNoHit == Nothing \notin Hit
  BY FusionAssumption DEF Hit, Modalities

LEMMA TimesAreNumbers ==
    /\ \A h \in Hit : h.t \in Int
    /\ \A w \in WindowRecord : w.t \in Int
<1>1. Times \subseteq Int
  BY FusionAssumption
<1>2. \A h \in Hit : h.t \in Times
  BY DEF Hit
<1>3. \A w \in WindowRecord : w.t \in Times
  BY DEF WindowRecord
<1> QED
  BY <1>1, <1>2, <1>3

LEMMA DistanceSymmetric ==
    ASSUME NEW s \in Int, NEW t \in Int
    PROVE  Distance(s, t) = Distance(t, s)
  BY DEF Distance

-----------------------------------------------------------------------------
(* Fusion is type-correct.                                                 *)
THEOREM FusionTypeCorrect == Spec => []TypeOK
<1>1. Init => TypeOK
  <2> SUFFICES ASSUME Init PROVE TypeOK
    OBVIOUS
  <2>1. PICK visual \in Answers({p \in Place : p.loc = NoLocator}),
             text \in Answers({p \in Place : p.loc # NoLocator => p.t = 0}) :
               todo = Ranked(visual, "frame") \union Ranked(text, "text")
    BY DEF Init
  <2>2. PICK n \in 0 .. BranchTopK :
          visual \in [1 .. n -> {p \in Place : p.loc = NoLocator}]
    BY DEF Answers
  <2>3. PICK m \in 0 .. BranchTopK :
          text \in [1 .. m -> {p \in Place : p.loc # NoLocator => p.t = 0}]
    BY DEF Answers
  <2>4. \A h \in Ranked(visual, "frame") :
          h \in Hit /\ h.modality = "frame"
    BY <2>2, FusionAssumption DEF Ranked, Hit, Modalities, Place
  <2>5. \A h \in Ranked(text, "text") :
          h \in Hit /\ h.modality = "text"
    BY <2>3, FusionAssumption DEF Ranked, Hit, Modalities, Place
  <2>6. \A g, h \in Ranked(visual, "frame") : g.rank = h.rank => g = h
    BY <2>2 DEF Ranked, Place
  <2>7. \A g, h \in Ranked(text, "text") : g.rank = h.rank => g = h
    BY <2>3 DEF Ranked, Place
  <2>8. /\ todo \subseteq Hit
        /\ \A g, h \in todo : g.rank = h.rank /\ g.modality = h.modality => g = h
    BY <2>1, <2>4, <2>5, <2>6, <2>7
  <2>9. windows = <<>> /\ moments = <<>> /\ cited = FALSE
    BY DEF Init
  <2>10. /\ windows \in Seq(WindowRecord) /\ DOMAIN windows = {}
         /\ moments \in Seq(WindowRecord)
    BY <2>9
  <2> QED
    BY <2>8, <2>9, <2>10 DEF TypeOK
<1>2. TypeOK /\ [Next]_vars => TypeOK'
  <2> SUFFICES ASSUME TypeOK, [Next]_vars PROVE TypeOK'
    OBVIOUS
  <2> USE DEF TypeOK
  <2>1. CASE Absorb
    <3>1. PICK h \in todo : /\ todo' = todo \ {h}
                            /\ Opens(h) \/ Joins(h)
                            /\ UNCHANGED <<moments, cited>>
      BY <2>1 DEF Absorb
    <3>2. h \in Hit /\ h # Nothing /\ h.modality \in {"frame", "text"}
      BY NothingIsNoHit DEF Hit, Modalities
    <3>3. CASE Opens(h)
      <4>1. windows' = Append(windows, Opened(h)) /\ Opened(h) \in WindowRecord
        BY <3>3, <3>2, OpenedFacts DEF Opens
      <4>2. /\ windows' \in Seq(WindowRecord)
            /\ DOMAIN windows' = 1 .. (Len(windows) + 1)
            /\ \A i \in DOMAIN windows : windows'[i] = windows[i]
            /\ windows'[Len(windows) + 1] = Opened(h)
            /\ DOMAIN windows = 1 .. Len(windows)
        BY <4>1
      <4>3. \A i \in DOMAIN windows' :
              i \in DOMAIN windows \/ windows'[i] = Opened(h)
        BY <4>2
      <4> QED
        BY <3>1, <3>2, <4>2, <4>3, OpenedFacts
    <3>4. CASE Joins(h)
      <4>1. PICK i \in DOMAIN windows :
              windows' = [windows EXCEPT ![i] = Slotted(windows[i], h)]
        BY <3>4 DEF Joins
      <4>2. windows[i] \in WindowRecord
        OBVIOUS
      <4>3. Slotted(windows[i], h) \in WindowRecord
        BY <3>2, <4>2, SlottedFacts
      <4>4. windows' \in Seq(WindowRecord) /\ DOMAIN windows' = DOMAIN windows
        BY <4>1, <4>3
      <4>5. \A j \in DOMAIN windows' :
              windows'[j] = IF j = i THEN Slotted(windows[i], h) ELSE windows[j]
        BY <4>1
      <4>6. /\ Slotted(windows[i], h).frame =
                  IF h.modality = "frame" /\ windows[i].frame = Nothing
                    THEN h ELSE windows[i].frame
            /\ Slotted(windows[i], h).text =
                  IF h.modality = "text" /\ windows[i].text = Nothing
                    THEN h ELSE windows[i].text
        BY <3>2, <4>2, SlottedFacts
      <4> QED
        BY <3>1, <3>2, <4>4, <4>5, <4>6
    <3> QED
      BY <3>1, <3>3, <3>4
  <2>2. CASE Cite
    <3>1. PICK order \in [DOMAIN windows -> DOMAIN windows] :
            moments' = [n \in {m \in DOMAIN windows : m <= TopK} |-> windows[order[n]]]
      BY <2>2 DEF Cite
    <3> DEFINE k == IF Len(windows) < TopK THEN Len(windows) ELSE TopK
    <3>2. Len(windows) \in Nat /\ DOMAIN windows = 1 .. Len(windows)
      OBVIOUS
    <3>3. k \in Nat /\ {m \in DOMAIN windows : m <= TopK} = 1 .. k
      BY <3>2, FusionAssumption
    <3>4. \A n \in 1 .. k : windows[order[n]] \in WindowRecord
      BY <3>3
    <3> HIDE DEF k
    <3>5. moments' \in Seq(WindowRecord)
      <4>1. moments' \in [1 .. k -> WindowRecord]
        BY <3>1, <3>3, <3>4
      <4> QED
        BY <3>3, <4>1, SeqDef
    <3> QED
      BY <2>2, <3>5 DEF Cite
  <2>3. CASE UNCHANGED vars
    BY <2>3 DEF vars
  <2> QED
    BY <2>1, <2>2, <2>3 DEF Next
<1> QED
  BY <1>1, <1>2, PTL DEF Spec

-----------------------------------------------------------------------------
(* The windows of a video are apart, those of a document have locators of  *)
(* their own.  This is inductive with the types alone: a hit that opens a  *)
(* window fits none before it.                                             *)
THEOREM MomentsApartHolds == Spec => []MomentsApart
<1>1. Init => MomentsApart
  BY DEF Init, MomentsApart
<1>2. TypeOK /\ MomentsApart /\ [Next]_vars => MomentsApart'
  <2> SUFFICES ASSUME TypeOK, MomentsApart, [Next]_vars PROVE MomentsApart'
    OBVIOUS
  <2>0. windows \in Seq(WindowRecord) /\ todo \subseteq Hit
    BY DEF TypeOK
  <2>1. CASE Absorb
    <3>1. PICK h \in todo : Opens(h) \/ Joins(h)
      BY <2>1 DEF Absorb
    <3>2. h \in Hit
      BY <2>0, <3>1
    <3>3. CASE Opens(h)
      <4> DEFINE new == Len(windows) + 1
      <4>1. /\ DOMAIN windows' = 1 .. new
            /\ DOMAIN windows = 1 .. Len(windows)
            /\ Len(windows) \in Nat
            /\ \A i \in DOMAIN windows : windows'[i] = windows[i]
            /\ windows'[new] = Opened(h)
        BY <2>0, <3>2, <3>3, OpenedFacts DEF Opens
      <4>2. /\ Opened(h).source = h.source
            /\ Opened(h).loc = h.loc
            /\ Opened(h).t = h.t
        BY <3>2, OpenedFacts
      <4>3. \A i \in DOMAIN windows : windows[i].t \in Int /\ h.t \in Int
        BY <2>0, <3>2, TimesAreNumbers
      <4>4. \A i \in DOMAIN windows :
              windows[i].source = h.source /\ windows[i].loc = h.loc
                => /\ h.loc = NoLocator
                   /\ Distance(windows[i].t, h.t) > Window
                   /\ Distance(h.t, windows[i].t) > Window
        <5> SUFFICES ASSUME NEW i \in DOMAIN windows,
                            windows[i].source = h.source, windows[i].loc = h.loc
                     PROVE  /\ h.loc = NoLocator
                            /\ Distance(windows[i].t, h.t) > Window
                            /\ Distance(h.t, windows[i].t) > Window
          OBVIOUS
        <5>1. ~ Fits(windows[i], h)
          BY <3>3 DEF Opens
        <5>2. h.loc = NoLocator /\ ~ (Distance(windows[i].t, h.t) <= Window)
          BY <5>1 DEF Fits
        <5>3. Distance(windows[i].t, h.t) \in Int
          BY <4>3 DEF Distance
        <5> QED
          BY <4>3, <5>2, <5>3, DistanceSymmetric, FusionAssumption
      <4> HIDE DEF new
      <4>5. \A i \in DOMAIN windows' : i \in DOMAIN windows \/ i = new
        BY <4>1 DEF new
      <4> QED
        BY <4>1, <4>2, <4>4, <4>5 DEF MomentsApart
    <3>4. CASE Joins(h)
      <4>1. PICK i \in DOMAIN windows :
              windows' = [windows EXCEPT ![i] = Slotted(windows[i], h)]
        BY <3>4 DEF Joins
      <4>2. windows[i] \in WindowRecord
        BY <2>0
      <4>3. /\ DOMAIN windows' = DOMAIN windows
            /\ \A j \in DOMAIN windows :
                 /\ windows'[j].source = windows[j].source
                 /\ windows'[j].loc = windows[j].loc
                 /\ windows'[j].t = windows[j].t
        BY <2>0, <3>2, <4>1, <4>2, SlottedFacts
      <4> QED
        BY <4>3 DEF MomentsApart
    <3> QED
      BY <3>1, <3>3, <3>4
  <2>2. CASE Cite \/ UNCHANGED vars
    BY <2>2 DEF Cite, vars, MomentsApart
  <2> QED
    BY <2>1, <2>2 DEF Next
<1> QED
  BY <1>1, <1>2, FusionTypeCorrect, PTL DEF Spec

-----------------------------------------------------------------------------
(* BestOfItsModality is not inductive: that the slot is taken must mean    *)
(* that a better hit has it.  Whatever went into a window came before      *)
(* everything that is still to come.                                       *)
BestFirst ==
    /\ DOMAIN home \subseteq Hit
    /\ \A h \in DOMAIN home : home[h] \in DOMAIN windows
    /\ \A h \in DOMAIN home : \A g \in todo : h.rank <= g.rank
    /\ \A i \in DOMAIN windows :
         /\ windows[i].frame # Nothing => windows[i].frame \in DOMAIN home
         /\ windows[i].text # Nothing => windows[i].text \in DOMAIN home

Slot(w, h) == IF h.modality = "frame" THEN w.frame ELSE w.text

BestInSlot ==
    \A h \in DOMAIN home :
        /\ Fits(windows[home[h]], h)
        /\ Slot(windows[home[h]], h) # Nothing
        /\ Slot(windows[home[h]], h).rank <= h.rank

LEMMA BestInSlotIsBest == BestInSlot <=> BestOfItsModality
  BY DEF BestInSlot, Slot, BestOfItsModality

(* The window of a hit has the best hit of its modality.                   *)
THEOREM BestOfItsModalityHolds == Spec => []BestOfItsModality
<1>1. Init => BestFirst /\ BestInSlot
  BY DEF Init, BestFirst, BestInSlot
<1>2. TypeOK /\ BestFirst /\ BestInSlot /\ [Next]_vars => (BestFirst /\ BestInSlot)'
  <2> SUFFICES ASSUME TypeOK, BestFirst, BestInSlot, [Next]_vars
               PROVE  (BestFirst /\ BestInSlot)'
    OBVIOUS
  <2>0. windows \in Seq(WindowRecord) /\ todo \subseteq Hit
    BY DEF TypeOK
  <2>1. CASE Absorb
    <3>1. PICK h \in todo : /\ \A g \in todo \ {h} : Before(h, g)
                            /\ todo' = todo \ {h}
                            /\ Opens(h) \/ Joins(h)
      BY <2>1 DEF Absorb
    <3>2. /\ h \in Hit /\ h # Nothing
          /\ h.modality \in {"frame", "text"}
          /\ h.rank \in Int
      BY <2>0, <3>1, NothingIsNoHit, FusionAssumption DEF Hit, Modalities
    <3>3. \A g \in Hit : g.rank \in Int
      BY FusionAssumption DEF Hit
    <3>4. \A g \in todo' : h.rank <= g.rank /\ g \in todo
      BY <2>0, <3>1, <3>2, <3>3 DEF Before
    <3>5. \A g \in DOMAIN home : g.rank <= h.rank
      BY <3>1 DEF BestFirst
    <3>6. CASE Opens(h)
      <4> DEFINE new == Len(windows) + 1
      <4>1. /\ DOMAIN windows' = 1 .. new
            /\ DOMAIN windows = 1 .. Len(windows)
            /\ Len(windows) \in Nat
            /\ \A i \in DOMAIN windows : windows'[i] = windows[i]
            /\ windows'[new] = Opened(h)
        BY <2>0, <3>2, <3>6, OpenedFacts DEF Opens
      <4>2. /\ DOMAIN home' = DOMAIN home \union {h}
            /\ home'[h] = new
            /\ \A g \in DOMAIN home : g # h => home'[g] = home[g]
        BY <3>6 DEF Opens
      <4>3. /\ Opened(h).source = h.source
            /\ Opened(h).loc = h.loc
            /\ Opened(h).t = h.t
            /\ Opened(h).frame = IF h.modality = "frame" THEN h ELSE Nothing
            /\ Opened(h).text = IF h.modality = "text" THEN h ELSE Nothing
        BY <3>2, OpenedFacts
      <4>4. new \notin DOMAIN windows /\ new \in DOMAIN windows'
        BY <4>1
      <4> HIDE DEF new
      <4>5. \A i \in DOMAIN windows' : i \in DOMAIN windows \/ i = new
        BY <4>1 DEF new
      <4>6. BestFirst'
        <5>1. \A g \in DOMAIN home' : home'[g] \in DOMAIN windows'
          BY <4>1, <4>2, <4>4 DEF BestFirst, new
        <5>2. \A g \in DOMAIN home' : \A k \in todo' : g.rank <= k.rank
          BY <4>2, <3>4 DEF BestFirst
        <5> QED
          BY <5>1, <5>2, <4>1, <4>2, <4>3, <4>5, <3>2 DEF BestFirst
      <4>7. Fits(Opened(h), h)
        <5>1. h.t \in Int /\ Window \in Nat
          BY <3>2, TimesAreNumbers, FusionAssumption
        <5>2. Distance(h.t, h.t) <= Window
          BY <5>1 DEF Distance
        <5> QED
          BY <4>3, <5>2 DEF Fits
      <4>8. Slot(Opened(h), h) = h
        BY <4>3, <3>2 DEF Slot
      <4>9. BestInSlot'
        <5> SUFFICES ASSUME NEW g \in DOMAIN home'
                     PROVE  /\ Fits(windows'[home'[g]], g)
                            /\ Slot(windows'[home'[g]], g) # Nothing
                            /\ Slot(windows'[home'[g]], g).rank <= g.rank
          BY DEF BestInSlot, Fits, Slot
        <5>1. CASE g = h
          BY <5>1, <4>1, <4>2, <4>7, <4>8, <3>2
        <5>2. CASE g # h
          <6>1. g \in DOMAIN home /\ home'[g] = home[g]
            BY <5>2, <4>2
          <6>2. windows'[home[g]] = windows[home[g]]
            BY <6>1, <4>1 DEF BestFirst
          <6> QED
            BY <6>1, <6>2 DEF BestInSlot
        <5> QED
          BY <5>1, <5>2
      <4> QED
        BY <4>6, <4>9
    <3>7. CASE Joins(h)
      <4>1. PICK i \in DOMAIN windows :
              /\ Fits(windows[i], h)
              /\ windows' = [windows EXCEPT ![i] = Slotted(windows[i], h)]
              /\ home' = [g \in DOMAIN home \union {h} |->
                            IF g = h THEN i ELSE home[g]]
        BY <3>7 DEF Joins
      <4> DEFINE w == windows[i]
                 v == Slotted(windows[i], h)
      <4>2. w \in WindowRecord
        BY <2>0
      <4>3. /\ v.source = w.source /\ v.loc = w.loc /\ v.t = w.t
            /\ v.frame = IF h.modality = "frame" /\ w.frame = Nothing THEN h ELSE w.frame
            /\ v.text = IF h.modality = "text" /\ w.text = Nothing THEN h ELSE w.text
        BY <3>2, <4>2, SlottedFacts
      <4>4. /\ DOMAIN windows' = DOMAIN windows
            /\ windows'[i] = v
            /\ \A j \in DOMAIN windows : j # i => windows'[j] = windows[j]
        BY <2>0, <4>1
      <4> HIDE DEF w, v
      <4>5. BestFirst'
        <5>1. \A g \in DOMAIN home' : home'[g] \in DOMAIN windows' /\ g \in Hit
          BY <3>2, <4>1, <4>4 DEF BestFirst
        <5>2. \A g \in DOMAIN home' : \A k \in todo' : g.rank <= k.rank
          BY <4>1, <3>4 DEF BestFirst
        <5>3. \A j \in DOMAIN windows' :
                /\ windows'[j].frame # Nothing => windows'[j].frame \in DOMAIN home'
                /\ windows'[j].text # Nothing => windows'[j].text \in DOMAIN home'
          BY <4>1, <4>3, <4>4 DEF BestFirst, w
        <5> QED
          BY <5>1, <5>2, <5>3 DEF BestFirst
      <4>6. \A g : Fits(v, g) <=> Fits(w, g)
        BY <4>3 DEF Fits
      <4>7. Slot(v, h) # Nothing /\ Slot(v, h).rank <= h.rank
        <5>1. CASE Slot(w, h) = Nothing
          <6>1. Slot(v, h) = h
            BY <5>1, <4>3, <3>2 DEF Slot
          <6> QED
            BY <6>1, <3>2
        <5>2. CASE Slot(w, h) # Nothing
          <6>1. Slot(v, h) = Slot(w, h)
            BY <5>2, <4>3, <3>2 DEF Slot
          <6>2. Slot(w, h) \in DOMAIN home
            BY <5>2 DEF Slot, BestFirst, w
          <6> QED
            BY <5>2, <6>1, <6>2, <3>5
        <5> QED
          BY <5>1, <5>2
      <4>8. \A g : Slot(w, g) # Nothing => Slot(v, g) = Slot(w, g)
        BY <4>3 DEF Slot
      <4>9. BestInSlot'
        <5> SUFFICES ASSUME NEW g \in DOMAIN home'
                     PROVE  /\ Fits(windows'[home'[g]], g)
                            /\ Slot(windows'[home'[g]], g) # Nothing
                            /\ Slot(windows'[home'[g]], g).rank <= g.rank
          BY DEF BestInSlot, Fits, Slot
        <5>1. CASE g = h
          <6>1. windows'[home'[g]] = v
            BY <5>1, <4>1, <4>4
          <6>2. Fits(v, h)
            BY <4>1, <4>6 DEF w
          <6> QED
            BY <5>1, <6>1, <6>2, <4>7
        <5>2. CASE g # h
          <6>1. g \in DOMAIN home /\ home'[g] = home[g] /\ home[g] \in DOMAIN windows
            BY <5>2, <4>1 DEF BestFirst
          <6>2. /\ Fits(windows[home[g]], g)
                /\ Slot(windows[home[g]], g) # Nothing
                /\ Slot(windows[home[g]], g).rank <= g.rank
            BY <6>1 DEF BestInSlot
          <6>3. CASE home[g] = i
            <7>1. Fits(w, g) /\ Slot(w, g) # Nothing /\ Slot(w, g).rank <= g.rank
              BY <6>2, <6>3 DEF w
            <7>2. windows'[home'[g]] = v
              BY <6>1, <6>3, <4>4
            <7> QED
              BY <7>1, <7>2, <4>6, <4>8
          <6>4. CASE home[g] # i
            BY <6>1, <6>2, <6>4, <4>4
          <6> QED
            BY <6>3, <6>4
        <5> QED
          BY <5>1, <5>2
      <4> QED
        BY <4>5, <4>9
    <3> QED
      BY <3>1, <3>6, <3>7
  <2>2. CASE Cite \/ UNCHANGED vars
    <3>1. UNCHANGED <<todo, windows, home>>
      BY <2>2 DEF Cite, vars
    <3> QED
      BY <3>1 DEF BestFirst, BestInSlot, Fits, Slot
  <2> QED
    BY <2>1, <2>2 DEF Next
<1> QED
  BY <1>1, <1>2, FusionTypeCorrect, BestInSlotIsBest, PTL DEF Spec

-----------------------------------------------------------------------------
(* Agreement of the branches outweighs the best single hit as long as the  *)
(* last ranks of both, boosted, do: 2 * 1.5 / (60 + 19) > 1 / 60.          *)
AgreementOutweighs ==
    2 * Boost[1] * RrfK > Boost[2] * (RrfK + BranchTopK - 1)

LEMMA ProductsGrow ==
    ASSUME NEW a \in Nat, NEW x \in Nat, NEW y \in Nat, x <= y
    PROVE  a * x <= a * y /\ x * a <= y * a /\ a * x \in Nat
  OBVIOUS

LEMMA ProductsGrowStrictly ==
    ASSUME NEW a \in Nat \ {0}, NEW x \in Nat, NEW y \in Nat, x < y
    PROVE  a * x < a * y
  OBVIOUS

(* p, q: what RRF_K + rank is for the two hits that agree; c: for a hit    *)
(* that is alone; m: the most it can be.                                   *)
LEMMA AgreementWins ==
    ASSUME NEW p \in Nat \ {0}, NEW q \in Nat \ {0}, NEW c \in Nat, NEW m \in Nat,
           NEW k \in Nat, NEW b \in Nat, NEW d \in Nat,
           p <= m, q <= m, k <= c, 2 * b * k > d * m
    PROVE  (q + p) * b * c > d * (p * q)
<1>1. ASSUME NEW x \in Nat \ {0}, NEW y \in Nat \ {0}, x <= y, y <= m
      PROVE  (x + y) * b * c > d * (x * y)
  <2>1. d * y <= d * m
    BY <1>1, ProductsGrow
  <2>2. d * y < 2 * (b * k)
    <3>1. 2 * b * k = 2 * (b * k)
      OBVIOUS
    <3>2. d * y \in Nat /\ d * m \in Nat /\ 2 * (b * k) \in Nat
      OBVIOUS
    <3> QED
      BY <2>1, <3>1, <3>2
  <2>3. b * k <= b * c /\ b * k \in Nat /\ b * c \in Nat
    BY ProductsGrow
  <2>4. d * y < 2 * (b * c) /\ d * y \in Nat
    BY <2>2, <2>3
  <2>5. x * (d * y) < x * (2 * (b * c))
    BY <2>3, <2>4, ProductsGrowStrictly
  <2>6. x * (2 * (b * c)) = (2 * x) * (b * c)
    BY <2>3
  <2>7. (2 * x) * (b * c) <= (x + y) * (b * c)
    BY <1>1, <2>3, ProductsGrow
  <2>8. x * (d * y) = d * (x * y)
    OBVIOUS
  <2>9. (x + y) * (b * c) = (x + y) * b * c
    OBVIOUS
  <2>10. /\ d * (x * y) \in Nat /\ (2 * x) * (b * c) \in Nat
         /\ (x + y) * (b * c) \in Nat
    OBVIOUS
  <2> QED
    BY <2>5, <2>6, <2>7, <2>8, <2>9, <2>10
<1>2. CASE p <= q
  BY <1>1, <1>2
<1>3. CASE q <= p
  <2>1. (q + p) * b * c > d * (q * p)
    BY <1>1, <1>3
  <2> QED
    BY <2>1
<1> QED
  BY <1>2, <1>3

LEMMA AgreementIsGreater ==
    ASSUME AgreementOutweighs,
           NEW v \in WindowRecord, Both(v),
           NEW w \in WindowRecord, ~ Both(w)
    PROVE  Greater(Score(v), Score(w)) /\ ~ Greater(Score(w), Score(v))
<1> DEFINE p == RrfK + v.frame.rank
           q == RrfK + v.text.rank
           m == RrfK + BranchTopK - 1
           b == Boost[1]
           d == Boost[2]
<1>1. /\ RrfK \in Nat \ {0} /\ BranchTopK \in Nat
      /\ b \in Nat \ {0} /\ d \in Nat \ {0}
  BY FusionAssumption
<1>2. \A h \in Hit : h.rank \in 0 .. (BranchTopK - 1)
  BY DEF Hit
<1>3. v.frame \in Hit /\ v.text \in Hit
  BY DEF WindowRecord, Both
<1>4. /\ p \in Nat \ {0} /\ p <= m
      /\ q \in Nat \ {0} /\ q <= m
      /\ m \in Nat
  BY <1>1, <1>2, <1>3
<1>5. 2 * b * RrfK > d * m
  BY DEF AgreementOutweighs
<1>6. Score(v) = <<(1 * q + 1 * p) * b, (p * q) * d>>
  BY <1>3, NothingIsNoHit DEF Score, Rrf, Plus, Both
<1> HIDE DEF p, q, m, b, d
<1>7. /\ (q + p) * b > 0 /\ (q + p) * b \in Nat
      /\ (p * q) * d \in Nat
  BY <1>1, <1>4
<1>8. Score(v)[1] = (q + p) * b /\ Score(v)[2] = (p * q) * d
  BY <1>4, <1>6
<1>9. CASE w.frame = Nothing /\ w.text = Nothing
  <2>1. Score(w) = <<0, 1>>
    BY <1>9 DEF Score, Rrf, Plus, Both
  <2> QED
    BY <1>7, <1>8, <2>1 DEF Greater
<1>10. ASSUME NEW h \in Hit, Score(w)[1] = 1, Score(w)[2] = RrfK + h.rank
       PROVE  Greater(Score(v), Score(w)) /\ ~ Greater(Score(w), Score(v))
  <2> DEFINE c == RrfK + h.rank
  <2>1. c \in Nat /\ RrfK <= c
    BY <1>1, <1>2
  <2> HIDE DEF c
  <2>2. (q + p) * b * c > d * (p * q)
    BY <1>1, <1>4, <1>5, <2>1, AgreementWins
  <2>3. d * (p * q) = 1 * ((p * q) * d)
    BY <1>1, <1>4
  <2>4. (q + p) * b * c \in Nat
    BY <1>7, <2>1
  <2>5. Score(v)[1] * Score(w)[2] > Score(w)[1] * Score(v)[2]
    BY <1>8, <1>10, <2>2, <2>3 DEF c
  <2>6. Score(v)[1] * Score(w)[2] \in Nat /\ Score(w)[1] * Score(v)[2] \in Nat
    BY <1>7, <1>8, <1>10, <2>4 DEF c
  <2> QED
    BY <2>5, <2>6 DEF Greater
<1>11. CASE w.frame # Nothing
  <2>1. w.frame \in Hit /\ w.text = Nothing
    BY <1>11 DEF WindowRecord, Both
  <2>2. w.frame.rank \in Nat
    BY <1>2, <2>1
  <2>3. Score(w)[1] = 1 /\ Score(w)[2] = RrfK + w.frame.rank
    BY <1>1, <1>11, <2>1, <2>2 DEF Score, Rrf, Plus, Both
  <2> QED
    BY <1>10, <2>1, <2>3
<1>12. CASE w.text # Nothing
  <2>1. w.text \in Hit /\ w.frame = Nothing
    BY <1>12 DEF WindowRecord, Both
  <2>2. w.text.rank \in Nat
    BY <1>2, <2>1
  <2>3. Score(w)[1] = 1 /\ Score(w)[2] = RrfK + w.text.rank
    BY <1>1, <1>12, <2>1, <2>2 DEF Score, Rrf, Plus, Both
  <2> QED
    BY <1>10, <2>1, <2>3
<1> QED
  BY <1>9, <1>11, <1>12

(* What both branches found is cited before what only one found.           *)
THEOREM AgreementFirstHolds == AgreementOutweighs /\ Spec => []AgreementFirst
<1> SUFFICES ASSUME AgreementOutweighs PROVE Spec => []AgreementFirst
  OBVIOUS
<1>1. Init => AgreementFirst
  BY DEF Init, AgreementFirst
<1>2. TypeOK /\ AgreementFirst /\ [Next]_vars => AgreementFirst'
  <2> SUFFICES ASSUME TypeOK, AgreementFirst, [Next]_vars PROVE AgreementFirst'
    OBVIOUS
  <2>1. CASE Cite
    <3>1. PICK order \in [DOMAIN windows -> DOMAIN windows] :
            /\ \A i, j \in DOMAIN windows : i < j => Outranks(order[i], order[j])
            /\ moments' = [n \in {m \in DOMAIN windows : m <= TopK} |-> windows[order[n]]]
      BY <2>1 DEF Cite
    <3> SUFFICES ASSUME NEW i \in DOMAIN moments', NEW j \in DOMAIN moments',
                        i < j, Both(moments'[j]), ~ Both(moments'[i])
                 PROVE  FALSE
      BY DEF AgreementFirst, Both
    <3>2. /\ i \in DOMAIN windows /\ j \in DOMAIN windows
          /\ order[i] \in DOMAIN windows /\ order[j] \in DOMAIN windows
          /\ moments'[i] = windows[order[i]] /\ moments'[j] = windows[order[j]]
      BY <3>1
    <3>3. windows[order[i]] \in WindowRecord /\ windows[order[j]] \in WindowRecord
      BY <3>2 DEF TypeOK
    <3>4. Outranks(order[i], order[j])
      BY <3>1, <3>2
    <3>5. /\ Greater(Score(windows[order[j]]), Score(windows[order[i]]))
          /\ ~ Greater(Score(windows[order[i]]), Score(windows[order[j]]))
      BY <3>2, <3>3, AgreementIsGreater
    <3> QED
      BY <3>4, <3>5 DEF Outranks
  <2>2. CASE Absorb \/ UNCHANGED vars
    <3>1. UNCHANGED moments
      BY <2>2 DEF Absorb, vars
    <3> QED
      BY <3>1 DEF AgreementFirst, Both
  <2> QED
    BY <2>1, <2>2 DEF Next
<1> QED
  BY <1>1, <1>2, FusionTypeCorrect, PTL DEF Spec
-----------------------------------------------------------------------------
(* No window is there twice: two of one place would not be apart.          *)
LEMMA WindowsDiffer ==
    ASSUME TypeOK, MomentsApart,
           NEW i \in DOMAIN windows, NEW j \in DOMAIN windows, i # j
    PROVE  windows[i] # windows[j]
<1> SUFFICES ASSUME windows[i] = windows[j] PROVE FALSE
  OBVIOUS
<1>1. windows[i] \in WindowRecord /\ windows[i].t \in Int
  BY TimesAreNumbers DEF TypeOK
<1>2. Distance(windows[i].t, windows[j].t) = 0
  BY <1>1 DEF Distance
<1>3. Distance(windows[i].t, windows[j].t) > Window
  BY DEF MomentsApart
<1> QED  BY <1>2, <1>3, FusionAssumption

LEMMA GreaterIsOneWay ==
    ASSUME NEW v \in WindowRecord, NEW w \in WindowRecord,
           Greater(Score(v), Score(w))
    PROVE  ~ Greater(Score(w), Score(v))
<1>1. \A h \in Hit \union {Nothing} :
        /\ Rrf(h)[1] \in Nat /\ Rrf(h)[2] \in Nat
        /\ Rrf(h) = <<Rrf(h)[1], Rrf(h)[2]>>
  <2> TAKE h \in Hit \union {Nothing}
  <2>1. CASE h = Nothing
    BY <2>1 DEF Rrf
  <2>2. CASE h # Nothing
    <3>1. h.rank \in Nat /\ RrfK \in Nat
      BY <2>2, FusionAssumption DEF Hit
    <3> QED  BY <2>2, <3>1 DEF Rrf
  <2> QED  BY <2>1, <2>2
<1>2. ASSUME NEW x \in WindowRecord
      PROVE  Score(x)[1] \in Nat /\ Score(x)[2] \in Nat
  <2> DEFINE sum == Plus(Rrf(x.frame), Rrf(x.text))
  <2>1. x.frame \in Hit \union {Nothing} /\ x.text \in Hit \union {Nothing}
    BY DEF WindowRecord
  <2>2. sum[1] \in Nat /\ sum[2] \in Nat
    BY <1>1, <2>1 DEF Plus
  <2>3. Boost[1] \in Nat /\ Boost[2] \in Nat
    BY FusionAssumption
  <2> HIDE DEF sum
  <2>4. sum[1] * Boost[1] \in Nat /\ sum[2] * Boost[2] \in Nat
    BY <2>2, <2>3
  <2>5. Score(x) = IF Both(x) THEN <<sum[1] * Boost[1], sum[2] * Boost[2]>>
                   ELSE sum
    BY DEF Score, sum
  <2> QED  BY <2>2, <2>4, <2>5
<1>3. /\ Score(v)[1] * Score(w)[2] \in Nat
      /\ Score(w)[1] * Score(v)[2] \in Nat
  BY <1>2
<1> QED  BY <1>3 DEF Greater

(* One that outranks another is worth no less, and no window outranks      *)
(* itself.                                                                 *)
LEMMA OutranksFacts ==
    ASSUME TypeOK, NEW i \in DOMAIN windows, NEW j \in DOMAIN windows,
           Outranks(i, j)
    PROVE  i # j /\ ~ Greater(Score(windows[j]), Score(windows[i]))
<1>1. windows[i] \in WindowRecord /\ windows[j] \in WindowRecord
  BY DEF TypeOK
<1>2. i \in Int /\ j \in Int
  BY DEF TypeOK
<1>3. CASE Greater(Score(windows[i]), Score(windows[j]))
  BY <1>1, <1>3, GreaterIsOneWay
<1>4. CASE i < j /\ ~ Greater(Score(windows[j]), Score(windows[i]))
  BY <1>2, <1>4
<1> QED  BY <1>3, <1>4 DEF Outranks

(* What is sorted is a permutation: every window has its turn.             *)
LEMMA EachHasItsTurn ==
    ASSUME TypeOK, NEW order \in [DOMAIN windows -> DOMAIN windows],
           \A i, j \in DOMAIN windows : i < j => Outranks(order[i], order[j])
    PROVE  /\ \A i, j \in DOMAIN windows : i # j => order[i] # order[j]
           /\ \A k \in DOMAIN windows : \E n \in DOMAIN windows : order[n] = k
<1> DEFINE D == DOMAIN windows
<1>1. D = 1 .. Len(windows) /\ Len(windows) \in Nat
  BY DEF TypeOK
<1>2. ASSUME NEW i \in D, NEW j \in D, i # j PROVE order[i] # order[j]
  <2>1. i < j \/ j < i
    BY <1>1, <1>2
  <2> QED  BY <2>1, OutranksFacts
<1>3. IsFiniteSet(D)
  BY <1>1, FS_Interval
<1>4. order \in Injection(D, D)
  BY <1>2 DEF Injection, IsInjective
<1>5. order \in Surjection(D, D)
  <2> HIDE DEF D
  <2> QED  BY <1>3, <1>4, FS_Injection
<1> QED  BY <1>2, <1>5 DEF Surjection

(* rag/search.py, retrieve: what is cited are the best TOP_K moments, best *)
(* first, none twice; and nothing is cited while a hit has not had its     *)
(* turn.                                                                   *)
THEOREM TheBestAreCitedHolds == Spec => []TheBestAreCited
<1> DEFINE Inv == TheBestAreCited /\ (cited => todo = {})
<1>1. Init => Inv
  BY DEF Init, TheBestAreCited
<1>2. TypeOK /\ TypeOK' /\ MomentsApart /\ Inv /\ [Next]_vars => Inv'
  <2> SUFFICES ASSUME TypeOK, TypeOK', MomentsApart, Inv, [Next]_vars
               PROVE  Inv'
    OBVIOUS
  <2>1. CASE Absorb
    <3>1. ~ cited /\ UNCHANGED cited
      BY <2>1 DEF Absorb
    <3> QED  BY <3>1 DEF TheBestAreCited
  <2>2. CASE Cite
    <3> DEFINE D == DOMAIN windows
    <3>1. PICK order \in [D -> D] :
            /\ \A i, j \in D : i < j => Outranks(order[i], order[j])
            /\ moments' = [n \in {m \in D : m <= TopK} |-> windows[order[n]]]
      BY <2>2 DEF Cite
    <3>2. /\ \A i, j \in D : i # j => order[i] # order[j]
          /\ \A k \in D : \E n \in D : order[n] = k
      BY <3>1, EachHasItsTurn
    <3>3. /\ windows' = windows /\ todo' = {} /\ cited'
      BY <2>2 DEF Cite
    <3>4. /\ D = 1 .. Len(windows) /\ Len(windows) \in Nat
          /\ TopK \in Nat \ {0}
      BY FusionAssumption DEF TypeOK
    <3>5. /\ DOMAIN moments' = {m \in D : m <= TopK}
          /\ \A n \in DOMAIN moments' : moments'[n] = windows[order[n]]
      BY <3>1
    <3>6. ASSUME NEW m \in DOMAIN moments', NEW n \in DOMAIN moments', m < n
          PROVE  /\ moments'[m] # moments'[n]
                 /\ ~ Greater(Score(moments'[n]), Score(moments'[m]))
      <4>1. m \in D /\ n \in D /\ order[m] \in D /\ order[n] \in D
        BY <3>1, <3>5
      <4>2. Outranks(order[m], order[n])
        BY <3>1, <3>6, <4>1
      <4>3. order[m] # order[n]
            /\ ~ Greater(Score(windows[order[n]]), Score(windows[order[m]]))
        BY <4>1, <4>2, OutranksFacts
      <4> QED  BY <3>5, <3>6, <4>1, <4>3, WindowsDiffer
    <3>7. ASSUME NEW k \in D, \A n \in DOMAIN moments' : moments'[n] # windows[k]
          PROVE  /\ Len(moments') = TopK
                 /\ \A n \in DOMAIN moments' :
                      ~ Greater(Score(windows[k]), Score(moments'[n]))
      <4>1. PICK last \in D : order[last] = k
        BY <3>2
      <4>2. last > TopK
        BY <3>4, <3>5, <3>7, <4>1
      <4>3. DOMAIN moments' = 1 .. TopK
        BY <3>4, <3>5, <4>1, <4>2
      <4>4. Len(moments') = TopK
        <5>1. /\ DOMAIN moments' = 1 .. Len(moments')
              /\ Len(moments') \in Nat
          BY DEF TypeOK
        <5> QED  BY <3>4, <4>3, <5>1
      <4>5. ASSUME NEW n \in DOMAIN moments'
            PROVE  ~ Greater(Score(windows[k]), Score(moments'[n]))
        <5>1. n \in D /\ n < last /\ order[n] \in D
          BY <3>1, <3>4, <3>5, <4>1, <4>2, <4>3
        <5>2. Outranks(order[n], k)
          BY <3>1, <4>1, <5>1
        <5> QED  BY <3>5, <5>1, <5>2, OutranksFacts
      <4> QED  BY <4>4, <4>5
    <3>8. ASSUME NEW w \in {windows'[i] : i \in DOMAIN windows'},
                 \A n \in DOMAIN moments' : moments'[n] # w
          PROVE  /\ Len(moments') = TopK
                 /\ \A n \in DOMAIN moments' :
                      ~ Greater(Score(w), Score(moments'[n]))
      BY <3>3, <3>7, <3>8
    <3> QED  BY <3>3, <3>6, <3>8 DEF TheBestAreCited
  <2>3. CASE UNCHANGED vars
    BY <2>3 DEF vars, TheBestAreCited
  <2> QED  BY <2>1, <2>2, <2>3 DEF Next
<1> QED
  BY <1>1, <1>2, FusionTypeCorrect, MomentsApartHolds, PTL DEF Spec

-----------------------------------------------------------------------------

(* Answering: what a question may cite, and what of it is answered.        *)

(* What a delete and a rerun do to a source, and what is true of a source  *)
(* that was gone when the question came: unless its purge was lost, it has *)
(* no points, and gets none.                                               *)
WorldInv ==
    /\ points \in [Branches -> SUBSET Library]
    /\ rows \subseteq Library /\ rerunning \subseteq Library
    /\ deleting \in [Library -> {None, "frames", "row", "done"}]
    /\ gone \subseteq Library \ rows
    /\ \A s \in Library :
         /\ s \in rerunning => deleting[s] = None
         /\ s \notin rows => deleting[s] = "done"
         /\ deleting[s] # None =>
                s \in lost \/ \A b \in Branches : s \notin points[b]

(* What was found, and what is cited of it.                                *)
MayCite(s) == InScope(s) /\ s \notin gone \ lost

FoundInv ==
    /\ found \in [Branches -> SUBSET Library]
    /\ \A b \in Branches : \A s \in found[b] : MayCite(s)
    /\ step = "idle" => \A b \in Branches : found[b] = {}

CitesInv ==
    /\ \E n \in 0 .. Shown :
         cites \in [1 .. n -> [source : Library, known : BOOLEAN]]
    /\ \A i \in DOMAIN cites : MayCite(cites[i].source)
    /\ step \in {"idle", "visual", "text", "join"} => cites = <<>>

LEMMA WorldInit == AskInit => WorldInv /\ FoundInv /\ CitesInv
<1> SUFFICES ASSUME AskInit PROVE WorldInv /\ FoundInv /\ CitesInv
  OBVIOUS
<1>1. WorldInv
  BY DEF AskInit, WorldInv, None
<1>2. FoundInv
  BY DEF AskInit, FoundInv
<1>3. cites \in [1 .. 0 -> [source : Library, known : BOOLEAN]]
  BY DEF AskInit
<1>4. CitesInv
  BY <1>3, AskConfigAssumption DEF AskInit, CitesInv
<1> QED  BY <1>1, <1>2, <1>4

(* A step that leaves the question and its answer alone.                   *)
LEMMA AnswerStays ==
    ASSUME UNCHANGED answerVars, lost \subseteq lost', FoundInv, CitesInv
    PROVE  FoundInv' /\ CitesInv'
BY DEF answerVars, FoundInv, CitesInv, MayCite, InScope

(* A step of the question.                                                 *)
LEMMA WorldStays ==
    ASSUME UNCHANGED <<worldVars, gone>>, WorldInv
    PROVE  WorldInv'
BY DEF worldVars, WorldInv

LEMMA WorldStep ==
    ASSUME WorldInv, FoundInv, CitesInv, NEW s \in Disturbed,
           \/ DeletePoints(s) \/ DeleteFrames(s) \/ DeleteRow(s)
           \/ Rerun(s) \/ Upsert(s)
    PROVE  WorldInv' /\ FoundInv' /\ CitesInv'
<1>0. s \in Library
  BY LibraryAssumption
<1>1. UNCHANGED answerVars /\ lost \subseteq lost'
  BY DEF DeletePoints, DeleteFrames, DeleteRow, Rerun, Upsert
<1>2. FoundInv' /\ CitesInv'
  BY <1>1, AnswerStays
<1>3. gone' = gone
  BY <1>1 DEF answerVars
<1>4. CASE DeletePoints(s)
  <2>1. /\ points' \in [Branches -> SUBSET Library]
        /\ \A b \in Branches : points'[b] \subseteq points[b]
        /\ s \in lost' \/ \A b \in Branches : s \notin points'[b]
    BY <1>4 DEF DeletePoints, WorldInv
  <2> QED  BY <1>0, <1>1, <1>2, <1>3, <1>4, <2>1
           DEF DeletePoints, WorldInv, None
<1>5. CASE DeleteFrames(s) \/ DeleteRow(s)
  <2>1. \A x \in Library : deleting'[x] # None => deleting[x] # None
    BY <1>0, <1>5 DEF DeleteFrames, DeleteRow, WorldInv, None
  <2>2. \A x \in Library : x \in rerunning => deleting'[x] = None
    BY <2>1, <1>0, <1>5 DEF DeleteFrames, DeleteRow, WorldInv, None
  <2>3. \A x \in Library : x \notin rows' => deleting'[x] = "done"
    BY <1>0, <1>5 DEF DeleteFrames, DeleteRow, WorldInv, None
  <2>4. deleting' \in [Library -> {None, "frames", "row", "done"}]
    BY <1>5 DEF DeleteFrames, DeleteRow, WorldInv
  <2> QED  BY <1>2, <1>3, <1>5, <2>1, <2>2, <2>3, <2>4
           DEF DeleteFrames, DeleteRow, WorldInv
<1>6. CASE Rerun(s)
  <2>1. points' \in [Branches -> SUBSET Library]
        /\ \A b \in Branches : points'[b] \subseteq points[b]
    BY <1>6 DEF Rerun, WorldInv
  <2> QED  BY <1>0, <1>2, <1>3, <1>6, <2>1 DEF Rerun, WorldInv
<1>7. CASE Upsert(s)
  <2>1. points' \in [Branches -> SUBSET Library]
        /\ \A b \in Branches : points'[b] \subseteq points[b] \union {s}
    BY <1>0, <1>7 DEF Upsert, WorldInv, Branches
  <2>2. rerunning' \subseteq rerunning /\ deleting[s] = None
    BY <1>0, <1>7 DEF Upsert, WorldInv
  <2> QED  BY <1>2, <1>3, <1>7, <2>1, <2>2 DEF Upsert, WorldInv
<1> QED  BY <1>4, <1>5, <1>6, <1>7

(* The sources found, in some order: finitely many, each of them found.    *)
LEMMA JoinCites ==
    ASSUME FoundInv, Join
    PROVE  /\ \E n \in 0 .. Shown :
                cites' \in [1 .. n -> [source : Library, known : BOOLEAN]]
           /\ \A i \in DOMAIN cites' :
                cites'[i].source \in found["visual"] \union found["text"]
<1> DEFINE S == found["visual"] \union found["text"]
<1>1. S \subseteq Library /\ IsFiniteSet(S) /\ Cardinality(S) \in Nat
  BY LibraryAssumption, FS_Subset, FS_CardinalityType DEF FoundInv, Branches
<1> DEFINE n == Cardinality(S)
           m == IF n <= Shown THEN n ELSE Shown
<1>2. m \in 0 .. Shown /\ \A j \in 1 .. n : j <= Shown <=> j \in 1 .. m
  BY <1>1, AskConfigAssumption
<1>3. PICK q \in [1 .. n -> S] :
        cites' = [i \in {j \in DOMAIN q : j <= Shown} |-> WithRow(q[i])]
  BY DEF Join, Orders
<1>4. {j \in DOMAIN q : j <= Shown} = 1 .. m
  BY <1>1, <1>2, <1>3, AskConfigAssumption
<1>5. \A i \in 1 .. m : q[i] \in S
  <2>1. \A i \in 1 .. m : i \in 1 .. n
    BY <1>1, AskConfigAssumption
  <2> QED  BY <1>3, <2>1
<1>6. cites' = [i \in 1 .. m |-> WithRow(q[i])]
  BY <1>3, <1>4
<1>7. \A x \in S : WithRow(x) \in [source : Library, known : BOOLEAN]
                  /\ WithRow(x).source = x
  BY <1>1 DEF WithRow
<1> HIDE DEF S, m
<1> QED  BY <1>2, <1>5, <1>6, <1>7 DEF S

LEMMA AnswerStep ==
    ASSUME WorldInv, FoundInv, CitesInv, Answer
    PROVE  WorldInv' /\ FoundInv' /\ CitesInv'
<1>1. CASE Ask
  <2>1. step = "idle" /\ cites = <<>> /\ \A b \in Branches : found[b] = {}
    BY <1>1 DEF Ask, FoundInv, CitesInv
  <2>2. WorldInv'
    BY <1>1 DEF Ask, worldVars, WorldInv
  <2>3. FoundInv'
    BY <1>1, <2>1 DEF Ask, FoundInv
  <2>4. CitesInv'
    BY <1>1, <2>1 DEF Ask, CitesInv
  <2> QED  BY <2>2, <2>3, <2>4
<1>2. ASSUME NEW b \in Branches, NEW next \in {"text", "join"},
             Search(b, next)
      PROVE  WorldInv' /\ FoundInv' /\ CitesInv'
  <2>1. WorldInv'
    BY <1>2, WorldStays DEF Search
  <2>2. \A s \in Hits(b) : s \in points[b] /\ InScope(s)
    BY DEF Hits
  <2>3. \A s \in Hits(b) : s \in Library /\ MayCite(s)
    BY <2>2 DEF WorldInv, MayCite, None
  <2>4. step' \in {"text", "join", "failed"}
    BY <1>2 DEF Search
  <2>5. \/ found' = [found EXCEPT ![b] = Hits(b)]
        \/ found' = found
    BY <1>2 DEF Search
  <2>6. found' \in [Branches -> SUBSET Library]
        /\ \A x \in Branches : found'[x] \subseteq found[x] \union Hits(b)
    BY <2>3, <2>5 DEF FoundInv
  <2>7. \A s : MayCite(s) => MayCite(s)'
    BY <1>2 DEF Search, worldVars, MayCite, InScope
  <2>8. FoundInv'
    BY <2>3, <2>4, <2>6, <2>7 DEF FoundInv
  <2>9. CitesInv'
    BY <1>2, <2>7 DEF Search, CitesInv, Branches
  <2> QED  BY <2>1, <2>8, <2>9
<1>3. CASE Join
  <2>1. WorldInv'
    BY <1>3, WorldStays DEF Join
  <2>2. \A s : MayCite(s) => MayCite(s)'
    BY <1>3 DEF Join, worldVars, MayCite, InScope
  <2>3. FoundInv'
    BY <1>3, <2>2 DEF Join, AfterRetrieval, FoundInv
  <2>4. \A s \in found["visual"] \union found["text"] : MayCite(s)'
    BY <2>2 DEF FoundInv, Branches
  <2>5. step' \in {"gate", "retrieved"}
    BY <1>3 DEF Join, AfterRetrieval
  <2>6. CitesInv'
    BY <1>3, <2>4, <2>5, JoinCites DEF CitesInv
  <2> QED  BY <2>1, <2>3, <2>6
<1>4. CASE \/ Gate \/ ResolveModel \/ Generate
           \/ \E i \in 1 .. Shown : ReadFrame(i)
  <2>1. UNCHANGED <<worldVars, gone, request, found, cites>>
    BY <1>4 DEF Gate, ResolveModel, Generate, ReadFrame
  <2>2. step' \notin {"idle", "visual", "text", "join"}
    BY <1>4 DEF Gate, ResolveModel, Generate, ReadFrame
  <2>3. WorldInv'
    BY <2>1, WorldStays
  <2> QED  BY <2>1, <2>2, <2>3
           DEF worldVars, FoundInv, CitesInv, MayCite, InScope
<1> QED  BY <1>1, <1>2, <1>3, <1>4 DEF Answer, Branches

LEMMA CitesStep ==
    WorldInv /\ FoundInv /\ CitesInv /\ [AskNext]_askVars
      => WorldInv' /\ FoundInv' /\ CitesInv'
<1> SUFFICES ASSUME WorldInv, FoundInv, CitesInv, [AskNext]_askVars
             PROVE  WorldInv' /\ FoundInv' /\ CitesInv'
  OBVIOUS
<1>1. CASE Answer
  BY <1>1, AnswerStep
<1>2. CASE Meanwhile
  <2>1. CASE PutModel \/ DeleteModel
    <3>1. UNCHANGED <<points, rows, deleting, rerunning, lost, answerVars>>
      BY <2>1 DEF PutModel, DeleteModel
    <3>2. WorldInv'
      BY <3>1 DEF WorldInv, answerVars
    <3> QED  BY <3>1, <3>2, AnswerStays
  <2> QED  BY <1>2, <2>1, WorldStep DEF Meanwhile
<1>3. CASE UNCHANGED askVars
  BY <1>3, AnswerStays, WorldStays DEF askVars, worldVars, answerVars
<1> QED  BY <1>1, <1>2, <1>3 DEF AskNext

(* An answer cites sources of the tenant, of those selected, and none that *)
(* was deleted before the question, whatever is deleted, ingested again or *)
(* set meanwhile.                                                          *)
THEOREM CitesTheirOwnHolds == AskSpec => []CitesTheirOwn
<1>1. CitesInv => CitesTheirOwn
  <2> SUFFICES ASSUME CitesInv, NEW i \in DOMAIN cites, NEW s,
                      s = cites[i].source
               PROVE  /\ OwnerOf[s] = request.uid
                      /\ request.video_id \in {s, None}
                      /\ request.video_id = None /\ request.video_ids # {}
                           => s \in request.video_ids
                      /\ s \notin gone \ lost
    BY DEF CitesTheirOwn
  <2>1. s \in Library /\ s # None
    BY LibraryAssumption DEF CitesInv
  <2>2. MayCite(s)
    BY DEF CitesInv
  <2> QED  BY <2>1, <2>2 DEF MayCite, InScope
<1> QED  BY <1>1, WorldInit, CitesStep, PTL DEF AskSpec
-----------------------------------------------------------------------------
(* Grounded is about the other end of the request.  Inductive with it: the *)
(* gate was passed, a frame is read for each citation and from its source, *)
(* and no answer is given before all are read.                             *)
PastGate == {"model", "frames", "generate", "answered", "fallback"}

GateInv == step \in PastGate => (GateOn => strong # {})

EvidenceInv ==
    step \in {"frames", "generate", "answered", "fallback"} =>
        /\ evidence \in [DOMAIN cites -> Library \union {None, "unread"}]
        /\ \A i \in DOMAIN cites :
             evidence[i] \in {cites[i].source, None, "unread"}
        /\ step \in {"generate", "answered"} =>
             \A i \in DOMAIN cites : evidence[i] # "unread"
        /\ step = "fallback" => model = None

RefsInv ==
    /\ refs # {} => step \in {"answered", "fallback"}
    /\ refs \subseteq DOMAIN cites

GroundInv == CitesInv /\ GateInv /\ EvidenceInv /\ RefsInv

LEMMA GroundStep ==
    ASSUME GroundInv, CitesInv', FoundInv, AskNext
    PROVE  GroundInv'
<1>0. PICK n \in 0 .. Shown :
        cites \in [1 .. n -> [source : Library, known : BOOLEAN]]
  BY DEF GroundInv, CitesInv
<1>1. CASE Ask \/ Search("visual", "text") \/ Search("text", "join") \/ Join
  <2>1. step \in {"idle", "visual", "text", "join"}
        /\ step' \notin PastGate
    BY <1>1 DEF Ask, Search, Join, AfterRetrieval, PastGate
  <2>2. refs = {} /\ refs' = refs
    BY <1>1, <2>1 DEF Ask, Search, Join, GroundInv, RefsInv
  <2> QED  BY <2>1, <2>2
           DEF GroundInv, GateInv, EvidenceInv, RefsInv, PastGate
<1>2. CASE Gate
  BY <1>2 DEF Gate, Confident, GroundInv, GateInv, EvidenceInv, RefsInv, PastGate
<1>3. CASE ResolveModel
  <2>1. evidence' = [i \in DOMAIN cites |-> "unread"]
        /\ UNCHANGED <<cites, strong>>
    BY <1>3 DEF ResolveModel
  <2>2. GateInv'
    BY <1>3, <2>1 DEF ResolveModel, GroundInv, GateInv, PastGate
  <2>3. EvidenceInv'
    BY <1>3, <2>1 DEF ResolveModel, EvidenceInv
  <2>4. RefsInv'
    BY <1>3, <2>1 DEF ResolveModel, RefsInv, Closest
  <2> QED  BY <2>2, <2>3, <2>4 DEF GroundInv
<1>4. ASSUME NEW i \in 1 .. Shown, ReadFrame(i) PROVE GroundInv'
  <2>1. /\ step = "frames" /\ i \in DOMAIN cites
        /\ evidence' = [evidence EXCEPT ![i] = FrameOf(cites[i].source)]
        /\ step' \in {"frames", "generate"}
        /\ step' = "generate" =>
             \A j \in DOMAIN evidence : evidence'[j] # "unread"
        /\ UNCHANGED <<cites, strong, refs>>
    BY <1>4 DEF ReadFrame, GroundInv, EvidenceInv
  <2>2. evidence \in [DOMAIN cites -> Library \union {None, "unread"}]
    BY <2>1 DEF GroundInv, EvidenceInv
  <2>3. FrameOf(cites[i].source) \in {cites[i].source, None}
        /\ cites[i].source \in Library
    BY <1>0, <2>1 DEF FrameOf
  <2>4. EvidenceInv'
    BY <2>1, <2>2, <2>3 DEF GroundInv, EvidenceInv
  <2> QED  BY <2>1, <2>4 DEF GroundInv, GateInv, RefsInv, PastGate
<1>5. CASE Generate
  <2>1. evidence \in [1 .. n -> Library \union {None, "unread"}]
    BY <1>0, <1>5 DEF Generate, GroundInv, EvidenceInv
  <2>2. Len(evidence) = n /\ DOMAIN cites = 1 .. n
    BY <1>0, <2>1, AskConfigAssumption
  <2>3. refs = {} /\ UNCHANGED <<cites, strong, evidence>>
    BY <1>5 DEF Generate, GroundInv, RefsInv
  <2>4. step' = "failed" => refs' = {}
    BY <1>5, <2>3 DEF Generate
  <2>5. refs' \subseteq 1 .. n
    <3>1. \A numbers \in Replies : Valid(numbers, n) \subseteq 1 .. n
      <4>1. \A numbers \in Replies : \A x \in numbers : x \in Int
        BY AskConfigAssumption DEF Replies
      <4> QED  BY <4>1 DEF Valid
    <3> QED  BY <1>5, <2>2, <2>3, <3>1 DEF Generate
  <2>6. RefsInv'
    BY <1>5, <2>2, <2>3, <2>4, <2>5 DEF Generate, RefsInv
  <2>7. GateInv' /\ EvidenceInv'
    BY <1>5, <2>3 DEF Generate, GroundInv, GateInv, EvidenceInv, PastGate
  <2> QED  BY <2>6, <2>7 DEF GroundInv
<1>6. CASE Meanwhile
  <2>1. UNCHANGED answerVars
    BY <1>6 DEF Meanwhile, DeletePoints, DeleteFrames, DeleteRow, Rerun,
                Upsert, PutModel, DeleteModel
  <2> QED  BY <2>1 DEF answerVars, GroundInv, GateInv, EvidenceInv, RefsInv
<1> QED  BY <1>1, <1>2, <1>3, <1>4, <1>5, <1>6 DEF AskNext, Answer

LEMMA GroundAlways ==
    /\ AskInit => GroundInv
    /\ GroundInv /\ FoundInv /\ CitesInv' /\ [AskNext]_askVars => GroundInv'
<1>1. AskInit => GroundInv
  BY WorldInit, AskConfigAssumption
     DEF AskInit, GroundInv, GateInv, EvidenceInv, RefsInv, PastGate
<1>2. GroundInv /\ FoundInv /\ CitesInv' /\ [AskNext]_askVars => GroundInv'
  BY GroundStep
     DEF askVars, answerVars, GroundInv, GateInv, EvidenceInv, RefsInv
<1> QED  BY <1>1, <1>2

(* `Generated answers get their [n] citations validated', and the gate     *)
(* abstains without a model: for any question, whatever happens meanwhile. *)
THEOREM GroundedHolds == AskSpec => []Grounded
<1>1. GroundInv => Grounded
  BY DEF GroundInv, GateInv, EvidenceInv, RefsInv, Grounded, PastGate
<1> QED
  BY <1>1, GroundAlways, WorldInit, CitesStep, PTL DEF AskSpec
-----------------------------------------------------------------------------
(* What AskTypeOK says beyond the invariants above.                        *)
RestOK ==
    /\ frames \subseteq Library /\ lost \subseteq Library
    /\ ownModel \in BOOLEAN /\ request \in Requests
    /\ step \in {"idle", "visual", "text", "join", "gate", "model", "frames",
                 "generate"} \union Ended
    /\ strong \subseteq Branches /\ model \in {"user", "server", None}
    /\ \A i \in DOMAIN evidence :
         evidence[i] \in Library \union {None, "unread"}

LEMMA RestStep ==
    ASSUME RestOK, WorldInv, CitesInv, EvidenceInv, AskNext
    PROVE  RestOK'
<1>1. CASE Answer
  <2>1. UNCHANGED <<frames, lost, ownModel, request>>
    BY <1>1 DEF Answer, Ask, Search, Join, Gate, ResolveModel, ReadFrame,
                Generate, worldVars
  <2>2. step' \in {"idle", "visual", "text", "join", "gate", "model",
                   "frames", "generate"} \union Ended
    BY <1>1 DEF Answer, Ask, Search, Join, AfterRetrieval, Gate,
                ResolveModel, ReadFrame, Generate, Ended
  <2>3. strong' \subseteq Branches
    BY <1>1 DEF Answer, Ask, Search, Join, Gate, ResolveModel, ReadFrame,
                Generate, RestOK, Branches
  <2>4. model' \in {"user", "server", None}
    BY <1>1 DEF Answer, Ask, Search, Join, Gate, ResolveModel, ReadFrame,
                Generate, RestOK, ModelNow
  <2>5. \A i \in DOMAIN evidence' :
          evidence'[i] \in Library \union {None, "unread"}
    <3>1. CASE ResolveModel
      BY <3>1 DEF ResolveModel
    <3>2. ASSUME NEW i \in 1 .. Shown, ReadFrame(i)
          PROVE  \A j \in DOMAIN evidence' :
                   evidence'[j] \in Library \union {None, "unread"}
      <4>1. /\ i \in DOMAIN cites
            /\ evidence' = [evidence EXCEPT ![i] = FrameOf(cites[i].source)]
        BY <3>2 DEF ReadFrame, EvidenceInv
      <4>2. FrameOf(cites[i].source) \in Library \union {None}
        BY <4>1 DEF CitesInv, FrameOf
      <4> QED  BY <4>1, <4>2 DEF RestOK
    <3>3. CASE UNCHANGED evidence
      BY <3>3 DEF RestOK
    <3> QED  BY <1>1, <3>1, <3>2, <3>3
             DEF Answer, Ask, Search, Join, Gate, Generate
  <2> QED  BY <2>1, <2>2, <2>3, <2>4, <2>5 DEF RestOK
<1>2. CASE Meanwhile
  <2>1. UNCHANGED answerVars /\ frames' \subseteq Library
        /\ lost' \subseteq Library /\ ownModel' \in BOOLEAN
    BY <1>2, LibraryAssumption
       DEF Meanwhile, DeletePoints, DeleteFrames, DeleteRow, Rerun, Upsert,
           PutModel, DeleteModel, RestOK
  <2> QED  BY <2>1 DEF RestOK, answerVars
<1> QED  BY <1>1, <1>2 DEF AskNext

(* AskTypeOK, for any library and question: there are TOP_K citations at   *)
(* most, and they and the frames are of sources in the library.            *)
THEOREM AskTypeCorrect == AskSpec => []AskTypeOK
<1>1. AskInit => RestOK
  BY LibraryAssumption DEF AskInit, RestOK, Branches
<1>2. RestOK /\ WorldInv /\ GroundInv /\ [AskNext]_askVars => RestOK'
  BY RestStep DEF askVars, worldVars, answerVars, GroundInv, RestOK
<1>3. WorldInv /\ FoundInv /\ GroundInv /\ RestOK => AskTypeOK
  <2> SUFFICES ASSUME WorldInv, FoundInv, GroundInv, RestOK
               PROVE  AskTypeOK
    OBVIOUS
  <2>1. PICK n \in 0 .. Shown :
          cites \in [1 .. n -> [source : Library, known : BOOLEAN]]
    BY DEF GroundInv, CitesInv
  <2>2. Len(cites) = n /\ DOMAIN cites = 1 .. n /\ n <= Shown
    BY <2>1, AskConfigAssumption
  <2>3. refs \subseteq 0 .. Shown + 1
    BY <2>2, AskConfigAssumption DEF GroundInv, RefsInv
  <2>4. {rows, frames, rerunning, gone, lost} \subseteq SUBSET Library
    BY DEF WorldInv, RestOK
  <2> QED  BY <2>1, <2>2, <2>3, <2>4
           DEF WorldInv, FoundInv, RestOK, AskTypeOK
<1> QED
  BY <1>1, <1>2, <1>3, GroundAlways, WorldInit, CitesStep, PTL DEF AskSpec
=============================================================================
