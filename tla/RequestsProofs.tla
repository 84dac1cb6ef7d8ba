--------------------------- MODULE RequestsProofs ---------------------------
(* Proofs about the requests taken together: each part keeps what is       *)
(* proved of it alone, and what is proved of the pure code for every input *)
(* holds of the inputs of a behaviour.                                     *)
EXTENDS MCRequests, SearchProofs, DoorProofs, OperationProofs, PureCodeProofs

(* A search that finds nothing leaves the loop of _fuse nothing to do.     *)
LEMMA NothingToFuse == NothingFound => Init
<1> SUFFICES ASSUME NothingFound PROVE Init
  OBVIOUS
<1> DEFINE FilmHits == {p \in Place : p.loc = NoLocator}
           TextHits == {p \in Place : p.loc # NoLocator => p.t = 0}
<1>1. ASSUME NEW S PROVE <<>> \in Answers(S)
  <2>1. 0 \in 0 .. BranchTopK /\ <<>> \in [1 .. 0 -> S]
    BY FusionAssumption
  <2> QED  BY <2>1 DEF Answers
<1>2. \A modality : Ranked(<<>>, modality) = {}
  BY DEF Ranked
<1>3. <<>> \in Answers(FilmHits) /\ <<>> \in Answers(TextHits)
  BY <1>1
<1>4. todo = Ranked(<<>>, "frame") \union Ranked(<<>>, "text")
  BY <1>2 DEF NothingFound
<1> HIDE DEF FilmHits, TextHits
<1>5. \E visual \in Answers(FilmHits), text \in Answers(TextHits) :
        todo = Ranked(visual, "frame") \union Ranked(text, "text")
  BY <1>3, <1>4
<1> QED  BY <1>5 DEF NothingFound, Init, FilmHits, TextHits

(* A behaviour is about one part, and the others wait in an initial state  *)
(* of theirs: so what is proved of each part holds of the whole.           *)
THEOREM EachPartRuns ==
    MCSpec => Spec /\ AskSpec /\ AccessSpec /\ DoorSpec /\ MeterSpec
<1>1. MCInit => Init /\ AskInit /\ AccessInit /\ DoorInit /\ MeterInit
  BY NothingToFuse DEF MCInit
<1>2. [MCNext]_requestVars =>
        [Next]_vars /\ [AskNext]_askVars /\ [AccessNext]_accessVars
          /\ [DoorNext]_doorVars /\ [MeterNext]_meterVars
  BY DEF MCNext, requestVars, fusionVars
<1> QED
  BY <1>1, <1>2, PTL
     DEF MCSpec, Spec, AskSpec, AccessSpec, DoorSpec, MeterSpec

(* TypesOK, for any values of the constants of all parts.                  *)
THEOREM TypesHold == MCSpec => []TypesOK
BY EachPartRuns, FusionTypeCorrect, AskTypeCorrect, AccessTypeCorrect,
   DoorTypeCorrect, MeterTypeCorrect, PTL DEF TypesOK

-----------------------------------------------------------------------------
(* The input of the pure code does not change, so what is proved of it for *)
(* every input holds in every state.                                       *)
LEMMA InputStays == MCSpec => [](input \in Inputs)
<1>1. MCInit => input \in Inputs
  <2> SUFFICES ASSUME MCInit PROVE input \in Inputs
    OBVIOUS
  <2>1. input \in IF part = "fusion" /\ todo = {} THEN Inputs ELSE {none}
    BY DEF MCInit
  <2>2. none \in Inputs
    BY DEF Inputs
  <2> HIDE DEF Inputs
  <2> QED  BY <2>1, <2>2
<1>2. input \in Inputs /\ [MCNext]_requestVars => (input \in Inputs)'
  <2>1. [MCNext]_requestVars => input' = input
    BY DEF MCNext, Next, requestVars, fusionVars
  <2>2. Inputs' = Inputs
    OBVIOUS
  <2> HIDE DEF Inputs
  <2> QED  BY <2>1, <2>2
<1> QED  BY <1>1, <1>2, PTL DEF MCSpec

LEMMA SomeSequences ==
    ASSUME NEW S, NEW most \in Nat, NEW s \in Sequences(S, most)
    PROVE  s \in Seq(S)
<1>1. PICK n \in 0 .. most : s \in [1 .. n -> S]
  BY DEF Sequences
<1> QED  BY <1>1

(* What kinds of input there are is told by their fields.                  *)
LEMMA KindsOfInput ==
    ASSUME input \in Inputs, input # none
    PROVE  \/ input \in [n : 0 .. 12, size : 1 .. 4, overlap : 0 .. 4]
           \/ input \in [pages : Sequences(Sequences(1 .. 3, 3), 2)]
           \/ input \in [cues : Cues, span : 1 .. 3]
           \/ input \in [stream : Sequences({"SOI", "EOI", "data"}, 6)]
           \/ input \in [jpegs : 0 .. 8, times : {0, 9}, most : 0 .. 5]
           \/ input \in [looks : Sequences(0 .. 3, 5)]
           \/ input \in [first : {Absent} \union 0 .. 5,
                         last : {Absent} \union 0 .. 6,
                         size : 0 .. 5, block : 1 .. 3]
           \/ input \in [took : Sequences(0 .. 4, 4), percent : {50, 95}]
<1> HIDE DEF Sequences, Cues
<1> QED  BY DEF Inputs

LEMMA WindowInput ==
    ASSUME input \in Inputs, IsA({"n", "size", "overlap"})
    PROVE  input.n \in 0 .. 12 /\ input.size \in 1 .. 4 /\ input.overlap \in 0 .. 4
BY KindsOfInput DEF IsA

LEMMA PagesInput ==
    ASSUME input \in Inputs, IsA({"pages"})
    PROVE  input.pages \in Seq(Seq(1 .. 3))
<1> DEFINE Texts == Seq(1 .. 3)
<1>1. input.pages \in Sequences(Sequences(1 .. 3, 3), 2)
  BY KindsOfInput DEF IsA
<1>2. Sequences(1 .. 3, 3) \subseteq Texts
  BY SomeSequences
<1>3. PICK n \in 0 .. 2 : input.pages \in [1 .. n -> Sequences(1 .. 3, 3)]
  BY <1>1 DEF Sequences
<1> HIDE DEF Texts
<1>4. input.pages \in Seq(Texts)
  BY <1>2, <1>3
<1> QED  BY <1>4 DEF Texts

LEMMA CuesInput ==
    ASSUME input \in Inputs, IsA({"cues", "span"})
    PROVE  input.cues \in Cues /\ input.span \in 1 .. 3
BY KindsOfInput DEF IsA

LEMMA StreamInput ==
    ASSUME input \in Inputs, IsA({"stream"})
    PROVE  input.stream \in Sequences({"SOI", "EOI", "data"}, 6)
BY KindsOfInput DEF IsA

LEMMA ThinInput ==
    ASSUME input \in Inputs, IsA({"jpegs", "times", "most"})
    PROVE  /\ input.jpegs \in 0 .. 8 /\ input.times \in {0, 9}
           /\ input.most \in 0 .. 5
BY KindsOfInput DEF IsA

LEMMA LooksInput ==
    ASSUME input \in Inputs, IsA({"looks"})
    PROVE  input.looks \in Sequences(0 .. 3, 5)
BY KindsOfInput DEF IsA

LEMMA RangeInput ==
    ASSUME input \in Inputs, IsA({"first", "last", "size", "block"})
    PROVE  /\ input.first \in {Absent} \union 0 .. 5
           /\ input.last \in {Absent} \union 0 .. 6
           /\ input.size \in 0 .. 5 /\ input.block \in 1 .. 3
BY KindsOfInput DEF IsA

LEMMA LatencyInput ==
    ASSUME input \in Inputs, IsA({"took", "percent"})
    PROVE  /\ input.took \in Sequences(0 .. 4, 4) /\ input.percent \in {50, 95}
BY KindsOfInput DEF IsA

(* TextChunked: no word is lost, no text of a paper is kept twice, each    *)
(* slide is found, and passages take the captions apart.                   *)
THEOREM TextChunkedHolds == MCSpec => []TextChunked
<1>1. input \in Inputs => TextChunked
  <2> SUFFICES ASSUME input \in Inputs PROVE TextChunked
    OBVIOUS
  <2>1. IsA({"n", "size", "overlap"}) =>
          WellWindowed(input.n, input.size, input.overlap)
    <3> SUFFICES ASSUME IsA({"n", "size", "overlap"})
                 PROVE  WellWindowed(input.n, input.size, input.overlap)
      OBVIOUS
    <3>1. PICK n \in Nat, size \in Nat \ {0}, overlap \in Nat :
            n = input.n /\ size = input.size /\ overlap = input.overlap
      BY WindowInput
    <3> QED  BY <3>1, WindowsAreWell
  <2>2. IsA({"pages"}) => /\ EachTextOnce(input.pages, 2, 1, Lower)
                          /\ EachSlideFound(input.pages, 2, 1)
    <3> SUFFICES ASSUME IsA({"pages"})
                 PROVE  /\ EachTextOnce(input.pages, 2, 1, Lower)
                        /\ EachSlideFound(input.pages, 2, 1)
      OBVIOUS
    <3>1. PICK pages \in Seq(Seq(1 .. 3)) : pages = input.pages
      BY PagesInput
    <3>2. 2 \in Nat \ {0} /\ 1 \in Nat
      OBVIOUS
    <3>3. EachTextOnce(pages, 2, 1, Lower) /\ EachSlideFound(pages, 2, 1)
      BY <3>2, TextsAreOnce, SlidesAreFound
    <3> QED  BY <3>1, <3>3
  <2>3. IsA({"cues", "span"}) => CuesPartitioned(input.cues, input.span)
    <3> SUFFICES ASSUME IsA({"cues", "span"})
                 PROVE  CuesPartitioned(input.cues, input.span)
      OBVIOUS
    <3> DEFINE Cue == [start : {0, 1, 2}, end : {1, 2, 3, 5}]
    <3>1. \A c \in Cue : c.start \in Int /\ c.end \in Int
      OBVIOUS
    <3>2. input.cues \in Sequences(Cue, 3) /\ input.span \in Int
      BY CuesInput DEF Cues
    <3> HIDE DEF Cue
    <3>3. PICK cues \in Seq(Cue) : cues = input.cues
      BY <3>2, SomeSequences
    <3> QED  BY <3>1, <3>2, <3>3, CuesArePartitioned
  <2> QED  BY <2>1, <2>2, <2>3 DEF TextChunked
<1> QED  BY <1>1, InputStays, PTL

(* FramesSampled: whole frames, thinned evenly, and none lost that does    *)
(* not look like one kept.                                                 *)
THEOREM FramesSampledHolds == MCSpec => []FramesSampled
<1>1. input \in Inputs => FramesSampled
  <2> SUFFICES ASSUME input \in Inputs PROVE FramesSampled
    OBVIOUS
  <2>1. IsA({"stream"}) => JpegsFramed(input.stream)
    <3> SUFFICES ASSUME IsA({"stream"}) PROVE JpegsFramed(input.stream)
      OBVIOUS
    <3>1. PICK stream \in Seq({"SOI", "EOI", "data"}) : stream = input.stream
      BY StreamInput, SomeSequences
    <3> QED  BY <3>1, FramesAreWhole
  <2>2. IsA({"jpegs", "times", "most"}) =>
          ThinnedEvenly(input.jpegs, [i \in 1 .. input.times |-> 500 * i],
                        input.most)
    <3> SUFFICES ASSUME IsA({"jpegs", "times", "most"})
                 PROVE  ThinnedEvenly(input.jpegs,
                          [i \in 1 .. input.times |-> 500 * i], input.most)
      OBVIOUS
    <3>1. input.jpegs \in Nat /\ input.times \in Nat /\ input.most \in Nat
      BY ThinInput
    <3>2. PICK n \in Nat, m \in Nat, most \in Nat :
            n = input.jpegs /\ m = input.times /\ most = input.most
      BY <3>1
    <3> DEFINE times == [i \in 1 .. m |-> 500 * i]
    <3>3. times \in Seq(Nat) /\ DOMAIN times = 1 .. m
      OBVIOUS
    <3>4. \A i, j \in DOMAIN times : i <= j => times[i] <= times[j]
      OBVIOUS
    <3> HIDE DEF times
    <3>5. ThinnedEvenly(n, times, most)
      BY <3>3, <3>4, ThinningIsEven
    <3> QED  BY <3>2, <3>5 DEF times
  <2>3. IsA({"looks"}) => NoDrift(input.looks, Alike)
    <3> SUFFICES ASSUME IsA({"looks"}) PROVE NoDrift(input.looks, Alike)
      OBVIOUS
    <3>1. PICK looks \in Seq(0 .. 3) : looks = input.looks
      BY LooksInput, SomeSequences
    <3>2. /\ \A a, b \in 0 .. 3 : <<a, b>> \in Alike => <<b, a>> \in Alike
          /\ \A a \in 0 .. 3 : <<a, a>> \in Alike
      BY DEF Alike
    <3> QED  BY <3>1, <3>2, DedupFollows
  <2> QED  BY <2>1, <2>2, <2>3 DEF FramesSampled
<1> QED  BY <1>1, InputStays, PTL

(* RangeServed: the bytes asked for, each once and in order.               *)
THEOREM RangeServedHolds == MCSpec => []RangeServed
<1>1. input \in Inputs => RangeServed
  <2> SUFFICES ASSUME input \in Inputs, IsA({"first", "last", "size", "block"})
               PROVE  RangeKept(input.first, input.last, input.size, input.block)
    BY DEF RangeServed
  <2>1. /\ input.first \in Nat \union {Absent}
        /\ input.last \in Nat \union {Absent}
        /\ input.size \in Nat /\ input.block \in Nat \ {0}
    BY RangeInput
  <2> QED  BY <2>1, RangesAreKept
<1> QED  BY <1>1, InputStays, PTL

(* LatencyShown: the histogram is that of the requests.                    *)
THEOREM LatencyShownHolds == MCSpec => []LatencyShown
<1>1. input \in Inputs => LatencyShown
  <2> SUFFICES ASSUME input \in Inputs, IsA({"took", "percent"})
               PROVE  LatencyTrue(input.took, ThreeBounds, input.percent)
    BY DEF LatencyShown
  <2>1. input.took \in Sequences(0 .. 4, 4) /\ input.percent \in Nat
    BY LatencyInput
  <2>2. PICK took \in Seq(0 .. 4) : took = input.took
    BY <2>1, SomeSequences
  <2>3. took \in Seq(Int)
    OBVIOUS
  <2>4. /\ ThreeBounds \in Seq(Int) /\ ThreeBounds # <<>>
        /\ \A i, j \in DOMAIN ThreeBounds :
             i < j => ThreeBounds[i] < ThreeBounds[j]
    BY DEF ThreeBounds
  <2> QED  BY <2>1, <2>2, <2>3, <2>4, LatencyIsTrue
<1> QED  BY <1>1, InputStays, PTL
=============================================================================
