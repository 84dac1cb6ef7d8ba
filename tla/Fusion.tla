------------------------------- MODULE Fusion -------------------------------
(***************************************************************************)
(* How a question's hits become moments (rag/search.py).  Frames and text  *)
(* are searched apart, each answer is best first; _fuse takes the hits in  *)
(* the order of 1/(RRF_K + rank), puts each into the first window it fits, *)
(* and sorts the windows by what the best hit of each branch is worth;     *)
(* retrieve keeps the first TOP_K.                                         *)
(*                                                                         *)
(* One step per turn of _fuse's loop.  A document's hit has a locator (its *)
(* page or slide), a video's has a time.                                   *)
(***************************************************************************)
EXTENDS Integers, Sequences, FiniteSets

CONSTANTS
    Sources,      \* ids of videos and documents
    Locators,     \* pages and slides
    NoLocator,    \* a video's _loc_key
    Times,        \* seconds
    Nothing,      \* no hit
    BranchTopK,   \* BRANCH_TOP_K: hits asked of each branch
    RrfK,         \* RRF_K
    Window,       \* FUSION_WINDOW_S
    Boost,        \* CROSS_MODAL_BOOST, <<numerator, denominator>>
    TopK          \* TOP_K

ASSUME FusionAssumption ==
    /\ NoLocator \notin Locators
    /\ Times \subseteq Int
    /\ Nothing \notin [source : Sources, loc : Locators \union {NoLocator},
                       t : Times, modality : {"frame", "text"},
                       rank : 0 .. (BranchTopK - 1)]
    /\ BranchTopK \in Nat
    /\ RrfK \in Nat \ {0}
    /\ Window \in Nat
    /\ Boost \in (Nat \ {0}) \X (Nat \ {0})
    /\ TopK \in Nat \ {0}

Modalities == {"frame", "text"}
Hit == [source : Sources, loc : Locators \union {NoLocator}, t : Times,
        modality : Modalities, rank : 0 .. (BranchTopK - 1)]

VARIABLES
    todo,      \* hits the loop has not come to
    windows,   \* _fuse's windows, oldest first
    moments,   \* what retrieve cites, best first; empty until then
    cited,     \* retrieve has its moments
    home       \* history: the window each hit went to

vars == <<todo, windows, moments, cited, home>>

WindowRecord == [source : Sources, loc : Locators \union {NoLocator}, t : Times,
                 frame : Hit \union {Nothing}, text : Hit \union {Nothing}]

(* todo is what is left of two ranked answers: one hit per rank and branch *)
TypeOK ==
    /\ todo \subseteq Hit
    /\ \A g, h \in todo : g.rank = h.rank /\ g.modality = h.modality => g = h
    /\ windows \in Seq(WindowRecord)
    /\ \A i \in DOMAIN windows :
         /\ windows[i].frame = Nothing => windows[i].text # Nothing
         /\ windows[i].frame # Nothing => windows[i].frame.modality = "frame"
         /\ windows[i].text # Nothing => windows[i].text.modality = "text"
    /\ moments \in Seq(WindowRecord)
    /\ cited \in BOOLEAN

-----------------------------------------------------------------------------
(* `ranked': the hits of one branch, numbered from 0.  Frames are of       *)
(* videos only; a document's chunks are stored with t_start 0.             *)
Place == [source : Sources, loc : Locators \union {NoLocator}, t : Times]

Ranked(places, modality) ==
    {[source |-> places[i].source, loc |-> places[i].loc, t |-> places[i].t,
      modality |-> modality, rank |-> i - 1] : i \in DOMAIN places}

Answers(places) == UNION {[1 .. n -> places] : n \in 0 .. BranchTopK}

Init ==
    /\ \E visual \in Answers({p \in Place : p.loc = NoLocator}),
          text \in Answers({p \in Place : p.loc # NoLocator => p.t = 0}) :
         todo = Ranked(visual, "frame") \union Ranked(text, "text")
    /\ windows = <<>>
    /\ moments = <<>>
    /\ cited = FALSE
    /\ home = [h \in {} |-> 0]

(* sorted by rrf, descending and stable, frames before text.               *)
Before(g, h) ==
    \/ g.rank < h.rank
    \/ g.rank = h.rank /\ g.modality = "frame" /\ h.modality = "text"

Distance(s, t) == IF s < t THEN t - s ELSE s - t

(* Mutant: the last second of the window is not in it.                     *)
FitsStrictly(w, h) ==
    /\ w.source = h.source
    /\ w.loc = h.loc
    /\ h.loc = NoLocator => Distance(w.t, h.t) < Window

(* By time for a video, by locator for a document.                         *)
Fits(w, h) ==
    /\ w.source = h.source
    /\ w.loc = h.loc
    /\ h.loc = NoLocator => Distance(w.t, h.t) <= Window

(* Mutant: whatever opens a window is its frame.                           *)
OpenedByFrame(h) ==
    [source |-> h.source, loc |-> h.loc, t |-> h.t, frame |-> h, text |-> Nothing]

Opened(h) ==
    [source |-> h.source, loc |-> h.loc, t |-> h.t,
     frame |-> IF h.modality = "frame" THEN h ELSE Nothing,
     text  |-> IF h.modality = "text"  THEN h ELSE Nothing]

(* Mutant: a later hit takes the slot of a better one.                     *)
SlottedLast(w, h) ==
    IF h.modality = "frame" THEN [w EXCEPT !.frame = h] ELSE [w EXCEPT !.text = h]

(* Only the best hit of a modality has the slot: hits come best first.     *)
Slotted(w, h) ==
    CASE h.modality = "frame" /\ w.frame = Nothing -> [w EXCEPT !.frame = h]
      [] h.modality = "text"  /\ w.text = Nothing  -> [w EXCEPT !.text = h]
      [] OTHER -> w

Opens(h) ==
    /\ \A i \in DOMAIN windows : ~ Fits(windows[i], h)
    /\ windows' = Append(windows, Opened(h))
    /\ home' = [g \in DOMAIN home \union {h} |->
                  IF g = h THEN Len(windows) + 1 ELSE home[g]]

Joins(h) ==
    \E i \in DOMAIN windows :
        /\ Fits(windows[i], h)
        /\ \A j \in 1 .. (i - 1) : ~ Fits(windows[j], h)
        /\ windows' = [windows EXCEPT ![i] = Slotted(windows[i], h)]
        /\ home' = [g \in DOMAIN home \union {h} |->
                      IF g = h THEN i ELSE home[g]]

Absorb ==
    \E h \in todo :
        /\ \A g \in todo \ {h} : Before(h, g)
        /\ todo' = todo \ {h}
        /\ Opens(h) \/ Joins(h)
        /\ UNCHANGED <<moments, cited>>

-----------------------------------------------------------------------------
(* Scores are fractions <<numerator, denominator>>.                        *)
Both(w) == w.frame # Nothing /\ w.text # Nothing

Rrf(h) == IF h = Nothing THEN <<0, 1>> ELSE <<1, RrfK + h.rank>>

Plus(p, q) == <<p[1] * q[2] + q[1] * p[2], p[2] * q[2]>>

Greater(p, q) == p[1] * q[2] > q[1] * p[2]

(* Mutant: agreement of the branches is worth nothing of its own, and one  *)
(* branch is as good as two.                                               *)
BestOfTheTwo(w) ==
    IF Greater(Rrf(w.text), Rrf(w.frame)) THEN Rrf(w.text) ELSE Rrf(w.frame)

Score(w) ==
    LET sum == Plus(Rrf(w.frame), Rrf(w.text)) IN
    IF Both(w) THEN <<sum[1] * Boost[1], sum[2] * Boost[2]>> ELSE sum

(* Mutant: windows.sort without reverse=True.                              *)
OutranksByLess(i, j) ==
    \/ Greater(Score(windows[j]), Score(windows[i]))
    \/ i < j /\ ~ Greater(Score(windows[i]), Score(windows[j]))

(* windows.sort(reverse=True) is stable: of equals the older comes first.  *)
Outranks(i, j) ==
    \/ Greater(Score(windows[i]), Score(windows[j]))
    \/ i < j /\ ~ Greater(Score(windows[j]), Score(windows[i]))

(* _fuse(vhits, thits)[:k]                                                 *)
Cite ==
    /\ todo = {} /\ ~ cited
    /\ \E order \in [DOMAIN windows -> DOMAIN windows] :
         /\ \A i, j \in DOMAIN windows : i < j => Outranks(order[i], order[j])
         /\ moments' = [n \in {m \in DOMAIN windows : m <= TopK} |-> windows[order[n]]]
    /\ cited' = TRUE
    /\ UNCHANGED <<todo, windows, home>>

Next == Absorb \/ Cite

Spec == Init /\ [][Next]_vars

-----------------------------------------------------------------------------
(* Properties.                                                             *)

(* _fuse, docstring: hits near each other are one moment, and two pages of *)
(* a paper are two.  No two windows are about the same place: windows of   *)
(* a video lie more than FUSION_WINDOW_S apart, windows of a document have *)
(* different locators; a moment is cited under one number.                 *)
MomentsApart ==
    \A i, j \in DOMAIN windows :
        i # j /\ windows[i].source = windows[j].source
          /\ windows[i].loc = windows[j].loc
            => /\ windows[i].loc = NoLocator
               /\ Distance(windows[i].t, windows[j].t) > Window

(* search.py:91: `Keep only the BEST hit per modality'.  Whatever windows  *)
(* opened in between, each hit is in a window it fits, and the window has  *)
(* a hit of its modality that ranks no worse.                              *)
BestOfItsModality ==
    \A h \in DOMAIN home :
        LET w == windows[home[h]]
            best == IF h.modality = "frame" THEN w.frame ELSE w.text IN
        /\ Fits(w, h)
        /\ best # Nothing
        /\ best.rank <= h.rank

(* search.py:91-99: agreement of both branches `= strongest evidence', and *)
(* no burst of frames outranks it.  Among what is cited, every moment both *)
(* branches found comes before every moment only one found.  (That holds   *)
(* for RRF_K, BRANCH_TOP_K and boost like the code's: AgreementOutweighs   *)
(* in SearchProofs.)                                                       *)
AgreementFirst ==
    \A i, j \in DOMAIN moments :
        i < j /\ Both(moments[j]) => Both(moments[i])

(* retrieve numbers the moments: none is left out for a worse one, none is *)
(* there twice.                                                            *)
TheBestAreCited ==
    cited =>
        /\ \A w \in {windows[i] : i \in DOMAIN windows} :
             (\A n \in DOMAIN moments : moments[n] # w) =>
                 /\ Len(moments) = TopK
                 /\ \A n \in DOMAIN moments : ~ Greater(Score(w), Score(moments[n]))
        /\ \A m, n \in DOMAIN moments :
             m < n => /\ moments[m] # moments[n]
                      /\ ~ Greater(Score(moments[n]), Score(moments[m]))
=============================================================================
