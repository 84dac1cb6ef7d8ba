--------------------------- MODULE MCDocumentIngest ---------------------------
(* TLC instances of DocumentIngest.                                        *)
EXTENDS DocumentIngest

CONSTANTS paper, deck, r1, r2

OnlyDeck  == {deck}
Both      == {paper, deck}
Nothing   == {}

OneRun  == {r1}
TwoRuns == {r1, r2}

(* A parse that always gives chunks, though not always as many; and a deck *)
(* of images only, whose captions may fail one and all.                    *)
SomeChunks  == [d \in Documents |-> {1, 2}]
MaybeChunks == [d \in Documents |-> {0, 2}]

Quiet   == {"refused"}
Harsh   == Disturbances
=============================================================================
