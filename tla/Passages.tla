------------------------------ MODULE Passages ------------------------------
(***************************************************************************)
(* The pure code of ingest: what is cut into frames, passages and chunks,  *)
(* and what is dropped.  ingest/paper.py and deck.py (windows over the     *)
(* words of a page or slide), transcript.py (passages of captions),        *)
(* frames.py (the MJPEG stream, timestamps, thinning), dedup.py.           *)
(*                                                                         *)
(* A text is a sequence of words, single blanks between them.              *)
(***************************************************************************)
EXTENDS Integers, Sequences, FiniteSets, SequencesExt, FiniteSetsExt

Lesser(a, b)  == IF a < b THEN a ELSE b
Greatest(a, b) == IF a < b THEN b ELSE a

-----------------------------------------------------------------------------
(* _window_chunks.                                                         *)

(* Mutant: `start + size > len(words)' in the break.                       *)
StartsPastTheEnd(n, size, overlap) ==
    LET step == Greatest(1, size - overlap)
        range == {k * step : k \in 0 .. n} \intersect 0 .. (n - 1)
    IN {s \in range : \A r \in range : r < s => r + size <= n}

(* for start in range(0, n, step): ... if start + size >= n: break         *)
Starts(n, size, overlap) ==
    LET step == Greatest(1, size - overlap)
        range == {k * step : k \in 0 .. n} \intersect 0 .. (n - 1)
    IN {s \in range : \A r \in range : r < s => r + size < n}

(* The pieces, as the positions of their first and last words.             *)
WindowSpans(n, size, overlap) ==
    IF n <= size
      THEN IF n = 0 THEN <<>> ELSE <<[from |-> 1, to |-> n]>>
      ELSE LET starts == Starts(n, size, overlap)
               nth(k) == CHOOSE s \in starts :
                           Cardinality({r \in starts : r < s}) = k - 1
           IN [k \in 1 .. Cardinality(starts) |->
                 [from |-> nth(k) + 1, to |-> Lesser(nth(k) + size, n)]]

WindowChunks(words, size, overlap) ==
    LET spans == WindowSpans(Len(words), size, overlap) IN
    [k \in DOMAIN spans |-> SubSeq(words, spans[k].from, spans[k].to)]

-----------------------------------------------------------------------------
(* chunk_paper: per page, each text once.                                  *)

(* Mutant: the key is the text as it stands.                               *)
KeyAsIs(piece, lower) == piece

(* lower[w] is the word w in lower case.                                   *)
Key(piece, lower) == [k \in DOMAIN piece |-> lower[piece[k]]]

ChunkPaper(pages, size, overlap, lower) ==
    LET chunk(acc, page) ==
          LET fresh(out, piece) ==
                IF Key(piece, lower) \in out.seen THEN out
                ELSE [seen |-> out.seen \union {Key(piece, lower)},
                      chunks |-> Append(out.chunks, [text |-> piece, page |-> page])]
          IN FoldLeft(fresh, acc, WindowChunks(pages[page], size, overlap))
    IN FoldLeft(chunk, [seen |-> {}, chunks |-> <<>>],
                [page \in DOMAIN pages |-> page]).chunks

(* Mutant: a deck is chunked as a paper.                                   *)
ChunkDeckAsPaper(slides, size, overlap) ==
    LET chunks == ChunkPaper(slides, size, overlap,
                             [w \in UNION {ToSet(s) : s \in ToSet(slides)} |-> w])
    IN [i \in DOMAIN chunks |-> [text |-> chunks[i].text, slide |-> chunks[i].page]]

(* chunk_deck: per slide, and nothing is dropped.                          *)
ChunkDeck(slides, size, overlap) ==
    FlattenSeq([s \in DOMAIN slides |->
        LET pieces == WindowChunks(slides[s], size, overlap) IN
        [k \in DOMAIN pieces |-> [text |-> pieces[k], slide |-> s]]])

-----------------------------------------------------------------------------
(* chunk_cues: a passage ends with the cue that makes it span long.        *)
NoPassage == [cues |-> <<>>, start |-> 0, end |-> 0]

(* Mutant: a passage of just the span is not long enough.                  *)
LongerThan(passage, span) == passage.end - passage.start > span

LongEnough(passage, span) == passage.end - passage.start >= span

ChunkCues(cues, span) ==
    LET take(acc, c) ==
          LET open == [cues  |-> Append(acc.open.cues, c),
                       start |-> IF acc.open = NoPassage THEN c.start
                                 ELSE acc.open.start,
                       end   |-> c.end]
          IN IF LongEnough(open, span)
               THEN [chunks |-> Append(acc.chunks, open), open |-> NoPassage]
               ELSE [acc EXCEPT !.open = open]
        all == FoldLeft(take, [chunks |-> <<>>, open |-> NoPassage], cues)
    IN IF all.open = NoPassage THEN all.chunks ELSE Append(all.chunks, all.open)

-----------------------------------------------------------------------------
(* frames.py.  A stream is its markers and what is between them.           *)

(* Mutant: a frame starts at the last SOI before its EOI.                  *)
SplitAtLastSoi(stream) ==
    LET read(acc, k) ==
          CASE stream[k] = "SOI" -> [acc EXCEPT !.start = k]
            [] acc.start # 0 /\ stream[k] = "EOI" ->
                 [start |-> 0,
                  frames |-> Append(acc.frames, [from |-> acc.start, to |-> k])]
            [] OTHER -> acc
    IN FoldLeft(read, [start |-> 0, frames |-> <<>>],
                [k \in DOMAIN stream |-> k]).frames

(* find(SOI, pos), find(EOI, start + 2); what is not closed is dropped.    *)
SplitMjpeg(stream) ==
    LET read(acc, k) ==
          CASE acc.start = 0 /\ stream[k] = "SOI" -> [acc EXCEPT !.start = k]
            [] acc.start # 0 /\ stream[k] = "EOI" ->
                 [start |-> 0,
                  frames |-> Append(acc.frames, [from |-> acc.start, to |-> k])]
            [] OTHER -> acc
    IN FoldLeft(read, [start |-> 0, frames |-> <<>>],
                [k \in DOMAIN stream |-> k]).frames

(* Mutant: integer division in `step'.                                     *)
ThinByWholeSteps(frames, most) ==
    IF most # 0 /\ Len(frames) > most
      THEN [i \in 1 .. most |-> frames[(i - 1) * (Len(frames) \div most) + 1]]
      ELSE frames

(* step = len / MAX_FRAMES; frames[int(i * step)] for i in range(MAX)      *)
Thin(frames, most) ==
    IF most # 0 /\ Len(frames) > most
      THEN [i \in 1 .. most |-> frames[((i - 1) * Len(frames)) \div most + 1]]
      ELSE frames

(* _sample_scene: showinfo's times if there are enough, else the index.    *)
SceneFrames(jpegs, times, most) ==
    Thin([i \in DOMAIN jpegs |->
            [jpeg |-> jpegs[i],
             ms |-> IF Len(times) >= Len(jpegs) THEN times[i]
                    ELSE (i - 1) * 1000]], most)

(* Mutant: each frame is compared with the one before it.                  *)
DedupNeighbours(frames, same) ==
    LET keep(kept, i) == IF <<frames[i].look, frames[i - 1].look>> \in same THEN kept
                         ELSE Append(kept, frames[i])
    IN IF Len(frames) < 2 THEN frames
       ELSE FoldLeft(keep, <<Head(frames)>>, [i \in 1 .. (Len(frames) - 1) |-> i + 1])

(* dedup: drop what is _same as the last one kept.  A look is a hash and a *)
(* luminance; same, a set of pairs of looks, need not be transitive.       *)
Dedup(frames, same) ==
    LET keep(kept, f) == IF <<f.look, Last(kept).look>> \in same THEN kept
                         ELSE Append(kept, f)
    IN IF Len(frames) < 2 THEN frames
       ELSE FoldLeft(keep, <<Head(frames)>>, Tail(frames))

-----------------------------------------------------------------------------
(* What each of them promises, for one input.                              *)

(* paper.py, _window_chunks: `a little overlap so a sentence split across  *)
(* a boundary is still retrievable'.  Every word is in a window, windows   *)
(* that follow each other share the overlap, and each window has a word    *)
(* the one before it had not.                                              *)
WellWindowed(n, size, overlap) ==
    LET spans == WindowSpans(n, size, overlap) IN
    /\ UNION {spans[k].from .. spans[k].to : k \in DOMAIN spans} = 1 .. n
    /\ \A k \in DOMAIN spans : spans[k].to - spans[k].from < size
    /\ \A k \in 2 .. Len(spans) :
         /\ spans[k].to > spans[k - 1].to
         /\ spans[k - 1].to - spans[k].from + 1 = Lesser(overlap, size - 1)

(* chunk_paper: `text-hash dedup drops repeated headers/footers'.  What a  *)
(* page says can be found on it or on an earlier page, and nothing is      *)
(* found twice, whatever its case.                                         *)
EachTextOnce(pages, size, overlap, lower) ==
    LET chunks == ChunkPaper(pages, size, overlap, lower)
        folded(text) == [k \in DOMAIN text |-> lower[text[k]]]
    IN /\ \A i, j \in DOMAIN chunks :
            i < j => /\ folded(chunks[i].text) # folded(chunks[j].text)
                     /\ chunks[i].page <= chunks[j].page
       /\ \A page \in DOMAIN pages :
            \A k \in DOMAIN WindowChunks(pages[page], size, overlap) :
              \E i \in DOMAIN chunks :
                /\ chunks[i].page <= page
                /\ folded(chunks[i].text)
                     = folded(WindowChunks(pages[page], size, overlap)[k])

(* chunk_deck: whatever slides repeat, each slide with a word has a chunk  *)
(* of its own, and all of its words are in its chunks.                     *)
EachSlideFound(slides, size, overlap) ==
    LET chunks == ChunkDeck(slides, size, overlap) IN
    \A s \in DOMAIN slides :
        ToSet(slides[s])
          = UNION {ToSet(chunks[i].text) : i \in {j \in DOMAIN chunks : chunks[j].slide = s}}

(* chunk_cues: passages take the cues apart, none twice and none left, and *)
(* each but the last is as long as it must be and would not be without its *)
(* last cue.                                                               *)
CuesPartitioned(cues, span) ==
    LET passages == ChunkCues(cues, span)
        lasts(p, k) == p.cues[k].end - p.cues[1].start
    IN /\ FlattenSeq([i \in DOMAIN passages |-> passages[i].cues]) = cues
       /\ \A i \in DOMAIN passages :
            LET p == passages[i]  n == Len(p.cues) IN
            /\ p.start = p.cues[1].start /\ p.end = p.cues[n].end
            /\ i < Len(passages) => lasts(p, n) >= span
            /\ \A k \in 1 .. (n - 1) : lasts(p, k) < span

(* _split_mjpeg: frames do not overlap, each goes from an SOI to the first *)
(* EOI after it, and no SOI with an EOI after it is outside of a frame.    *)
JpegsFramed(stream) ==
    LET frames == SplitMjpeg(stream)
        ends(k) == {e \in DOMAIN stream : e > k /\ stream[e] = "EOI"}
    IN /\ \A i \in DOMAIN frames :
            /\ stream[frames[i].from] = "SOI"
            /\ frames[i].to \in ends(frames[i].from)
            /\ \A e \in ends(frames[i].from) : frames[i].to <= e
            /\ i > 1 => frames[i - 1].to < frames[i].from
       /\ \A k \in DOMAIN stream :
            stream[k] = "SOI" /\ ends(k) # {} =>
                \E i \in DOMAIN frames : k \in frames[i].from .. frames[i].to

(* config.py: MAX_FRAMES caps the frames of a video.  They are kept to the *)
(* cap and from all of the video: between neighbours, and after the last,  *)
(* no more are left out than the cap demands.                              *)
ThinnedEvenly(n, times, most) ==
    LET kept == SceneFrames([i \in 1 .. n |-> i], times, most)
        at(i) == IF i > Len(kept) THEN n + 1 ELSE kept[i].jpeg
    IN IF most = 0 \/ n <= most
         THEN Len(kept) = n
         ELSE /\ Len(kept) = most
              /\ at(1) = 1
              /\ \A i \in 1 .. most :
                   at(i + 1) - at(i) \in 1 .. ((n + most - 1) \div most)
              /\ \A i \in 1 .. (most - 1) : kept[i].ms <= kept[i + 1].ms

(* dedup: `too similar to the last kept one'.  Every frame looks like the  *)
(* last one kept up to it, so a slow change is not lost; of two kept in    *)
(* turn the second does not look like the first.  looks[i] is frame i.     *)
NoDrift(looks, same) ==
    LET frames == [i \in DOMAIN looks |-> [at |-> i, look |-> looks[i]]]
        alike(f, g) == <<f.look, g.look>> \in same
        kept == Dedup(frames, same)
    IN /\ \A i \in DOMAIN frames :
            LET before == {k \in DOMAIN kept : kept[k].at <= i} IN
            before # {} /\ alike(kept[Max(before)], frames[i])
       /\ \A k \in 2 .. Len(kept) :
            kept[k - 1].at < kept[k].at /\ ~ alike(kept[k - 1], kept[k])
=============================================================================
