----------------------------- MODULE MCRequests -----------------------------
(* What the api does with requests, one part of it in each behaviour: hits *)
(* fused into moments, the pure code of Passages on samples, a question    *)
(* answered, keys asked for, sources registered, requests counted.  The    *)
(* parts share no state, so the states of the run are the sum of theirs.   *)
EXTENDS Fusion, Passages, Answering, AccessControl, Registration, Metering,
        Serving, TLC

CONSTANTS film, paper, none

TwoSources   == {film, paper}
OnePage      == {1, 2}
FourTimes    == {0, 10, 15, 20}
ThreeHalves  == <<3, 2>>

(* A question of Alice's: she has a film and a paper, Bob has a film.      *)
CONSTANTS alice, bob, talk, thesis, bobs

WhoseIs  == (talk :> alice) @@ (thesis :> alice) @@ (bobs :> bob)
WhatIsIn == (talk :> Branches) @@ (thesis :> {"text"}) @@ (bobs :> Branches)
Questions ==
    {[uid |-> alice, api |-> api, video_id |-> one, video_ids |-> some] :
        api \in {"ask"}, one \in {None}, some \in {{}, {talk, bobs}}}
    \union {[uid |-> alice, api |-> "retrieve", video_id |-> talk,
             video_ids |-> {thesis}]}
Hers == {talk, thesis}

(* An admin's key and a viewer's.                                          *)
CONSTANTS key1, key2
WhoseKey  == (key1 :> alice) @@ (key2 :> bob)
WhichRole == (key1 :> "admin") @@ (key2 :> "viewer")

CONSTANTS film1, film2
Behaved == {{}, {"early", "again"}}

CONSTANTS r1, r2, c1, c2
OneOrTwoHosts == {(c1 :> r1) @@ (c2 :> r1), (c1 :> r1) @@ (c2 :> r2)}

Symmetric == Permutations(Owners) \union Permutations(Callers)

VARIABLES part, input

fusionVars  == <<vars, input>>
requestVars == <<fusionVars, askVars, accessVars, doorVars, meterVars, part>>

Sequences(S, most) == UNION {[1 .. n -> S] : n \in 0 .. most}

(* Words 1 and 2 are one word in two cases.                                *)
Lower == [w \in 1 .. 3 |-> IF w = 2 THEN 1 ELSE w]

(* Cues begin in order; they may overlap, and an end may come before the   *)
(* end of an earlier cue.                                                  *)
Cues == {c \in Sequences([start : {0, 1, 2}, end : {1, 2, 3, 5}], 3) :
           /\ \A i \in DOMAIN c : c[i].start <= c[i].end
           /\ \A i \in 2 .. Len(c) : c[i - 1].start <= c[i].start}

Inputs ==
    {none}
    \union [n : 0 .. 12, size : 1 .. 4, overlap : 0 .. 4]
    \union [pages : Sequences(Sequences(1 .. 3, 3), 2)]
    \union [cues : Cues, span : 1 .. 3]
    \union [stream : Sequences({"SOI", "EOI", "data"}, 6)]
    \union [jpegs : 0 .. 8, times : {0, 9}, most : 0 .. 5]
    \union [looks : Sequences(0 .. 3, 5)]
    \union [first : {Absent} \union 0 .. 5, last : {Absent} \union 0 .. 6,
            size : 0 .. 5, block : 1 .. 3]
    \union [took : Sequences(0 .. 4, 4), percent : {50, 95}]

IsA(fields) == input # none /\ DOMAIN input = fields

(* The bounds of the buckets; requests may take longer than the last.      *)
ThreeBounds == <<1, 2, 3>>

(* Neighbouring looks are the same to dedup.                               *)
Alike == {pair \in (0 .. 3) \X (0 .. 3) : pair[1] - pair[2] \in -1 .. 1}

(* Frames are of the film, pages of the paper.                             *)
Possible(h) == (h.source = paper) = (h.loc # NoLocator)

NothingFound ==
    /\ todo = {} /\ windows = <<>> /\ moments = <<>> /\ cited = FALSE
    /\ home = [h \in {} |-> 0]

(* The parts that a behaviour is not about wait in one state of theirs.    *)
MCInit ==
    /\ part \in {"fusion", "answering", "access", "door", "metering"}
    /\ AskInit
    /\ part = "answering" \/ (ownModel /\ request.video_id # None)
    /\ AccessInit
    /\ part = "access" \/ (master /\ \A k \in Keys : keys[k] = "none")
    /\ DoorInit
    /\ habits = {} \/ (fair /\ direct)      \* FoundByOwner is of fair mode
    /\ part = "door" \/ (fair /\ direct /\ habits = {})
    /\ MeterInit
    /\ part = "metering" \/ (host[c1] = host[c2] /\ calling = "metrics" /\ up)
    /\ \/ part = "fusion" /\ Init /\ \A h \in todo : Possible(h)
       \/ part # "fusion" /\ NothingFound
    /\ input \in IF part = "fusion" /\ todo = {} THEN Inputs ELSE {none}

MCNext ==
    /\ UNCHANGED part
    /\ \/ /\ part = "fusion" /\ Next
          /\ UNCHANGED <<input, askVars, accessVars, doorVars, meterVars>>
       \/ /\ part = "answering" /\ AskNext
          /\ UNCHANGED <<fusionVars, accessVars, doorVars, meterVars>>
       \/ /\ part = "access" /\ AccessNext
          /\ UNCHANGED <<fusionVars, askVars, doorVars, meterVars>>
       \/ /\ part = "door" /\ DoorNext
          /\ UNCHANGED <<fusionVars, askVars, accessVars, meterVars>>
       \/ /\ part = "metering" /\ MeterNext
          /\ UNCHANGED <<fusionVars, askVars, accessVars, doorVars>>

MCSpec == MCInit /\ [][MCNext]_requestVars

(* All parts keep their types.                                             *)
TypesOK == TypeOK /\ AskTypeOK /\ AccessTypeOK /\ DoorTypeOK /\ MeterTypeOK

(* _window_chunks, chunk_paper and chunk_deck, for each text length and    *)
(* window and each document of two pages: no word is lost, windows overlap *)
(* as they should, no text of a paper is there twice and each slide can be *)
(* found.  chunk_cues, for captions that may overlap: passages are a       *)
(* partition of them, none shorter or longer than the span demands.        *)
TextChunked ==
    /\ IsA({"n", "size", "overlap"}) =>
         WellWindowed(input.n, input.size, input.overlap)
    /\ IsA({"pages"}) => /\ EachTextOnce(input.pages, 2, 1, Lower)
                         /\ EachSlideFound(input.pages, 2, 1)
    /\ IsA({"cues", "span"}) => CuesPartitioned(input.cues, input.span)

(* _split_mjpeg, for each stream of markers: all whole frames, and only    *)
(* whole ones; _sample_scene, with and without timestamps: thinned to      *)
(* MAX_FRAMES over the whole video; dedup, for each course of a picture:   *)
(* slow changes are not lost.                                              *)
FramesSampled ==
    /\ IsA({"stream"}) => JpegsFramed(input.stream)
    /\ IsA({"jpegs", "times", "most"}) =>
         ThinnedEvenly(input.jpegs, [i \in 1 .. input.times |-> 500 * i],
                       input.most)
    /\ IsA({"looks"}) => NoDrift(input.looks, Alike)

(* video, for each range, file size and block size: the bytes asked for.   *)
RangeServed ==
    IsA({"first", "last", "size", "block"}) =>
        RangeKept(input.first, input.last, input.size, input.block)

(* observe, render and _pct, for each course of up to four requests:       *)
(* buckets and percentiles are those of the requests.                      *)
LatencyShown ==
    IsA({"took", "percent"}) =>
        LatencyTrue(input.took, ThreeBounds, input.percent)
=============================================================================
