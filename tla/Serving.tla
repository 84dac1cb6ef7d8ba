------------------------------ MODULE Serving ------------------------------
(* What the API computes for its readers, as operators: the part of a file *)
(* that a player's Range header asks for (api/search.py, video), and the   *)
(* latency histograms of a replica (metrics.py).                           *)
EXTENDS Integers, Sequences, FiniteSets, SequencesExt, FiniteSetsExt

CONSTANT Absent     (* not in the header *)
-----------------------------------------------------------------------------
(* Byte ranges: `bytes=first-last', either of them possibly left out.      *)

FromByte(first) == IF first = Absent THEN 0 ELSE first
ToByte(last, size) == IF last = Absent THEN size - 1 ELSE last

Unsatisfiable(first, last, size) ==
    FromByte(first) >= size \/ FromByte(first) > ToByte(last, size)

(* Mutant: the end is not cut to the file.                                 *)
LastByteAsAsked(last, size) == ToByte(last, size)

LastByte(last, size) == Min({ToByte(last, size), size - 1})

ContentLength(first, last, size) ==
    LastByte(last, size) - FromByte(first) + 1

(* stream(): blocks are read until all is sent, or the file ends early.    *)
Sent(first, last, size, block) ==
    LET length == ContentLength(first, last, size)
        read[left \in 0 .. length] ==
          LET pos == FromByte(first) + length - left
              n == Min({block, left, size - pos}) IN
          IF n <= 0 THEN <<>>
          ELSE [k \in 1 .. n |-> pos + k - 1] \o read[left - n]
    IN  read[length]

(* video: whoever asks for a part of a file, by its first byte, gets the   *)
(* bytes of the file in it, each once and in order, and as many as         *)
(* Content-Length says; 416 only when there are none.  (A range without a  *)
(* first byte, `-n', is served as `0-n'.)                                  *)
RangeKept(first, last, size, block) ==
    LET asked == {b \in 0 .. size - 1 :
                    FromByte(first) <= b /\ b <= ToByte(last, size)}
        sent == Sent(first, last, size, block)
    IN  IF Unsatisfiable(first, last, size) THEN asked = {}
        ELSE /\ ToSet(sent) = asked
             /\ \A i, j \in DOMAIN sent : i < j => sent[i] < sent[j]
             /\ ContentLength(first, last, size) = Len(sent)
-----------------------------------------------------------------------------
(* Histograms: a bucket exists once something was counted in it.           *)

NoBuckets == [b \in {} |-> 0]
InBucket(buckets, b) == IF b \in DOMAIN buckets THEN buckets[b] ELSE 0

(* Mutant: only the first bucket that fits counts.                         *)
ObserveOnce(buckets, v, bounds) ==
    LET fit == {b \in ToSet(bounds) : v <= b} IN
    IF fit = {} THEN buckets
    ELSE [b \in DOMAIN buckets \union {Min(fit)} |->
            InBucket(buckets, b) + (IF b = Min(fit) THEN 1 ELSE 0)]

Observe(buckets, v, bounds) ==
    LET fit == {b \in ToSet(bounds) : v <= b} IN
    [b \in DOMAIN buckets \union fit |->
       InBucket(buckets, b) + (IF b \in fit THEN 1 ELSE 0)]

Histogram(observed, bounds) ==
    FoldLeft(LAMBDA buckets, v : Observe(buckets, v, bounds), NoBuckets,
             observed)

(* _pct, with q in percent.                                                *)
Percentile(buckets, count, q, bounds) ==
    LET enough == {i \in DOMAIN bounds :
                     100 * InBucket(buckets, bounds[i]) >= q * count}
    IN  IF count = 0 THEN 0
        ELSE IF enough = {} THEN Last(bounds)
        ELSE bounds[Min(enough)]

(* render: a bucket that does not exist shows the one before it.           *)
Rendered(buckets, bounds) ==
    LET line[i \in 0 .. Len(bounds)] ==
          IF i = 0 THEN 0
          ELSE IF bounds[i] \in DOMAIN buckets THEN buckets[bounds[i]]
          ELSE line[i - 1]
    IN  [i \in DOMAIN bounds |-> line[i]]

(* observe, render, _pct: each bucket shows how many requests took at most *)
(* that long, and a percentile is the least bound under which that share   *)
(* of the requests was (the greatest bound, when none is).                 *)
LatencyTrue(observed, bounds, q) ==
    LET buckets == Histogram(observed, bounds)
        n == Len(observed)
        upTo(b) == Cardinality({i \in DOMAIN observed : observed[i] <= b})
        p == Percentile(buckets, n, q, bounds)
    IN  /\ \A i \in DOMAIN bounds :
             Rendered(buckets, bounds)[i] = upTo(bounds[i])
        /\ n > 0 =>
             /\ \A b \in ToSet(bounds) : b < p => 100 * upTo(b) < q * n
             /\ 100 * upTo(p) >= q * n \/ p = Last(bounds)
=============================================================================
