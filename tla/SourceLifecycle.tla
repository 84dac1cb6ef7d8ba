--------------------------- MODULE SourceLifecycle ---------------------------
(***************************************************************************)
(* What ingest promises about a source, without saying how: `indexed' is   *)
(* published only while everything the source yields can be searched, it   *)
(* stays searchable until its user resubmits or withdraws it or a later    *)
(* run of it is started, and a removed source leaves nothing to be found.  *)
(*                                                                         *)
(* The requirement is the one of glimpse-design.md section 9 and of the    *)
(* docstrings of ingest/flows.py (commit-then-complete) and of             *)
(* api/videos.py (deleting a video purges everything).                     *)
(***************************************************************************)
CONSTANT Sources

VARIABLES
    phase,      \* "absent", "open" (accepted, not ended), "indexed", "ended"
    searchable, \* sources all of whose points are in the index
    traces,     \* sources of which anything at all is stored
    withdrawn   \* sources whose deletion has begun since they were indexed

vars == <<phase, searchable, traces, withdrawn>>

Phases == {"absent", "open", "indexed", "ended"}

Init ==
    /\ phase = [s \in Sources |-> "absent"]
    /\ searchable = {}
    /\ traces = {}
    /\ withdrawn = {}

(* The rest of the index is not touched by a step about s.                 *)
OnlyAbout(s, set) == set \ {s} = set' \ {s}

(* Registered, retried, or re-enqueued: the source is to be ingested.      *)
Open(s) ==
    /\ phase' = [phase EXCEPT ![s] = "open"]
    /\ UNCHANGED <<searchable, traces, withdrawn>>

(* A run at work: what is stored of an open source may change.             *)
Work(s) ==
    /\ phase[s] = "open"
    /\ OnlyAbout(s, searchable) /\ OnlyAbout(s, traces)
    /\ UNCHANGED <<phase, withdrawn>>

(* Commit, then complete.                                                  *)
Publish(s) ==
    /\ phase[s] = "open"
    /\ s \in searchable
    /\ phase' = [phase EXCEPT ![s] = "indexed"]
    /\ withdrawn' = withdrawn \ {s}
    /\ UNCHANGED <<searchable, traces>>

(* Failed, or skipped as a duplicate.                                      *)
GiveUp(s) ==
    /\ phase[s] = "open"
    /\ phase' = [phase EXCEPT ![s] = "ended"]
    /\ UNCHANGED <<searchable, traces, withdrawn>>

(* Transcripts follow the publication; they only add.                      *)
Enrich(s) ==
    /\ phase[s] = "indexed"
    /\ traces' = traces \union {s}
    /\ UNCHANGED <<phase, searchable, withdrawn>>

(* A deletion takes what is stored, in some order and perhaps not to its   *)
(* end.                                                                    *)
Withdraw(s) ==
    /\ phase[s] \in {"indexed", "ended"}
    /\ searchable' \in {searchable, searchable \ {s}}
    /\ traces' \in {traces, traces \ {s}}
    /\ withdrawn' = withdrawn \union {s}
    /\ UNCHANGED phase

(* Only what is stored nowhere any more is forgotten.                      *)
Remove(s) ==
    /\ s \in withdrawn
    /\ s \notin traces
    /\ phase' = [phase EXCEPT ![s] = "absent"]
    /\ withdrawn' = withdrawn \ {s}
    /\ UNCHANGED <<searchable, traces>>

Next ==
    \E s \in Sources :
        \/ Open(s) \/ Work(s) \/ Publish(s) \/ GiveUp(s)
        \/ Enrich(s) \/ Withdraw(s) \/ Remove(s)

Spec == Init /\ [][Next]_vars
=============================================================================
