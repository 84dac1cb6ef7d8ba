----------------------------- MODULE MCOperation -----------------------------
(* TLC instance of what runs by itself, under fairness: the counts of the  *)
(* API in Redis and out of it, and the way the stack comes up.  A          *)
(* behaviour is about one of the two; they share no state.                 *)
EXTENDS Metering, Startup, TLC

CONSTANTS r1, r2, c1, c2

(* Both calls are of one replica, which only then matters to each other.   *)
OneHost == {(c1 :> r1) @@ (c2 :> r1)}

VARIABLE part

operationVars == <<meterVars, startVars, part>>

(* The part that a behaviour is not about waits in one state of its own.   *)
MCInit ==
    /\ part \in {"metering", "startup"}
    /\ MeterInit
    /\ part = "metering" \/ (calling = "metrics" /\ up)
    /\ StartInit
    /\ part = "startup" \/ (gate /\ qdrant)

MCNext ==
    /\ UNCHANGED part
    /\ \/ part = "metering" /\ MeterNext /\ UNCHANGED startVars
       \/ part = "startup" /\ StartNext /\ UNCHANGED meterVars

MCSpec ==
    /\ MCInit /\ [][MCNext]_operationVars
    /\ part = "metering" => MeterFairness
    /\ part = "startup" => StartFairness

(* Reconnects, of the behaviours that are about metering.                  *)
ClientReturns == part = "metering" => Reconnects

(* StackComesUp, of the behaviours that are about starting up.             *)
ComesUp == part = "startup" => StackComesUp
=============================================================================
