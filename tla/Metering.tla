------------------------------ MODULE Metering ------------------------------
(* What the API replicas count (guardrails.py, metrics.py), in Redis when  *)
(* they can (redis_client.py) and in their own memory when they cannot:    *)
(* the requests of one user against RATE_MAX, and one metric.              *)
(*                                                                         *)
(* Time is counted in ticks.  Nothing grows with it: hits carry their age, *)
(* a bucket key its remaining life, and a new minute is a new bucket.      *)
EXTENDS Naturals, Sequences, FiniteSets

CONSTANTS
    Replicas,
    Calls,       \* threads that call check_rate, inc or render
    Hosts,       \* the ways the calls may be spread over the replicas
    RateMax,     \* RATE_MAX
    RateWindow,  \* RATE_WINDOW, in ticks
    Cooldown,    \* RETRY_COOLDOWN_S, in ticks
    MaxEvents,   \* bound: metric events that are counted
    Faults       \* of AllFaults, those that happen

AllFaults == {"down", "late", "stop"}

ASSUME HostsAssumption ==
    IsFiniteSet(Calls) /\ Hosts \subseteq [Calls -> Replicas]
ASSUME NumbersAssumption ==
    /\ RateMax \in Nat \ {0} /\ RateWindow \in Nat \ {0}
    /\ Cooldown \in Nat \ {0} /\ MaxEvents \in Nat
ASSUME FaultsAssumption == Faults \subseteq AllFaults

VARIABLES
    host,       \* the replica of each call
    calling,    \* what the calls of this behaviour are for
    phase,      \* time.time() % RATE_WINDOW
    up,         \* Redis answers
    used,       \* the value of the key rl:user:bucket of the current bucket
    ttl,        \* ticks until that key expires, or Never
    total,      \* the metric in the hash glimpse:ctr
    client,     \* per replica: _client is set
    cool,       \* per replica: ticks until _next_try
    hits,       \* per replica: ages of the requests in _hits, oldest first
    counter,    \* per replica: the metric in _counters
    at,         \* per call: where it is
    passed,     \* history: what INCR let pass in this bucket
    own,        \* history: ages of what each replica let pass by itself
    events,     \* history: inc() calls
    seen        \* history: the greatest total that a scrape showed

fixed       == <<host, calling>>
redisVars   == <<up, used, ttl, total>>
replicaVars == <<client, cool, hits, counter>>
historyVars == <<passed, own, events, seen>>
meterVars == <<fixed, phase, redisVars, replicaVars, at, historyVars>>

Never == RateWindow + 2      \* a key without EXPIRE

(* A call is at a step of check_rate, of inc, or of render.  "rate_first"  *)
(* is between INCR and EXPIRE, "rate_late" too, but a new bucket has begun.*)
Steps == {"idle",
          "rate_client", "rate_connect", "rate_incr", "rate_first",
          "rate_late", "rate_own",
          "inc_client", "inc_connect", "inc_write",
          "scrape_client", "scrape_connect", "scrape_read"}

MeterTypeOK ==
    /\ host \in Hosts /\ calling \in {"check_rate", "metrics"}
    /\ phase \in 0 .. RateWindow - 1
    /\ up \in BOOLEAN /\ used \in 0 .. RateMax + 1 /\ ttl \in 0 .. Never
    /\ total \in 0 .. MaxEvents
    /\ client \in [Replicas -> BOOLEAN] /\ cool \in [Replicas -> 0 .. Cooldown]
    /\ hits \in [Replicas -> Seq(0 .. RateWindow + 1)]
    /\ counter \in [Replicas -> 0 .. MaxEvents]
    /\ at \in [Calls -> Steps]
    /\ passed \in Nat /\ own \in [Replicas -> Seq(0 .. RateWindow)]
    /\ events \in 0 .. MaxEvents /\ seen \in 0 .. MaxEvents

(* check_rate and the metrics share nothing but the client, so a behaviour *)
(* has calls of one of the two.                                            *)
MeterInit ==
    /\ host \in Hosts /\ calling \in {"check_rate", "metrics"}
    /\ phase = 0 /\ up \in {TRUE} \union {u \in {FALSE} : "down" \in Faults}
    /\ used = 0 /\ ttl = Never /\ total = 0
    /\ client = [r \in Replicas |-> FALSE] /\ cool = [r \in Replicas |-> 0]
    /\ hits = [r \in Replicas |-> <<>>] /\ counter = [r \in Replicas |-> 0]
    /\ at = [c \in Calls |-> "idle"]
    /\ passed = 0 /\ own = [r \in Replicas |-> <<>>]
    /\ events = 0 /\ seen = 0

Go(c, step) == at' = [at EXCEPT ![c] = step]
-----------------------------------------------------------------------------
(* redis_client.client(): the handle once there is one; else None within   *)
(* the cooldown; else this thread starts it anew and connects.             *)

(* Mutant: every miss restarts the cooldown.                               *)
FindClientAnew(c, asking, connecting, shared, alone) ==
    LET r == host[c] IN
    /\ at[c] = asking
    /\ \/ /\ client[r]
          /\ Go(c, shared)
          /\ UNCHANGED cool
       \/ /\ ~client[r]
          /\ Go(c, IF cool[r] = 0 THEN connecting ELSE alone)
          /\ cool' = [cool EXCEPT ![r] = Cooldown]
    /\ UNCHANGED <<fixed, phase, redisVars, client, hits, counter,
                   historyVars>>

FindClient(c, asking, connecting, shared, alone) ==
    LET r == host[c] IN
    /\ at[c] = asking
    /\ \/ /\ client[r]
          /\ Go(c, shared)
          /\ UNCHANGED cool
       \/ /\ ~client[r] /\ cool[r] > 0
          /\ Go(c, alone)
          /\ UNCHANGED cool
       \/ /\ ~client[r] /\ cool[r] = 0
          /\ Go(c, connecting)
          /\ cool' = [cool EXCEPT ![r] = Cooldown]
    /\ UNCHANGED <<fixed, phase, redisVars, client, hits, counter,
                   historyVars>>

(* PING answers or fails; a failure clears _client.                        *)
Connect(c, connecting, shared, alone) ==
    /\ at[c] = connecting
    /\ client' = [client EXCEPT ![host[c]] = up]
    /\ Go(c, IF up THEN shared ELSE alone)
    /\ UNCHANGED <<fixed, phase, redisVars, cool, hits, counter,
                   historyVars>>

-----------------------------------------------------------------------------
(* guardrails.check_rate                                                   *)

AskRate(c) ==
    /\ calling = "check_rate"
    /\ at[c] = "idle"
    /\ Go(c, "rate_client")
    /\ UNCHANGED <<fixed, phase, redisVars, replicaVars, historyVars>>

(* INCR on the key of the current bucket.  Its value is counted up to      *)
(* RateMax + 1, which already refuses.                                     *)
Incr ==
    /\ used' = IF used > RateMax THEN used ELSE used + 1
    /\ passed' = IF used < RateMax THEN passed + 1 ELSE passed

(* n = 1 goes on to EXPIRE; n > RATE_MAX is refused, any other n served.   *)
RateIncr(c) ==
    /\ at[c] = "rate_incr"
    /\ \/ /\ up
          /\ Incr
          /\ Go(c, IF used = 0 THEN "rate_first" ELSE "idle")
       \/ /\ up /\ "late" \in Faults      \* applied, but the answer is late
          /\ Incr
          /\ Go(c, "rate_own")
       \/ /\ ~up
          /\ Go(c, "rate_own")
          /\ UNCHANGED <<used, passed>>
    /\ UNCHANGED <<fixed, phase, up, ttl, total, replicaVars, own, events,
                   seen>>

(* EXPIRE key, RATE_WINDOW + 1: without an answer the request, though      *)
(* counted, is counted again in memory.                                    *)
RateExpire(c) ==
    /\ at[c] \in {"rate_first", "rate_late"}
    /\ ttl' = IF up /\ at[c] = "rate_first" THEN RateWindow + 1 ELSE ttl
    /\ Go(c, IF up THEN "idle" ELSE "rate_own")
    /\ UNCHANGED <<fixed, phase, up, used, total, replicaVars,
                   historyVars>>

(* popleft while the first is over: what came first is oldest, so as many  *)
(* go as are over.                                                         *)
Young(ages, most) ==
    SubSeq(ages, 1 + Cardinality({i \in DOMAIN ages : ages[i] > most}),
           Len(ages))

(* Mutant: a window one tick short.                                        *)
KeptShorter(r) == Young(hits[r], RateWindow - 1)

(* The sliding window of this replica, under _lock.                        *)
Kept(r) == Young(hits[r], RateWindow)

RateOwn(c) ==
    LET r == host[c] IN
    /\ at[c] = "rate_own"
    /\ \/ /\ Len(Kept(r)) >= RateMax
          /\ hits' = [hits EXCEPT ![r] = Kept(r)]
          /\ UNCHANGED own
       \/ /\ Len(Kept(r)) < RateMax
          /\ hits' = [hits EXCEPT ![r] = Append(Kept(r), 0)]
          /\ own' = [own EXCEPT ![r] = Append(@, 0)]
    /\ Go(c, "idle")
    /\ UNCHANGED <<fixed, phase, redisVars, client, cool, counter, passed,
                   events, seen>>

-----------------------------------------------------------------------------
(* metrics.inc, as observe_requests calls it after each request.           *)

Count(c) ==
    /\ calling = "metrics"
    /\ at[c] = "idle"
    /\ events < MaxEvents
    /\ counter' = [counter EXCEPT ![host[c]] = @ + 1]
    /\ events' = events + 1
    /\ Go(c, "inc_client")
    /\ UNCHANGED <<fixed, phase, redisVars, client, cool, hits, passed,
                   own, seen>>

(* Mutant: HSET of what this replica counted.                              *)
WriteOwn(c) ==
    /\ at[c] = "inc_write"
    /\ total' = IF up THEN counter[host[c]] ELSE total
    /\ Go(c, "idle")
    /\ UNCHANGED <<fixed, phase, up, used, ttl, replicaVars, historyVars>>

(* HINCRBYFLOAT: an error is swallowed, whether Redis applied it or not.   *)
Write(c) ==
    /\ at[c] = "inc_write"
    /\ total' = IF up THEN total + 1 ELSE total
    /\ Go(c, "idle")
    /\ UNCHANGED <<fixed, phase, up, used, ttl, replicaVars, historyVars>>

(* metrics.render and snapshot: HGETALL if it answers, else this replica.  *)
Scrape(c) ==
    /\ calling = "metrics"
    /\ at[c] = "idle"
    /\ Go(c, "scrape_client")
    /\ UNCHANGED <<fixed, phase, redisVars, replicaVars, historyVars>>

Read(c) ==
    /\ at[c] = "scrape_read"
    /\ seen' = IF up /\ total > seen THEN total ELSE seen
    /\ Go(c, "idle")
    /\ UNCHANGED <<fixed, phase, redisVars, replicaVars, passed, own,
                   events>>

-----------------------------------------------------------------------------
(* Surroundings.                                                           *)

Older(ages, most) ==
    [i \in DOMAIN ages |-> IF ages[i] < most THEN ages[i] + 1 ELSE most]

(* Time passes: a key of the current bucket may expire; at the end of the  *)
(* bucket the next one's key is used, which does not exist yet.            *)
Tick ==
    LET over == phase + 1 = RateWindow
        gone == over \/ ttl = 1
    IN
    /\ phase' = IF over THEN 0 ELSE phase + 1
    /\ used' = IF gone THEN 0 ELSE used
    /\ ttl' = IF gone \/ ttl = Never THEN Never ELSE ttl - 1
    /\ passed' = IF over THEN 0 ELSE passed
    /\ at' = [c \in Calls |->
                IF over /\ at[c] = "rate_first" THEN "rate_late" ELSE at[c]]
    /\ cool' = [r \in Replicas |-> IF cool[r] > 0 THEN cool[r] - 1 ELSE 0]
    /\ hits' = [r \in Replicas |-> Older(hits[r], RateWindow + 1)]
    /\ own' = [r \in Replicas |->
                 Older(Young(own[r], RateWindow - 1), RateWindow)]
    /\ UNCHANGED <<fixed, up, total, client, counter, events, seen>>

(* Redis goes, or comes back with what it held.                            *)
RedisTurns ==
    /\ "down" \in Faults
    /\ up' = ~up
    /\ UNCHANGED <<fixed, phase, used, ttl, total, replicaVars, at,
                   historyVars>>

(* A replica stops (idle machines are stopped) and is started again.       *)
Stop(r) ==
    /\ "stop" \in Faults
    /\ at' = [c \in Calls |-> IF host[c] = r THEN "idle" ELSE at[c]]
    /\ client' = [client EXCEPT ![r] = FALSE]
    /\ cool' = [cool EXCEPT ![r] = 0]
    /\ hits' = [hits EXCEPT ![r] = <<>>]
    /\ counter' = [counter EXCEPT ![r] = 0]
    /\ own' = [own EXCEPT ![r] = <<>>]
    /\ UNCHANGED <<fixed, phase, redisVars, passed, events, seen>>
-----------------------------------------------------------------------------
RateFind(c) ==
    FindClient(c, "rate_client", "rate_connect", "rate_incr", "rate_own")
RateConnect(c) == Connect(c, "rate_connect", "rate_incr", "rate_own")

MetricStep(c) ==
    \/ FindClient(c, "inc_client", "inc_connect", "inc_write", "idle")
    \/ Connect(c, "inc_connect", "inc_write", "idle")
    \/ Write(c)
    \/ FindClient(c, "scrape_client", "scrape_connect", "scrape_read", "idle")
    \/ Connect(c, "scrape_connect", "scrape_read", "idle")
    \/ Read(c)

MeterNext ==
    \/ \E c \in Calls :
         \/ AskRate(c) \/ RateFind(c) \/ RateConnect(c)
         \/ RateIncr(c) \/ RateExpire(c) \/ RateOwn(c)
         \/ Count(c) \/ Scrape(c) \/ MetricStep(c)
    \/ Tick
    \/ RedisTurns
    \/ \E r \in Replicas : Stop(r)

(* Time passes, a call ends (every Redis call has a timeout), users go on  *)
(* asking, and a machine is not stopped in the middle of each request.     *)
MeterFairness ==
    /\ WF_meterVars(Tick)
    /\ \A c \in Calls :
         /\ WF_meterVars(AskRate(c))
         /\ SF_meterVars(RateFind(c)) /\ SF_meterVars(RateConnect(c))
         /\ WF_meterVars(RateIncr(c) \/ RateExpire(c) \/ RateOwn(c))

MeterSpec == MeterInit /\ [][MeterNext]_meterVars
-----------------------------------------------------------------------------
(* check_rate: `correct across replicas'.  Of the requests of a user, all  *)
(* replicas together let at most RATE_MAX pass by one bucket of Redis, and *)
(* each replica at most RATE_MAX by itself in RATE_WINDOW, however Redis   *)
(* comes and goes between INCR and EXPIRE.                                 *)
RateBudget ==
    /\ passed <= RateMax
    /\ \A r \in Replicas : Len(own[r]) <= RateMax

(* metrics.py: the totals `survive a machine restart' and are `monotonic   *)
(* across restarts': no scrape that Redis answers shows less than an       *)
(* earlier one, and none more than was counted.                            *)
TotalsTrue ==
    /\ seen <= total
    /\ total <= events

(* redis_client.py: `Don't latch OFF forever on one blip'.  When Redis     *)
(* stays up, a replica that is asked gets its client back.                 *)
Reconnects ==
    \A c \in Calls :
        calling = "check_rate" /\ <>[]up => []<>client[host[c]]
=============================================================================
