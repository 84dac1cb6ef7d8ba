------------------------------- MODULE Startup -------------------------------
(* How the stack comes up under docker compose: the seed runs first        *)
(* (seed.py, seeding.py) and api and workers wait for its exit 0; then the *)
(* api (app.lifespan) and the workers (worker.main) migrate the schema and *)
(* create the Qdrant collections, at the same time.  The CLIP service      *)
(* (clip_service.py) warms up meanwhile, Qdrant may be away, and processes *)
(* may die.                                                                *)
EXTENDS Naturals, FiniteSets

CONSTANTS
    Samples,      \* SAMPLE_VIDEOS
    Workers,      \* worker replicas
    Api,          \* the api process
    MaxPasses,    \* _MAX_PASSES
    MaxFailures   \* bound: what goes wrong in a behaviour

ASSUME StartupAssumption ==
    /\ IsFiniteSet(Samples) /\ Api \notin Workers
    /\ MaxPasses \in Nat \ {0} /\ MaxFailures \in Nat

VARIABLES
    gate,         \* SEED_SAMPLE_VIDEOS
    qdrant,       \* Qdrant answers
    warm,         \* the CLIP service has loaded its models
    columns,      \* what ms_videos has: nothing, its columns, and `kind'
    collections,  \* the collections that exist
    indexed,      \* samples whose row says indexed
    seed,         \* stage of the seed, passes begun, samples of this pass
    stage,        \* stage of the api and of each worker
    failures

startVars == <<gate, qdrant, warm, columns, collections, indexed, seed, stage,
               failures>>

Services == Workers \union {Api}
SeedStages == {"off", "schema", "visual", "create", "clip", "pass", "done",
               "given_up"}
ServiceStages == {"down", "schema", "kind", "visual", "create", "text",
                  "create_text", "up"}

StartTypeOK ==
    /\ {gate, qdrant, warm} \subseteq BOOLEAN
    /\ columns \subseteq {"base", "kind"}
    /\ collections \subseteq {"visual", "text"}
    /\ indexed \subseteq Samples
    /\ seed \in [at : SeedStages, pass : 0 .. MaxPasses,
                 todo : SUBSET Samples]
    /\ stage \in [Services -> ServiceStages]
    /\ failures \in 0 .. MaxFailures

(* A fresh deployment.                                                     *)
StartInit ==
    /\ gate \in BOOLEAN /\ qdrant \in BOOLEAN /\ warm = FALSE
    /\ columns = {} /\ collections = {} /\ indexed = {}
    /\ seed = [at |-> "off", pass |-> 0, todo |-> {}]
    /\ stage = [s \in Services |-> "down"]
    /\ failures = 0

SeedGoes(next) == seed' = [seed EXCEPT !.at = next]
Goes(s, next)  == stage' = [stage EXCEPT ![s] = next]
-----------------------------------------------------------------------------
(* vector_store._ensure: collection_exists, and create_collection when it  *)
(* does not.  Both raise when Qdrant is away, and the second too when      *)
(* another process was first.  (An index that cannot be made is ignored.)  *)
Missing(c) == qdrant /\ c \notin collections
Exists(c)  == qdrant /\ c \in collections

Create(c) ==
    /\ Missing(c)
    /\ collections' = collections \union {c}

Raises(here, asking, creating, c) ==
    \/ here = asking /\ ~qdrant
    \/ here = creating /\ ~Missing(c)

-----------------------------------------------------------------------------
(* The seed: seed.main, seed_to_completion.                                *)

(* `docker compose up', again after it has given up (restart: "no").       *)
SeedStarts ==
    /\ seed.at \in {"off", "given_up"}
    /\ seed' = [at |-> IF gate THEN "schema" ELSE "done", pass |-> 0,
                todo |-> {}]
    /\ UNCHANGED <<gate, qdrant, warm, columns, collections, indexed, stage,
                   failures>>

SeedSchema ==
    /\ seed.at = "schema"
    /\ columns' = columns \union {"base"}
    /\ SeedGoes("visual")
    /\ UNCHANGED <<gate, qdrant, warm, collections, indexed, stage, failures>>

SeedEnsure ==
    /\ \/ /\ seed.at = "visual" /\ Exists("visual")
          /\ SeedGoes("clip")
          /\ UNCHANGED collections
       \/ /\ seed.at = "visual" /\ Missing("visual")
          /\ SeedGoes("create")
          /\ UNCHANGED collections
       \/ /\ seed.at = "create"
          /\ Create("visual")
          /\ SeedGoes("clip")
       \/ /\ Raises(seed.at, "visual", "create", "visual")
          /\ SeedGoes("given_up")
          /\ UNCHANGED collections
    /\ UNCHANGED <<gate, qdrant, warm, columns, indexed, stage, failures>>

(* wait_for_clip returns: the service answers, or it is out of patience.   *)
NotIndexed == Samples \ indexed

WaitForClip ==
    /\ seed.at = "clip"
    /\ SeedGoes(IF NotIndexed = {} THEN "done" ELSE "pass")
    /\ UNCHANGED <<gate, qdrant, warm, columns, collections, indexed, stage,
                   failures>>

(* Mutant: exit 0 after the last pass.                                     *)
NextPassOrEnough ==
    /\ seed.at = "pass" /\ seed.todo = {}
    /\ seed' = IF NotIndexed # {} /\ seed.pass < MaxPasses
               THEN [seed EXCEPT !.pass = @ + 1, !.todo = NotIndexed]
               ELSE [seed EXCEPT !.at = "done"]
    /\ UNCHANGED <<gate, qdrant, warm, columns, collections, indexed, stage,
                   failures>>

(* The next pass over what is not indexed, or the verdict.                 *)
NextPass ==
    /\ seed.at = "pass" /\ seed.todo = {}
    /\ seed' = IF NotIndexed # {} /\ seed.pass < MaxPasses
               THEN [seed EXCEPT !.pass = @ + 1, !.todo = NotIndexed]
               ELSE [seed EXCEPT !.at = IF NotIndexed = {} THEN "done"
                                        ELSE "given_up"]
    /\ UNCHANGED <<gate, qdrant, warm, columns, collections, indexed, stage,
                   failures>>

(* embeddings._post: patience for a cold service, then an exception.       *)
Embeds == warm

(* upsert_pending, then the ingest in this process, which needs the CLIP   *)
(* service within the patience of embeddings._post, and Qdrant; it may     *)
(* fail for reasons of its own.                                            *)
IngestSample(v) ==
    /\ seed.at = "pass" /\ v \in seed.todo
    /\ seed' = [seed EXCEPT !.todo = @ \ {v}]
    /\ \/ /\ qdrant /\ Embeds
          /\ indexed' = indexed \union {v}
          /\ UNCHANGED failures
       \/ /\ ~(qdrant /\ Embeds)
          /\ UNCHANGED <<indexed, failures>>
       \/ /\ failures < MaxFailures
          /\ failures' = failures + 1
          /\ UNCHANGED indexed
    /\ UNCHANGED <<gate, qdrant, warm, columns, collections, stage>>

-----------------------------------------------------------------------------
(* Api and workers.                                                        *)

(* depends_on: the seed has completed successfully.                        *)
ServiceStarts(s) ==
    /\ stage[s] = "down"
    /\ seed.at = "done"
    /\ Goes(s, "schema")
    /\ UNCHANGED <<gate, qdrant, warm, columns, collections, indexed, seed,
                   failures>>

(* db.init_schema; only the api goes on to add_kind_column (and to the     *)
(* tables of keys and of the audit).                                       *)
Migrate(s) ==
    /\ \/ /\ stage[s] = "schema"
          /\ columns' = columns \union {"base"}
          /\ Goes(s, IF s = Api THEN "kind" ELSE "visual")
       \/ /\ stage[s] = "kind"
          /\ columns' = columns \union {"kind"}
          /\ Goes(s, "visual")
    /\ UNCHANGED <<gate, qdrant, warm, collections, indexed, seed, failures>>

(* Mutant: the create is retried.                                          *)
EnsureInsists(s, asking, creating, c, next) ==
    /\ \/ /\ stage[s] = asking /\ qdrant
          /\ Goes(s, IF c \in collections THEN next ELSE creating)
          /\ UNCHANGED collections
       \/ /\ stage[s] = creating
          /\ Create(c)
          /\ Goes(s, next)
    /\ UNCHANGED <<gate, qdrant, warm, columns, indexed, seed, failures>>

(* ensure_collection.  An exception is the end of a worker, and no matter  *)
(* to the api, whose search then has nothing to find.                      *)
Ensure(s, asking, creating, c, next) ==
    /\ \/ /\ stage[s] = asking /\ Exists(c)
          /\ Goes(s, next)
          /\ UNCHANGED collections
       \/ /\ stage[s] = asking /\ Missing(c)
          /\ Goes(s, creating)
          /\ UNCHANGED collections
       \/ /\ stage[s] = creating
          /\ Create(c)
          /\ Goes(s, next)
       \/ /\ Raises(stage[s], asking, creating, c)
          /\ Goes(s, IF s = Api THEN "up" ELSE "down")
          /\ UNCHANGED collections
    /\ UNCHANGED <<gate, qdrant, warm, columns, indexed, seed, failures>>

EnsureVisual(s) ==
    Ensure(s, "visual", "create", "visual", IF s = Api THEN "text" ELSE "up")
EnsureText == Ensure(Api, "text", "create_text", "text", "up")

-----------------------------------------------------------------------------
(* Surroundings.                                                           *)

(* lifespan of the CLIP service: both models are loaded before it answers. *)
ClipWarm ==
    /\ ~warm
    /\ warm' = TRUE
    /\ UNCHANGED <<gate, qdrant, columns, collections, indexed, seed, stage,
                   failures>>

QdrantReturns ==
    /\ ~qdrant
    /\ qdrant' = TRUE
    /\ UNCHANGED <<gate, warm, columns, collections, indexed, seed, stage,
                   failures>>

Fails ==
    /\ failures < MaxFailures
    /\ failures' = failures + 1
    /\ \/ /\ qdrant
          /\ qdrant' = FALSE
          /\ UNCHANGED <<warm, seed, stage>>
       \/ /\ warm
          /\ warm' = FALSE
          /\ UNCHANGED <<qdrant, seed, stage>>
       \/ /\ seed.at \notin {"off", "done", "given_up"}
          /\ SeedGoes("given_up")
          /\ UNCHANGED <<qdrant, warm, stage>>
       \/ \E s \in Services :
            /\ stage[s] # "down"
            /\ Goes(s, "down")
            /\ UNCHANGED <<qdrant, warm, seed>>
    /\ UNCHANGED <<gate, columns, collections, indexed>>
-----------------------------------------------------------------------------
Seeds ==
    \/ SeedStarts \/ SeedSchema \/ SeedEnsure \/ WaitForClip \/ NextPass
    \/ \E v \in Samples : IngestSample(v)

Serves(s) ==
    \/ ServiceStarts(s) \/ Migrate(s) \/ EnsureVisual(s)
    \/ s = Api /\ EnsureText

StartNext ==
    \/ Seeds
    \/ \E s \in Services : Serves(s)
    \/ ClipWarm \/ QdrantReturns \/ Fails

StartSpec == StartInit /\ [][StartNext]_startVars

(* Processes get on, compose restarts those that die (restart:             *)
(* unless-stopped) and somebody starts a seed that gave up again; Qdrant   *)
(* and the CLIP service come back.                                         *)
StartFairness ==
    /\ WF_startVars(Seeds)
    /\ \A s \in Services : WF_startVars(Serves(s))
    /\ WF_startVars(ClipWarm) /\ WF_startVars(QdrantReturns)
-----------------------------------------------------------------------------
(* docker-compose.yml: `UI up only after samples ready'; seeding.py: `the  *)
(* UI is never reachable with a half-indexed corpus'.  And a worker takes  *)
(* runs only when it has a collection to put points in, whoever made it.   *)
UpMeansReady ==
    \A s \in Services :
        /\ gate /\ stage[s] # "down" => indexed = Samples
        /\ stage[s] = "up" /\ s # Api => "visual" \in collections
        /\ stage[s] = "up" => "base" \in columns

(* The stack comes up in the end and stays so, with what the dispatcher    *)
(* and the search need: whoever loses the race for a collection, whatever  *)
(* dies, and however often the seed has to be started again.               *)
StackComesUp ==
    <>[](/\ \A s \in Services : stage[s] = "up"
         /\ "kind" \in columns /\ "visual" \in collections
         /\ gate => indexed = Samples)
=============================================================================
