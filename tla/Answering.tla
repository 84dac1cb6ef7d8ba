------------------------------ MODULE Answering ------------------------------
(* One question, through POST /api/ask or /api/retrieve (api/search.py,    *)
(* rag/search.py): two searches, the join with the rows, the confidence    *)
(* gate, the choice of the model, the frames, the answer.  Between two     *)
(* steps a source may be deleted or ingested again, and the tenant may     *)
(* change the model that answers them.                                     *)
(*                                                                         *)
(* Fusion has the moments and their order; here a source found is one      *)
(* moment, and any order may come.                                         *)
EXTENDS Naturals, Sequences, FiniteSets

CONSTANTS
    Tenants,
    Library,      \* sources in the manifest
    OwnerOf,      \* the user_id in the payload of a source's points
    Content,      \* per source: the branches it has points in
    Requests,     \* the questions: tenant, endpoint, scope
    Shown,        \* top_k, or TOP_K
    GateOn,       \* CONFIDENCE_THRESHOLD is not 0
    ServerModel,  \* LLM_* is configured
    Disturbances, \* of AllDisturbances, those that happen
    Disturbed     \* bound: the sources that they happen to

Branches == {"visual", "text"}
AllDisturbances == {"delete", "purge_lost", "rerun", "settings"}
None == "none"

ASSUME LibraryAssumption ==
    /\ IsFiniteSet(Library) /\ None \notin Library
    /\ OwnerOf \in [Library -> Tenants]
    /\ Content \in [Library -> SUBSET Branches]
    /\ Disturbed \subseteq Library
ASSUME RequestsAssumption ==
    Requests \subseteq [uid : Tenants, api : {"ask", "retrieve"},
                        video_id : Library \union {None},
                        video_ids : SUBSET Library]
ASSUME AskConfigAssumption ==
    /\ Shown \in Nat \ {0} /\ GateOn \in BOOLEAN /\ ServerModel \in BOOLEAN
    /\ Disturbances \subseteq AllDisturbances

VARIABLES
    points,     \* per branch: the sources with points in its collection
    rows,       \* sources with a row in ms_videos
    frames,     \* sources with frames in object storage
    deleting,   \* per source: what a DELETE of it has still to do
    rerunning,  \* sources between the purge and the last upsert of a rerun
    ownModel,   \* the tenant who asks has a row in ms_user_llms
    step,       \* of the request
    request,
    found,      \* per branch: the sources it found
    strong,     \* branches whose best score reaches their threshold
    cites,      \* citations: source, and whether the row was there
    model,      \* whose model answers
    evidence,    \* per citation: the source whose frame goes to the model
    refs,       \* the citation numbers in the answer
    gone,       \* history: sources without a row when the question came
    lost        \* history: sources whose points Qdrant did not delete

worldVars  == <<points, rows, frames, deleting, rerunning, ownModel, lost>>
answerVars == <<step, request, found, strong, cites, model, evidence, refs,
                gone>>
askVars    == <<worldVars, answerVars>>

Ended == {"refused", "failed", "retrieved", "abstained", "fallback",
          "answered"}

AskTypeOK ==
    /\ points \in [Branches -> SUBSET Library]
    /\ {rows, frames, rerunning, gone, lost} \subseteq SUBSET Library
    /\ deleting \in [Library -> {None, "frames", "row", "done"}]
    /\ ownModel \in BOOLEAN
    /\ step \in {"idle", "visual", "text", "join", "gate", "model", "frames",
                 "generate"} \union Ended
    /\ request \in Requests
    /\ found \in [Branches -> SUBSET Library] /\ strong \subseteq Branches
    /\ Len(cites) <= Shown
    /\ \A i \in DOMAIN cites : cites[i] \in [source : Library, known : BOOLEAN]
    /\ model \in {"user", "server", None}
    /\ \A i \in DOMAIN evidence :
         evidence[i] \in Library \union {None, "unread"}
    /\ refs \subseteq 0 .. Shown + 1

(* All is ingested.                                                        *)
AskInit ==
    /\ points = [b \in Branches |-> {s \in Library : b \in Content[s]}]
    /\ frames = points["visual"] /\ rows = Library
    /\ deleting = [s \in Library |-> None] /\ rerunning = {}
    /\ ownModel \in BOOLEAN
    /\ step = "idle" /\ request \in Requests
    /\ found = [b \in Branches |-> {}] /\ strong = {} /\ cites = <<>>
    /\ model = None /\ evidence = <<>> /\ refs = {} /\ gone = {} /\ lost = {}
-----------------------------------------------------------------------------
(* The request: a blank question is refused, and so is one that check_rate *)
(* does not let pass (see Metering).                                       *)
Ask ==
    /\ step = "idle"
    /\ step' \in {"visual", "refused"}
    /\ gone' = Library \ rows
    /\ UNCHANGED <<worldVars, request, found, strong, cites, model, evidence,
                   refs>>

(* Mutant: chosen sources are taken for one's own.                         *)
InScopeOfChoice(s) ==
    \/ request.video_id = s
    \/ /\ request.video_id = None
       /\ IF request.video_ids = {} THEN OwnerOf[s] = request.uid
          ELSE s \in request.video_ids

(* _user_filter: the tenant's points, of the one source, or of the sources *)
(* selected; `video_ids or None': none selected means all.                 *)
InScope(s) ==
    /\ OwnerOf[s] = request.uid
    /\ \/ request.video_id = s
       \/ /\ request.video_id = None
          /\ request.video_ids = {} \/ s \in request.video_ids

(* What a collection has in scope (nothing, when it does not exist yet).   *)
Hits(branch) == {s \in points[branch] : InScope(s)}

(* vector_store.search and search_text, each after the question's vector   *)
(* was asked of the embedding service.  The best of some hits is above the *)
(* threshold or not; of no hits it is 0.  Both calls may raise.            *)
Search(branch, next) ==
    /\ step = branch
    /\ \/ /\ step' = next
          /\ found' = [found EXCEPT ![branch] = Hits(branch)]
          /\ \E good \in BOOLEAN :
               /\ good => found'[branch] # {}
               /\ strong' = IF good THEN strong \union {branch} ELSE strong
       \/ /\ step' = "failed"
          /\ UNCHANGED <<found, strong>>
    /\ UNCHANGED <<worldVars, request, cites, model, evidence, refs, gone>>

(* The top_k moments, and db.videos_by_ids: a source without a row any     *)
(* more is cited by its id.                                                *)
Orders(S) == {q \in [1 .. Cardinality(S) -> S] :
                \A i, j \in DOMAIN q : i # j => q[i] # q[j]}

WithRow(s) == [source |-> s, known |-> s \in rows]

(* /api/retrieve ends with the moments.                                    *)
AfterRetrieval == IF request.api = "ask" THEN "gate" ELSE "retrieved"

Join ==
    /\ step = "join"
    /\ \E q \in Orders(found["visual"] \union found["text"]) :
         cites' = [i \in {j \in DOMAIN q : j <= Shown} |-> WithRow(q[i])]
    /\ step' = AfterRetrieval
    /\ UNCHANGED <<worldVars, request, found, strong, model, evidence, refs,
                   gone>>

(* Nothing found, or nothing convincing: abstain, and call no model.       *)
Confident == cites # <<>> /\ (GateOn => strong # {})

Gate ==
    /\ step = "gate"
    /\ step' = IF Confident THEN "model" ELSE "abstained"
    /\ UNCHANGED <<worldVars, request, found, strong, cites, model, evidence,
                   refs, gone>>

(* resolve_llm: the tenant's own model, else the server's, else none; with *)
(* none, _fallback_answer cites the first four moments.                    *)
ModelNow ==
    IF ownModel THEN "user" ELSE IF ServerModel THEN "server" ELSE None

Closest == DOMAIN cites \intersect 1 .. 4

ResolveModel ==
    /\ step = "model"
    /\ model' = ModelNow
    /\ step' = IF model' = None THEN "fallback" ELSE "frames"
    /\ refs' = IF model' = None THEN Closest ELSE {}
    /\ evidence' = [i \in DOMAIN cites |-> "unread"]
    /\ UNCHANGED <<worldVars, request, found, strong, cites, gone>>

(* _build_moments: threads read the frames in any order; a citation from   *)
(* text alone has none, and a frame that cannot be read is None too.       *)
FrameOf(s) == IF s \in found["visual"] \intersect frames THEN s ELSE None

ReadFrame(i) ==
    /\ step = "frames"
    /\ i \in DOMAIN evidence /\ evidence[i] = "unread"
    /\ evidence' = [evidence EXCEPT ![i] = FrameOf(cites[i].source)]
    /\ step' = IF \E j \in DOMAIN evidence : evidence'[j] = "unread"
               THEN "frames" ELSE "generate"
    /\ UNCHANGED <<worldVars, request, found, strong, cites, model, refs,
                   gone>>

(* Mutant: checked against TOP_K.                                          *)
ValidUpToTopK(numbers, n) ==
    {x \in numbers : 1 <= x /\ x <= Shown}

(* llm.answer may raise.  The model cites any numbers it likes, and        *)
(* _validate_citations keeps those that name a moment.                     *)
Valid(numbers, n) == {x \in numbers : 1 <= x /\ x <= n}

Replies == SUBSET (0 .. Shown + 1)      \* the numbers in what a model says

Generate ==
    /\ step = "generate"
    /\ \/ /\ step' = "answered"
          /\ \E numbers \in Replies :
               refs' = Valid(numbers, Len(evidence))
       \/ /\ step' = "failed"
          /\ UNCHANGED refs
    /\ UNCHANGED <<worldVars, request, found, strong, cites, model, evidence,
                   gone>>

-----------------------------------------------------------------------------
(* Meanwhile.                                                              *)

(* DELETE /api/videos/{id}: points of both branches, then the frames, then *)
(* the row; Qdrant's error is swallowed.  (A delete during the rerun of    *)
(* the same source is a matter of VideoIngest.)                            *)
DeletePoints(s) ==
    /\ "delete" \in Disturbances
    /\ deleting[s] = None /\ s \notin rerunning
    /\ deleting' = [deleting EXCEPT ![s] = "frames"]
    /\ \/ /\ points' = [b \in Branches |-> points[b] \ {s}]
          /\ UNCHANGED lost
       \/ /\ "purge_lost" \in Disturbances
          /\ lost' = lost \union {s}
          /\ UNCHANGED points
    /\ UNCHANGED <<rows, frames, rerunning, ownModel, answerVars>>

DeleteFrames(s) ==
    /\ deleting[s] = "frames"
    /\ deleting' = [deleting EXCEPT ![s] = "row"]
    /\ frames' = frames \ {s}
    /\ UNCHANGED <<points, rows, rerunning, ownModel, lost, answerVars>>

DeleteRow(s) ==
    /\ deleting[s] = "row"
    /\ deleting' = [deleting EXCEPT ![s] = "done"]
    /\ rows' = rows \ {s}
    /\ UNCHANGED <<points, frames, rerunning, ownModel, lost, answerVars>>

(* A rerun of the ingest purges the points, and writes them again, branch  *)
(* by branch.                                                              *)
Rerun(s) ==
    /\ "rerun" \in Disturbances
    /\ s \in rows /\ deleting[s] = None /\ s \notin rerunning
    /\ points' = [b \in Branches |-> points[b] \ {s}]
    /\ rerunning' = rerunning \union {s}
    /\ UNCHANGED <<rows, frames, deleting, ownModel, lost, answerVars>>

Upsert(s) ==
    /\ s \in rerunning
    /\ LET missing == {b \in Content[s] : s \notin points[b]}
           next == IF "visual" \in missing THEN "visual" ELSE "text"
       IN  /\ points' = [points EXCEPT ![next] = @ \union {s}]
           /\ rerunning' = IF missing \subseteq {next}
                           THEN rerunning \ {s} ELSE rerunning
    /\ UNCHANGED <<rows, frames, deleting, ownModel, lost, answerVars>>

(* PUT /api/llm, DELETE /api/llm.                                          *)
PutModel ==
    /\ "settings" \in Disturbances
    /\ ownModel' = TRUE
    /\ UNCHANGED <<points, rows, frames, deleting, rerunning, lost,
                   answerVars>>

DeleteModel ==
    /\ "settings" \in Disturbances
    /\ ownModel' = FALSE
    /\ UNCHANGED <<points, rows, frames, deleting, rerunning, lost,
                   answerVars>>
-----------------------------------------------------------------------------
Answer ==
    \/ Ask
    \/ Search("visual", "text")
    \/ Search("text", "join")
    \/ Join \/ Gate \/ ResolveModel
    \/ \E i \in 1 .. Shown : ReadFrame(i)
    \/ Generate

(* Once the request has ended, nothing it was shown changes.               *)
Meanwhile ==
    /\ step \notin Ended
    /\ \/ \E s \in Disturbed :
            \/ DeletePoints(s) \/ DeleteFrames(s) \/ DeleteRow(s)
            \/ Rerun(s) \/ Upsert(s)
       \/ PutModel \/ DeleteModel

AskNext == Answer \/ Meanwhile

AskSpec == AskInit /\ [][AskNext]_askVars
-----------------------------------------------------------------------------
(* Module comment of rag/search.py: `generated answers get their [n]       *)
(* citations validated', and the gate `abstains WITHOUT calling the LLM'.  *)
(* Whatever else happens during the request, each number in an answer      *)
(* names a moment of the list that comes with it, that moment was shown to *)
(* the model with the frame of its own source or without a frame, and an   *)
(* answer was made only of confident evidence.                             *)
Grounded ==
    /\ refs # {} =>
         /\ step \in {"answered", "fallback"}
         /\ GateOn => strong # {}
    /\ \A n \in refs :
         /\ n \in DOMAIN cites
         /\ evidence[n] \in {cites[n].source, None}
              \union (IF model = None THEN {"unread"} ELSE {})

(* A question is answered from sources of the tenant, of those selected,   *)
(* and never from one whose row was gone when the question came (unless    *)
(* Qdrant had lost its purge): DELETE takes the row last, so a hit that    *)
(* has no row at the join is of a source deleted during the request.       *)
CitesTheirOwn ==
    \A i \in DOMAIN cites :
        LET s == cites[i].source IN
        /\ OwnerOf[s] = request.uid
        /\ request.video_id \in {s, None}
        /\ request.video_id = None /\ request.video_ids # {} =>
               s \in request.video_ids
        /\ s \notin gone \ lost
=============================================================================
