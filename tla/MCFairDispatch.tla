--------------------------- MODULE MCFairDispatch ---------------------------
(* TLC instances of FairDispatch.  Video ids are numbers because the fair  *)
(* order breaks ties by id; dispatchers and users are model values.        *)
EXTENDS FairDispatch, TLC

CONSTANTS d1, d2, alice, bob

OneDispatcher  == {d1}
TwoDispatchers == {d1, d2}
OneUser        == {alice}
TwoUsers       == {alice, bob}

NoDocuments   == {0}
SomeDocuments == {0, 1}

(* Dispatchers and users are alike; video ids are not.                      *)
Alike == Permutations(Dispatchers) \union Permutations(Users)

CleanWorld      == {"refused", "resubmit"}
ReconciledWorld == {"reconcile"}
ResubmitWorld   == {"resubmit"}
=============================================================================
