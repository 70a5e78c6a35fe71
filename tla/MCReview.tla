------------------------------ MODULE MCReview ------------------------------
(***************************************************************************)
(* What a review is made of beside the path of a forwarded request: the    *)
(* calls to the classifier, and the interface that offers reviews alone.   *)
(* They share nothing but the review, whose outcome the interface takes as *)
(* it comes, so each is run by itself.                                     *)
(***************************************************************************)
EXTENDS MCClassifier, ReviewApi

CONSTANTS r1, r2, r3, k1

VARIABLE subject

ReviewInit ==
  /\ subject \in {"classifier", "api"}
  /\ Init
  /\ ApiInit

ReviewNext ==
  \/ subject = "classifier" /\ Next /\ UNCHANGED <<subject, apiVars>>
  \/ subject = "api" /\ ApiNext /\ UNCHANGED <<subject, vars>>

ReviewSpec == ReviewInit /\ [][ReviewNext]_<<subject, vars, apiVars>>

ReviewSymmetry == CallSymmetry \cup Permutations(Requests)

=============================================================================
