----------------------------- MODULE MCClassifier -----------------------------
(***************************************************************************)
(* Instances of Classifier for TLC.                                        *)
(***************************************************************************)
EXTENDS Classifier, TLC

CONSTANTS c1, c2, q1, q2

Saved == [base |-> "b", key |-> "k", model |-> "m"]

\* One differs in the key alone, one was never completed.
TwoConnections == {Saved, [Saved EXCEPT !.key = "k2"]}

ThreeConnections == TwoConnections \cup {[Saved EXCEPT !.key = ""]}

Catalogue == (q1 :> "noul") @@ (q2 :> "score")

OneAsk == {{q1}}

TwoAsks == {{q1}, {q1, q2}}

\* Exact, with an answer of an unknown kind, too many, out of range, and not to
\* be decoded.
AllBodies ==
  { q1 :> "noul", (q1 :> "noul") @@ (q2 :> "new"), (q1 :> "noul") @@ (q2 :> "score"),
    q1 :> "wild", q1 :> "broken" }

\* The second is more than the policy honours.
Headers == {1, 2}

CallSymmetry == Permutations(Calls)

=============================================================================
