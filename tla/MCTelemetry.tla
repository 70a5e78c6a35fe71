----------------------------- MODULE MCTelemetry -----------------------------
(***************************************************************************)
(* Instances of Telemetry for TLC.                                         *)
(***************************************************************************)
EXTENDS Telemetry, TLC

CONSTANTS n1, n2, old, i1, i2, i3

NoLegacy == [n \in Nodes |-> <<>>]

\* An upgrade found one batch of an earlier release in the spool of n1.
OneLegacy ==
  [n \in Nodes |-> IF n = n1
                     THEN <<[producer |-> old, seq |-> 1, items |-> {i1}]>>
                     ELSE <<>>]

\* i1 may be in the legacy spool, the others are interchangeable.
ItemSymmetry == Permutations({i2, i3})

=============================================================================
