------------------------------- MODULE Ledger -------------------------------
(***************************************************************************)
(* What the telemetry pipeline promises about every record it accepts: it  *)
(* may be lost only while it is in a process's memory; once Redis or a     *)
(* spool file has it, it stays until it is added to the tables, and it is  *)
(* added to them once.                                                     *)
(***************************************************************************)
CONSTANT Items

VARIABLE phase

Phases == {"new", "accepted", "durable", "applied", "lost"}

\* A spool left by an earlier run already holds durable records.
Init == phase \in [Items -> {"new", "durable"}]

Move(S, from, to) ==
  /\ \A i \in S : phase[i] = from
  /\ phase' = [i \in Items |-> IF i \in S THEN to ELSE phase[i]]

Accept(S) == Move(S, "new", "accepted")

Persist(S) == Move(S, "accepted", "durable")

Apply(S) == Move(S, "durable", "applied")

Lose(S) == Move(S, "accepted", "lost")

Next ==
  \E S \in SUBSET Items : Accept(S) \/ Persist(S) \/ Apply(S) \/ Lose(S)

Spec == Init /\ [][Next]_phase

=============================================================================
