----------------------------- MODULE MCSecurity -----------------------------
(***************************************************************************)
(* What store/security.go keeps in Redis, each under keys of its own: the  *)
(* trusted keys, the administrator's sessions and the login attempts of an *)
(* address.  They share nothing, so each is run by itself.                 *)
(***************************************************************************)
EXTENDS MCCredentials, AdminSessions, LoginThrottle

CONSTANTS g1, g2, s1, s2, s3

VARIABLE subject

SecurityInit ==
  /\ subject \in {"keys", "sessions", "attempts"}
  /\ Init
  /\ SessionsInit
  /\ ThrottleInit
  /\ subject # "sessions" => ttl = [t \in Tokens |-> 0]

SecurityNext ==
  \/ subject = "keys" /\ Next /\ UNCHANGED <<subject, sessionVars, throttleVars>>
  \/ subject = "sessions" /\ SessionsNext /\ UNCHANGED <<subject, vars, throttleVars>>
  \/ subject = "attempts" /\ ThrottleNext /\ UNCHANGED <<subject, vars, sessionVars>>

SecuritySpec ==
  SecurityInit /\ [][SecurityNext]_<<subject, vars, sessionVars, throttleVars>>

SecuritySymmetry ==
  FullSymmetry \cup Permutations(Old) \cup Permutations(Gateways)

=============================================================================
