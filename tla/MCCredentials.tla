---------------------------- MODULE MCCredentials ----------------------------
(***************************************************************************)
(* Instances of Credentials for TLC.                                       *)
(***************************************************************************)
EXTENDS Credentials, TLC

CONSTANTS n1, n2, r1, r2, r3, u1, u2

RequestSymmetry == Permutations(Requests)

UpstreamSymmetry == Permutations(Upstreams)

FullSymmetry == RequestSymmetry \cup UpstreamSymmetry

=============================================================================
