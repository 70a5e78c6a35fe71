-------------------------- MODULE MCConfigSnapshot --------------------------
(***************************************************************************)
(* Instances of ConfigSnapshot for TLC.                                    *)
(***************************************************************************)
EXTENDS ConfigSnapshot, TLC

CONSTANTS n1, n2, r1, r2

AllKinds == <<"policy", "jev", "upstream">>

TwoKinds == <<"policy", "jev">>

SwitchOn == [kind |-> "policy", fields |-> ("enabled" :> TRUE)]
AddScene == [kind |-> "policy", fields |-> ("scenes" :> 1)]
BadMessage == [kind |-> "policy", fields |-> ("message" :> -1)]
Replace == [kind |-> "policy", fields |-> [enabled |-> TRUE, scenes |-> 2, message |-> 1]]
SameKey == [kind |-> "jev", key |-> 0]
NewUpstream == [kind |-> "upstream", url |-> 1]

AllUpdates == {SwitchOn, BadMessage, Replace, SameKey, NewUpstream}

PolicyUpdates == {SwitchOn, AddScene}

OneUpdate == {Replace}

RequestSymmetry == Permutations(Requests)

=============================================================================
