------------------------------- MODULE Policy -------------------------------
(***************************************************************************)
(* The policy and its evaluator: scenes in order of priority, each a set   *)
(* of threshold comparisons over the classifier's scores.  The first scene *)
(* that matches decides.                                                   *)
(*                                                                         *)
(*   scene      [on, endpoints, models, match, mode, action, conditions,   *)
(*              freeze, ttl]; an empty set of endpoints or models is "all" *)
(*   condition  [question, threshold, recordOnly]                          *)
(*   policy     [enabled, scenes]                                          *)
(*   scores     a function from questions to numbers                       *)
(***************************************************************************)
EXTENDS Integers, Sequences, FiniteSets

\* A comparison without its disposition: what the review cache keeps a fact about.
Key(c) == <<c.question, c.threshold>>

Mode(s) == IF s.mode # "" THEN s.mode
           ELSE IF s.action = "allow" THEN "non_blocking" ELSE "blocking"

RecordsOnly(s, c) ==
  IF s.mode = "" \/ s.match = "all" THEN s.action = "allow" ELSE c.recordOnly

CanReject(s) == /\ Mode(s) # "non_blocking"
                /\ \E c \in s.conditions : ~RecordsOnly(s, c)

AppliesTo(s, endpoint) == s.on /\ (s.endpoints = {} \/ endpoint \in s.endpoints)

AppliesToModel(s, model) == s.models = {} \/ model \in s.models

Applicable(p, endpoint, model) ==
  {i \in DOMAIN p.scenes : /\ AppliesTo(p.scenes[i], endpoint)
                           /\ AppliesToModel(p.scenes[i], model)}

ApplicableConditions(p, endpoint, model) ==
  UNION {p.scenes[i].conditions : i \in Applicable(p, endpoint, model)}

RequiredQuestions(p, endpoint, model) ==
  IF p.enabled THEN {c.question : c \in ApplicableConditions(p, endpoint, model)} ELSE {}

\* What Validate refuses to save, as far as the evaluator and the freeze depend on it.
ValidScene(s) ==
  /\ s.mode \in {"", "blocking", "non_blocking"}
  /\ s.mode = "non_blocking" => \A c \in s.conditions : RecordsOnly(s, c)
  /\ s.mode # "" /\ s.freeze => CanReject(s)
  /\ s.freeze => s.ttl \in Nat \ {0}
  /\ s.match \in {"any", "all"}
  /\ s.action \in {"allow", "block"}
  /\ s.conditions # {}
  /\ \A c, d \in s.conditions : c.question = d.question => c = d

Validate(p) == /\ p.enabled => p.scenes # <<>>
               /\ \A i \in DOMAIN p.scenes : ValidScene(p.scenes[i])

-----------------------------------------------------------------------------
(***************************************************************************)
(* evaluateConditions, over facts: a function from keys to BOOLEAN.        *)
(***************************************************************************)

Hits(s, facts) == {c \in s.conditions : facts[Key(c)]}

Matches(s, facts) == IF s.match = "any" THEN Hits(s, facts) # {}
                                        ELSE Hits(s, facts) = s.conditions

\* No scene is number 0.
NoMatch == [scene |-> 0, action |-> "allow"]

Evaluate(p, endpoint, model, facts) ==
  LET matched == IF p.enabled
                   THEN {i \in Applicable(p, endpoint, model) : Matches(p.scenes[i], facts)}
                   ELSE {}
      first   == CHOOSE i \in matched : \A j \in matched : i <= j
      s       == p.scenes[first]
      rejects == \E c \in Hits(s, facts) : ~RecordsOnly(s, c)
  IN IF matched = {} THEN NoMatch
     ELSE [scene |-> first, action |-> IF rejects THEN "block" ELSE "allow"]

\* The facts a classification establishes (EvaluateDetailed; review saves the same).
Facts(conditions, scores) ==
  [k \in {Key(c) : c \in conditions} |-> scores[k[1]] > k[2]]

\* Variant: any match of a freezing scene freezes.
FreezeTTLOfMatch(p, decision) ==
  IF decision.scene = 0 THEN 0
  ELSE LET s == p.scenes[decision.scene] IN
       IF s.on /\ s.freeze THEN s.ttl ELSE 0

\* winningSceneFreezeTTL: 0 if the decision freezes nothing.
FreezeTTL(p, decision) ==
  IF decision.action # "block" THEN 0
  ELSE LET s == p.scenes[decision.scene] IN
       IF s.on /\ s.freeze THEN s.ttl ELSE 0

=============================================================================
