------------------------------ MODULE MCGateway ------------------------------
(***************************************************************************)
(* Instances of Gateway for TLC.                                           *)
(***************************************************************************)
EXTENDS Gateway

CONSTANTS r1, r2, r3

Condition(q, t, recordOnly) == [question |-> q, threshold |-> t, recordOnly |-> recordOnly]

\* Rejects on one question of model m1, records another, freezes for two ticks.
Rejecting ==
  [on |-> TRUE, endpoints |-> {}, models |-> {"m1"}, match |-> "any", mode |-> "blocking",
   action |-> "block", conditions |-> {Condition("q1", 1, FALSE), Condition("q2", 1, TRUE)},
   freeze |-> TRUE, ttl |-> 2]

\* Records in the background, for every model, at the same threshold.
Recording ==
  [on |-> TRUE, endpoints |-> {}, models |-> {}, match |-> "all", mode |-> "non_blocking",
   action |-> "allow", conditions |-> {Condition("q2", 1, TRUE)}, freeze |-> FALSE, ttl |-> 0]

Both == [enabled |-> TRUE, scenes |-> <<Rejecting, Recording>>]

\* A shorter freeze.
Shorter == [enabled |-> TRUE, scenes |-> <<[Rejecting EXCEPT !.ttl = 1], Recording>>]

OnePolicy == <<Both>>
TwoPolicies == <<Both, Shorter>>

Score(a, b) == [q \in {"q1", "q2"} |-> IF q = "q1" THEN a ELSE b]

TwoScores == {Score(2, 0), Score(0, 2)}

Turn1 == <<"user", 1>>
Reply == <<"model", 1>>
Turn2 == <<"user", 2>>
Turn3 == <<"user", 3>>

Call(model, text, session, items) ==
  [endpoint |-> "openai_chat", model |-> model, text |-> text, long |-> FALSE,
   credential |-> "c", session |-> session, scope |-> "ip", items |-> items]

Long == <<Turn1, Reply, Turn2, Reply>>

\* A conversation and its latest turn edited.
Edited == [r \in Requests |-> IF r = r1 THEN Call("m1", "t", None, <<Turn1, Reply, Turn2>>)
                              ELSE Call("m1", "t", None, <<Turn1, Reply, Turn3>>)]

\* Two turns of one named session with unrelated histories and no client address.
Named == [r \in Requests |->
  [IF r = r1 THEN Call("m1", "t", "s", <<Turn1>>) ELSE Call("m1", "u", "s", <<Turn2>>)
    EXCEPT !.scope = None]]

\* A history longer than what is looked up.
TooMany == [r \in Requests |-> IF r = r1 THEN Call("m1", "t", None, <<Turn1>>)
                               ELSE Call("m1", "t", None, Long)]

\* One text through a model that is rejected and one that is only recorded.
Mixed == [r \in Requests |-> IF r = r1 THEN Call("m1", "t", None, <<Turn1>>)
                             ELSE Call("m2", "t", None, <<Turn1>>)]

\* Two background reviews, one of a text above the limit.
Recorded == [r \in Requests |-> IF r = r1 THEN Call("m2", "t", None, <<Turn1>>)
                                ELSE [Call("m2", "u", None, <<Turn2>>) EXCEPT !.long = TRUE]]

\* A call without text, and one of a model that no scene names.
Plain == [r \in Requests |-> IF r = r1 THEN Call("m1", None, None, <<Turn1>>)
                             ELSE Call("m2", "t", None, <<Turn1>>)]

SomeWorkloads == {Edited, Named, TooMany, Mixed, Recorded, Plain}

MixedModels == {[r \in Requests |-> IF r = r2 THEN Call("m2", "t", None, <<Turn1>>)
                                    ELSE Call("m1", "t", None, <<Turn1>>)]}

=============================================================================
