------------------------------- MODULE Gateway -------------------------------
(***************************************************************************)
(* The path of a business request through one gateway: the session freeze  *)
(* looked up first, then the review (synchronous, or in the background     *)
(* when every applicable scene is non-blocking), its condition cache, the  *)
(* count, the freeze a rejection leaves behind, the answer, and the        *)
(* shutdown that waits for background reviews.                             *)
(***************************************************************************)
EXTENDS Policy, SequencesExt

CONSTANTS
  Requests,    \* requests that will be made: the bound on activity
  Workloads,   \* what the clients may send: functions from requests to calls
  Policies,    \* the policy in force at first, then those an administrator may save
  Scores,      \* the answers the classifier may give
  AsyncLimit,  \* AsyncReviewConcurrency
  MaxLookup,   \* maxTranscriptLookupKeys
  MaxTime,     \* bound: the clock stops here
  MaxFaults    \* bound: failing calls, disconnected clients, evicted cache entries
               \* and changes of the policy

None == "none"    \* no text, session, scope or request
NoKey == <<>>     \* no freeze key
NotYet == -1

\* A call: its endpoint, model, text (and whether that exceeds Jev's limit), its
\* credential, session, client address with user agent, and the items of its
\* history, each a kind and what it says.
CallOK(c) ==
  /\ DOMAIN c = {"endpoint", "model", "text", "long", "credential", "session", "scope", "items"}
  /\ c.long \in BOOLEAN
  /\ c.items \in Seq({"user", "model", "other"} \X Nat)

ASSUME GatewayAssumption ==
  /\ IsFiniteSet(Requests)
  /\ \A w \in Workloads : DOMAIN w = Requests /\ \A r \in Requests : CallOK(w[r])
  /\ 1 \in DOMAIN Policies /\ \A i \in DOMAIN Policies : Validate(Policies[i])
  /\ \A i \in DOMAIN Policies : DOMAIN Policies[i].scenes \subseteq Nat
  /\ \A s \in Scores : \A q \in DOMAIN s : s[q] \in Nat
  /\ \A s \in Scores, i \in DOMAIN Policies, w \in Workloads, r \in Requests :
       RequiredQuestions(Policies[i], w[r].endpoint, w[r].model) \subseteq DOMAIN s
  /\ {AsyncLimit, MaxLookup, MaxTime, MaxFaults} \subseteq Nat
  /\ MaxLookup > 0

VARIABLES
  sent,          \* what each request contains; never changes
  policy,        \* the policy in force
  req,           \* each request: its handler and its review
  cache,         \* condition facts: <<key, text>> -> [fact, by]
  blocks,        \* session freezes: key -> the time it ends, 0 if there is none
  reviewActive,  \* background reviews running
  gate,          \* the server: open, closing, cancelled, closed
  now,           \* the clock
  faults         \* of these, so far

vars == <<sent, policy, req, cache, blocks, reviewActive, gate, now, faults>>

-----------------------------------------------------------------------------
(***************************************************************************)
(* transcriptBlockPlan and the freeze keys: hashes are injective, so a     *)
(* history's key is the history itself.                                    *)
(***************************************************************************)

Explicit(r) == LET c == sent[r] IN
  IF c.session = None THEN NoKey ELSE <<"session", c.credential, c.session>>

Scope(r) == LET c == sent[r] IN
  IF c.scope = None THEN NoKey ELSE <<"scope", c.credential, c.scope>>

Prefix(r, n) == <<"history", sent[r].credential, SubSeq(sent[r].items, 1, n)>>

Length(r) == Len(sent[r].items)

Exact(r) == IF Length(r) = 0 THEN NoKey ELSE Prefix(r, Length(r))

\* The history before the latest user turn that follows an answer of the model.
PreLatest(r) ==
  LET items == sent[r].items
      turns == {i \in 2..Length(r) : /\ items[i][1] = "user"
                                     /\ \E j \in 1..(i-1) : items[j][1] = "model"}
  IN IF turns = {} THEN NoKey ELSE Prefix(r, Max(turns) - 1)

LookupTruncated(r) == Length(r) > MaxLookup

LookupKeys(r) == {Prefix(r, n) : n \in {i \in 1..Length(r) : i > Length(r) - MaxLookup}}

Given(k) == IF k = NoKey THEN <<>> ELSE <<k>>

\* Variant: the history before the latest turn stays open.
FreezeKeysExact(r) == Given(Explicit(r)) \o Given(Exact(r))

\* rememberSessionBlock's keys, in the order it writes them, without the scope.
FreezeKeys(r) == Given(Explicit(r)) \o Given(Exact(r)) \o Given(PreLatest(r))

Verdict == <<"verdict">>    \* refused for its own text

BlockKeys ==
  UNION {({Explicit(r), Scope(r)} \cup {Prefix(r, n) : n \in 1..Length(r)}) \ {NoKey} : r \in Requests}

Live(k) == blocks[k] > now

-----------------------------------------------------------------------------
P(r) == req[r].policy

\* The applicable scenes of a request under the policy it was admitted with.
ScenesOf(p, r) == {p.scenes[i] : i \in Applicable(p, sent[r].endpoint, sent[r].model)}

ConditionsOf(r) == ApplicableConditions(P(r), sent[r].endpoint, sent[r].model)

FactKeys(r) == {Key(c) : c \in ConditionsOf(r)}

Decide(r, facts) == Evaluate(P(r), sent[r].endpoint, sent[r].model, facts)

PolicySet == {Policies[i] : i \in DOMAIN Policies}

\* Variant: the text is not part of the key.
CacheKeyAnyText(k, text) == <<k, None>>

\* conditionCacheKey: the comparison and the text, under one Jev configuration.
CacheKey(k, text) == <<k, text>>

NoFact == [fact |-> FALSE, by |-> None]

CacheKeys == {CacheKey(Key(c), sent[r].text) :
                c \in UNION {UNION {p.scenes[i].conditions : i \in DOMAIN p.scenes} : p \in PolicySet},
                r \in Requests}

Unsent == [pc |-> "idle", mode |-> "none", rv |-> "none", policy |-> [enabled |-> FALSE, scenes |-> <<>>],
           scores |-> None, save |-> {}, freeze |-> <<>>, failed |-> FALSE, verdict |-> NoMatch,
           gone |-> FALSE, answer |-> "none", cause |-> NoKey, counts |-> <<>>,
           batches |-> {}, owed |-> 0, passed |-> NotYet, kept |-> 0]

Init ==
  /\ sent \in Workloads
  /\ policy = Policies[1]
  /\ req = [r \in Requests |-> Unsent]
  /\ cache = [k \in CacheKeys |-> NoFact]
  /\ blocks = [k \in BlockKeys |-> 0]
  /\ reviewActive = 0
  /\ gate = "open"
  /\ now = 0
  /\ faults = 0

At(r, pc) == req[r].pc = pc

Reviewing(r, rv) == req[r].rv = rv

Fault == faults < MaxFaults /\ faults' = faults + 1

\* A call made in the context of the client's request or of the background reviews.
Closing == gate \in {"closing", "cancelled", "closed"}
ReviewCancelled == gate \in {"cancelled", "closed"}
ParentGone(r) == IF req[r].mode = "async" THEN ReviewCancelled ELSE req[r].gone

Fails(r) == \/ ParentGone(r) /\ UNCHANGED faults
            \/ ~ParentGone(r) /\ Fault

Succeeds(r) == ~ParentGone(r) /\ UNCHANGED faults

\* Variant: counted in the context of the request.
CountedInContext(r, outcome) == IF sent[r].text = None \/ ParentGone(r) THEN req[r].counts
                                ELSE Append(req[r].counts, outcome)

\* recordCount is called; it drops what carries no user input. Should its own write
\* fail after three seconds, that is only logged.
Counted(r, outcome) == IF sent[r].text = None THEN req[r].counts
                       ELSE Append(req[r].counts, outcome)

-----------------------------------------------------------------------------
(***************************************************************************)
(* proxyRequest up to the review.                                          *)
(***************************************************************************)

Arriving(r) == At(r, "idle") /\ gate = "open"

Answer(r, answer) ==
  req' = [req EXCEPT ![r].pc = "done", ![r].answer = answer, ![r].policy = policy]

\* Review is off, no scene applies, or the key is not trusted: no user input is
\* known yet, so the count is dropped.
Bypass(r) ==
  /\ Arriving(r)
  /\ Answer(r, "forwarded")
  /\ UNCHANGED <<sent, policy, cache, blocks, reviewActive, gate, now, faults>>

\* The credential state, the body or the JSON cannot be read.
Malformed(r) ==
  /\ Arriving(r)
  /\ policy.enabled
  /\ Fault
  /\ Answer(r, "error")
  /\ UNCHANGED <<sent, policy, cache, blocks, reviewActive, gate, now>>

\* History: until when freezes that were written in full promise to refuse r.
Promised(r) ==
  LET prefixes  == {Prefix(r, n) : n \in 1..Length(r)}
      covers(q) == Scope(q) = Scope(r) /\ {Exact(q), PreLatest(q)} \cap prefixes # {}
  IN Max({0} \cup {req[q].kept : q \in {q \in Requests : covers(q)}})

\* A trusted request with an applicable scene: plan the freeze, look it up if some
\* applicable scene freezes.
Admit(r) ==
  /\ Arriving(r)
  /\ policy.enabled
  /\ ScenesOf(policy, r) # {}
  /\ LET lookup == \E s \in ScenesOf(policy, r) : s.freeze IN
     req' = [req EXCEPT ![r].policy = policy,
                        ![r].pc = IF lookup THEN "explicit" ELSE "sample",
                        ![r].owed = IF lookup THEN Promised(r) ELSE 0]
  /\ UNCHANGED <<sent, policy, cache, blocks, reviewActive, gate, now, faults>>

\* sessionBlocked found a key: event, count, writeBlock.
Frozen(r, key) ==
  req' = [req EXCEPT ![r].pc = "done", ![r].answer = "refused", ![r].cause = key,
                     ![r].counts = Counted(r, "session_blocked")]

NotFrozen(r) == req' = [req EXCEPT ![r].pc = "sample", ![r].passed = now]

\* A lookup that fails lets the request go on to its review.
LookupFail(r) ==
  /\ req[r].pc \in {"explicit", "scope", "history"}
  /\ ~(At(r, "explicit") /\ Explicit(r) = NoKey)
  /\ ~(At(r, "scope") /\ Scope(r) = NoKey)
  /\ ~(At(r, "history") /\ LookupTruncated(r))
  /\ Fails(r)
  /\ req' = [req EXCEPT ![r].pc = "sample"]
  /\ UNCHANGED <<sent, policy, cache, blocks, reviewActive, gate, now>>

LookExplicit(r) ==
  /\ At(r, "explicit")
  /\ \/ /\ Explicit(r) = NoKey
        /\ req' = [req EXCEPT ![r].pc = "scope"]
        /\ UNCHANGED faults
     \/ /\ Explicit(r) # NoKey
        /\ Succeeds(r)
        /\ IF Live(Explicit(r)) THEN Frozen(r, Explicit(r))
           ELSE req' = [req EXCEPT ![r].pc = "scope"]
  /\ UNCHANGED <<sent, policy, cache, blocks, reviewActive, gate, now>>

LookScope(r) ==
  /\ At(r, "scope")
  /\ \/ Scope(r) = NoKey /\ NotFrozen(r) /\ UNCHANGED faults
     \/ /\ Scope(r) # NoKey
        /\ Succeeds(r)
        /\ IF Live(Scope(r)) THEN req' = [req EXCEPT ![r].pc = "history"]
           ELSE NotFrozen(r)
  /\ UNCHANGED <<sent, policy, cache, blocks, reviewActive, gate, now>>

\* A history too long to look up is refused; else the earliest live key answers.
LookHistory(r) ==
  /\ At(r, "history")
  /\ \/ LookupTruncated(r) /\ Frozen(r, Scope(r)) /\ UNCHANGED faults
     \/ /\ ~LookupTruncated(r)
        /\ Succeeds(r)
        /\ LET found == {k \in LookupKeys(r) : Live(k)}
               first == CHOOSE k \in found : \A j \in found : Len(k[3]) <= Len(j[3])
           IN IF found = {} THEN NotFrozen(r) ELSE Frozen(r, first)
  /\ UNCHANGED <<sent, policy, cache, blocks, reviewActive, gate, now>>

Forward(r, outcome) ==
  req' = [req EXCEPT ![r].pc = "done", ![r].answer = "forwarded",
                     ![r].counts = Counted(r, outcome)]

\* No text, or the key is not sampled this time.
Skip(r) ==
  /\ At(r, "sample")
  /\ \/ sent[r].text = None /\ Forward(r, "no_text")
     \/ sent[r].text # None /\ Forward(r, "sampled")
  /\ UNCHANGED <<sent, policy, cache, blocks, reviewActive, gate, now, faults>>

NeedsAnswer(r) == \E s \in ScenesOf(P(r), r) : Mode(s) = "blocking"

Dispatching(r) == At(r, "sample") /\ sent[r].text # None

\* Variant: Close is not noticed.
AcceptingAlways == reviewActive < AsyncLimit

\* startReview.
Accepting == ~Closing /\ reviewActive < AsyncLimit

StartAsync(r) ==
  /\ Dispatching(r)
  /\ ~NeedsAnswer(r)
  /\ Accepting
  /\ reviewActive' = reviewActive + 1
  /\ req' = [req EXCEPT ![r].pc = "done", ![r].answer = "forwarded",
                        ![r].mode = "async", ![r].rv = "cache"]
  /\ UNCHANGED <<sent, policy, cache, blocks, gate, now, faults>>

Busy(r) ==
  /\ Dispatching(r)
  /\ ~NeedsAnswer(r)
  /\ ~Accepting
  /\ Forward(r, "review_busy")
  /\ UNCHANGED <<sent, policy, cache, blocks, reviewActive, gate, now, faults>>

StartSync(r) ==
  /\ Dispatching(r)
  /\ NeedsAnswer(r)
  /\ req' = [req EXCEPT ![r].pc = "review", ![r].mode = "sync", ![r].rv = "cache"]
  /\ UNCHANGED <<sent, policy, cache, blocks, reviewActive, gate, now, faults>>

-----------------------------------------------------------------------------
(***************************************************************************)
(* reviewWithEvent.  A review ends with its count and the freeze; then the *)
(* synchronous handler answers, or the goroutine gives its place back.     *)
(***************************************************************************)

\* Variant: the place is not given back.
LeaveNever(r) == UNCHANGED reviewActive

Leave(r) == IF req[r].mode = "async" THEN reviewActive' = reviewActive - 1
            ELSE UNCHANGED reviewActive

\* The handler's part once nothing is left to freeze.
AnswerTo(r, verdict) ==
  IF req[r].mode = "async" THEN req[r].answer
  ELSE IF verdict.action = "block" THEN "refused" ELSE "forwarded"

\* A client that has gone gets neither answer nor freeze; it may go at this moment.
Left(r) == req[r].mode = "sync" /\ req[r].gone

Freezes(r, verdict, left) == FreezeTTL(P(r), verdict) > 0 /\ ~left

\* recordCount, then the freeze or, if there is nothing to freeze, the answer.
EndReview(r, outcome, verdict, batches) ==
  LET ended == [req[r] EXCEPT !.counts = Counted(r, outcome), !.verdict = verdict,
                              !.batches = batches, !.save = {}]
  IN \E left \in {Left(r), req[r].mode = "sync"} :
     \/ /\ Freezes(r, verdict, left)
        /\ req' = [req EXCEPT ![r] = [ended EXCEPT !.rv = "freeze", !.freeze = FreezeKeys(r)]]
        /\ UNCHANGED reviewActive
     \/ /\ ~Freezes(r, verdict, left)
        /\ req' = [req EXCEPT ![r] =
             [ended EXCEPT !.rv = "done", !.pc = "done",
                           !.answer = IF left THEN "none" ELSE AnswerTo(r, verdict),
                           !.cause = IF ~left /\ AnswerTo(r, verdict) = "refused"
                                       THEN Verdict ELSE @]]
        /\ Leave(r)

HitOutcome(verdict) == IF verdict.scene = 0 THEN "clean"
                       ELSE IF verdict.action = "block" THEN "blocked" ELSE "hit_allowed"

TooLong(r) ==
  /\ Reviewing(r, "cache")
  /\ sent[r].long
  /\ EndReview(r, "input_too_long", NoMatch, {})
  /\ UNCHANGED <<sent, policy, cache, blocks, gate, now, faults>>

Entry(r, k) == cache[CacheKey(k, sent[r].text)]

\* Only a complete set of facts is used.
CacheHit(r) ==
  /\ Reviewing(r, "cache")
  /\ ~sent[r].long
  /\ Succeeds(r)
  /\ \A k \in FactKeys(r) : Entry(r, k) # NoFact
  /\ LET verdict == Decide(r, [k \in FactKeys(r) |-> Entry(r, k).fact]) IN
     EndReview(r, HitOutcome(verdict), verdict, {Entry(r, k).by : k \in FactKeys(r)})
  /\ UNCHANGED <<sent, policy, cache, blocks, gate, now>>

\* The facts of this review are kept later only if the lookup worked.
CacheMiss(r) ==
  /\ Reviewing(r, "cache")
  /\ ~sent[r].long
  /\ \/ /\ Succeeds(r)
        /\ \E k \in FactKeys(r) : Entry(r, k) = NoFact
        /\ req' = [req EXCEPT ![r].rv = "classify", ![r].save = FactKeys(r)]
     \/ /\ Fails(r)
        /\ req' = [req EXCEPT ![r].rv = "classify"]
  /\ UNCHANGED <<sent, policy, cache, blocks, reviewActive, gate, now>>

\* The classifier answers: nothing matched, or a scene did.
Classify(r) ==
  /\ Reviewing(r, "classify")
  /\ Succeeds(r)
  /\ \E scores \in Scores :
       LET verdict == Decide(r, Facts(ConditionsOf(r), scores)) IN
       \/ /\ verdict.scene = 0 \/ req[r].save = {}
          /\ EndReview(r, HitOutcome(verdict), verdict, {r})
       \/ /\ verdict.scene # 0 /\ req[r].save # {}
          /\ req' = [req EXCEPT ![r].rv = "save", ![r].scores = scores, ![r].verdict = verdict]
          /\ UNCHANGED reviewActive
  /\ UNCHANGED <<sent, policy, cache, blocks, gate, now>>

\* The parent context is gone, or Jev fails, times out or answers nonsense.
ClassifyFail(r) ==
  /\ Reviewing(r, "classify")
  /\ Fails(r)
  /\ EndReview(r, IF ParentGone(r) THEN "client_canceled" ELSE "unreviewed", NoMatch, {})
  /\ UNCHANGED <<sent, policy, cache, blocks, gate, now>>

\* ReviewCache.Save: one pipelined SET for each fact, in any order.
SaveFact(r) ==
  /\ Reviewing(r, "save")
  /\ Succeeds(r)
  /\ \E k \in req[r].save :
       /\ cache' = [cache EXCEPT ![CacheKey(k, sent[r].text)] =
                      [fact |-> req[r].scores[k[1]] > k[2], by |-> r]]
       /\ \/ /\ req[r].save = {k}
             /\ EndReview(r, HitOutcome(req[r].verdict), req[r].verdict, {r})
          \/ /\ req[r].save # {k}
             /\ req' = [req EXCEPT ![r].save = @ \ {k}]
             /\ UNCHANGED reviewActive
  /\ UNCHANGED <<sent, policy, blocks, gate, now>>

\* The pipeline breaks: what was set stays.
SaveFail(r) ==
  /\ Reviewing(r, "save")
  /\ Fails(r)
  /\ EndReview(r, HitOutcome(req[r].verdict), req[r].verdict, {r})
  /\ UNCHANGED <<sent, policy, cache, blocks, gate, now>>

-----------------------------------------------------------------------------
(***************************************************************************)
(* rememberSessionBlock and PutSessionBlock.                               *)
(***************************************************************************)

TTL(r) == FreezeTTL(P(r), req[r].verdict)

\* Variant: SET without NX.
PutExactAnew(k, until) == blocks' = [blocks EXCEPT ![k] = until]

\* SET NX PXAT: a live freeze keeps its end.
PutExact(k, until) == blocks' = [blocks EXCEPT ![k] = IF Live(k) THEN @ ELSE until]

\* extendSessionScope: a scope lasts as long as the longest freeze written to it.
PutScope(k, until) == blocks' = [blocks EXCEPT ![k] = Max({@, until})]

FreezeKey(r) ==
  /\ Reviewing(r, "freeze")
  /\ req[r].freeze # <<>>
  /\ \/ /\ PutExact(Head(req[r].freeze), now + TTL(r))
        /\ req' = [req EXCEPT ![r].freeze = Tail(@)]
        /\ UNCHANGED faults
     \/ /\ Fault
        /\ req' = [req EXCEPT ![r].freeze = Tail(@), ![r].failed = TRUE]
        /\ UNCHANGED blocks
  /\ UNCHANGED <<sent, policy, cache, reviewActive, gate, now>>

\* The scope marker only after all exact keys succeeded.
MarksScope(r) == Scope(r) # NoKey /\ Exact(r) # NoKey /\ ~req[r].failed

EndFreeze(r, kept) ==
  /\ req' = [req EXCEPT ![r].rv = "done", ![r].pc = "done", ![r].kept = kept,
                        ![r].answer = AnswerTo(r, req[r].verdict),
                        ![r].cause = IF AnswerTo(r, req[r].verdict) = "refused"
                                       THEN Verdict ELSE @]
  /\ Leave(r)

FreezeScope(r) ==
  /\ Reviewing(r, "freeze")
  /\ req[r].freeze = <<>>
  /\ \/ /\ MarksScope(r)
        /\ PutScope(Scope(r), now + TTL(r))
        /\ EndFreeze(r, Min({now + TTL(r)} \cup {blocks[k] : k \in ToSet(FreezeKeys(r))}))
        /\ UNCHANGED faults
     \/ /\ MarksScope(r) /\ Fault
        /\ EndFreeze(r, 0)
        /\ UNCHANGED blocks
     \/ /\ ~MarksScope(r)
        /\ EndFreeze(r, 0)
        /\ UNCHANGED <<blocks, faults>>
  /\ UNCHANGED <<sent, policy, cache, gate, now>>

-----------------------------------------------------------------------------
(***************************************************************************)
(* The rest of the world, and the server's end.                            *)
(***************************************************************************)

SavePolicy ==
  /\ Fault
  /\ policy' \in PolicySet \ {policy}
  /\ UNCHANGED <<sent, req, cache, blocks, reviewActive, gate, now>>

\* The client disconnects while its handler runs.
Disconnect(r) ==
  /\ req[r].pc \notin {"idle", "done"}
  /\ ~req[r].gone
  /\ Fault
  /\ req' = [req EXCEPT ![r].gone = TRUE]
  /\ UNCHANGED <<sent, policy, cache, blocks, reviewActive, gate, now>>

\* A cached fact expires or is evicted on its own.
Evict ==
  /\ Fault
  /\ \E k \in CacheKeys : cache[k] # NoFact /\ cache' = [cache EXCEPT ![k] = NoFact]
  /\ UNCHANGED <<sent, policy, req, blocks, reviewActive, gate, now>>

Tick ==
  /\ now < MaxTime
  /\ now' = now + 1
  /\ blocks' = [k \in BlockKeys |-> IF blocks[k] > now + 1 THEN blocks[k] ELSE 0]
  /\ UNCHANGED <<sent, policy, req, cache, reviewActive, gate, faults>>

Background == {r \in Requests : req[r].mode = "async" /\ req[r].rv # "done"}

\* serve: Shutdown takes no new requests and gives up on those that run after a
\* while; Close starts no further background review and waits for the others, after
\* ten seconds cancels them and waits again.
CloseBegin ==
  /\ gate = "open"
  /\ gate' = "closing"
  /\ UNCHANGED <<sent, policy, req, cache, blocks, reviewActive, now, faults>>

CloseTimeout ==
  /\ gate = "closing"
  /\ Background # {}
  /\ gate' = "cancelled"
  /\ UNCHANGED <<sent, policy, req, cache, blocks, reviewActive, now, faults>>

CloseEnd ==
  /\ gate \in {"closing", "cancelled"}
  /\ Background = {}
  /\ gate' = "closed"
  /\ UNCHANGED <<sent, policy, req, cache, blocks, reviewActive, now, faults>>

-----------------------------------------------------------------------------

Handle(r) ==
  \/ LookupFail(r) \/ LookExplicit(r) \/ LookScope(r) \/ LookHistory(r)
  \/ Skip(r) \/ StartAsync(r) \/ Busy(r) \/ StartSync(r)

Review(r) ==
  \/ TooLong(r) \/ CacheHit(r) \/ CacheMiss(r) \/ Classify(r) \/ ClassifyFail(r)
  \/ SaveFact(r) \/ SaveFail(r) \/ FreezeKey(r) \/ FreezeScope(r)

Next ==
  \/ \E r \in Requests :
       Bypass(r) \/ Malformed(r) \/ Admit(r) \/ Handle(r) \/ Review(r) \/ Disconnect(r)
  \/ SavePolicy \/ Evict \/ Tick \/ CloseBegin \/ CloseTimeout \/ CloseEnd

Spec == Init /\ [][Next]_vars

-----------------------------------------------------------------------------

\* The state of every variable.
TypeOK ==
  /\ policy \in PolicySet
  /\ \A r \in Requests :
       /\ req[r].pc \in {"idle", "explicit", "scope", "history", "sample", "review", "done"}
       /\ req[r].mode \in {"none", "sync", "async"}
       /\ req[r].rv \in {"none", "cache", "classify", "save", "freeze", "done"}
       /\ req[r].answer \in {"none", "forwarded", "refused", "error"}
       /\ req[r].save \subseteq FactKeys(r)
       /\ req[r].verdict.scene \in {0} \cup DOMAIN P(r).scenes
  /\ \A k \in CacheKeys : cache[k].by \in Requests \cup {None}
  /\ \A k \in BlockKeys : blocks[k] \in Nat
  /\ reviewActive = Cardinality(Background)
  /\ gate \in {"open", "closing", "cancelled", "closed"}

Over(r) == req[r].pc = "done" /\ req[r].rv \in {"none", "done"}

\* A request with user input that got past its sampling step has exactly one count,
\* whichever of handler and goroutine makes it; none has two, and one without user
\* input has none. A count is the call of recordCount, in a context of its own.
CountedOnce ==
  \A r \in Requests :
    /\ Len(req[r].counts) <= 1
    /\ Over(r) /\ req[r].mode # "none" /\ sent[r].text # None => Len(req[r].counts) = 1
    /\ sent[r].text = None => req[r].counts = <<>>

\* No more background reviews than allowed, and none once Close has returned:
\* the stores they write to are closed next (main.go).
CloseDrains == /\ Cardinality(Background) <= AsyncLimit
               /\ gate = "closed" => Background = {}

\* q rejected its own text under a scene that freezes, and its freeze covers r.
Explains(q, r) ==
  /\ req[q].verdict.action = "block"
  /\ TTL(q) > 0
  /\ LET key == req[r].cause IN
     \/ Explicit(q) = Explicit(r) /\ key = Explicit(r)
     \/ key \in {Exact(q), PreLatest(q)} /\ key \in {Prefix(r, n) : n \in 1..Length(r)}
     \/ key = Scope(r) /\ LookupTruncated(r) /\ Scope(q) = Scope(r) /\ ~req[q].failed

\* Nobody is refused but for a rejected text: its own, or one of the same session
\* or history.  A history too long to look up is refused only where a freeze has
\* been written in full ("could turn a storage failure into a broad overflow block").
RefusalEarned ==
  \A r \in Requests :
    req[r].answer = "refused" =>
      \/ req[r].cause = Verdict /\ req[r].verdict.action = "block"
      \/ \E q \in Requests : Explains(q, r)

\* A conversation is refused until its freeze ends, also when its latest turn was
\* edited and whatever other conversations of the scope do to the shared marker.
FrozenIsRefused ==
  \A r \in Requests : req[r].passed # NotYet => req[r].owed <= req[r].passed

\* A retry does not prolong the freeze of a conversation, and the shared scope is
\* never shortened.
FreezeKeepsEnd ==
  [][\A k \in BlockKeys :
       /\ Live(k) /\ k[1] # "scope" /\ blocks[k] > now' => blocks'[k] = blocks[k]
       /\ k[1] = "scope" /\ blocks[k] > now' => blocks'[k] >= blocks[k]]_vars

\* What the cache tells a review about a condition is what a classification of the
\* very same text said of that very comparison.
CachedFactsTrue ==
  \A r \in Requests : \A k \in FactKeys(r) :
    LET e == Entry(r, k) IN
    e # NoFact => /\ sent[e.by].text = sent[r].text
                  /\ e.fact = (req[e.by].scores[k[1]] > k[2])

\* "Does not mix the results of different batches" (README.md): a decision from the
\* cache rests on one classification.
OneBatch == \A r \in Requests : Cardinality(req[r].batches) <= 1

=============================================================================
