---------------------------- MODULE GatewayProofs ----------------------------
(***************************************************************************)
(* Theorems about Gateway, for any number of requests, any calls, policies *)
(* and answers of the classifier, and any capacity.                        *)
(*                                                                         *)
(* Close drains the background reviews: the inductive invariant says what  *)
(* the place counter of startReview counts, and that a request still on    *)
(* its way to its review has no mode yet, so it takes a place only once.   *)
(*                                                                         *)
(* The cache tells the truth: a fact rests on the scores of the review     *)
(* that saved it, and these never change once that review has saved.       *)
(*                                                                         *)
(* Each request is counted once: nothing is counted before or during its   *)
(* review, and every way out of it counts as it leaves.                    *)
(***************************************************************************)
EXTENDS Gateway, FiniteSetTheorems, WellFoundedInduction, TLAPS

Fields == DOMAIN Unsent

Early == {"idle", "explicit", "scope", "history", "sample"}

Shape == /\ DOMAIN req = Requests
         /\ \A r \in Requests : DOMAIN req[r] = Fields

EarlyHasNoMode == \A r \in Requests : req[r].pc \in Early => req[r].mode = "none"

Places == /\ reviewActive = Cardinality(Background)
          /\ reviewActive <= AsyncLimit
          /\ gate = "closed" => Background = {}

DrainInv == Shape /\ EarlyHasNoMode /\ Places

\* What a step does to the background: nothing, one more, or one less.
Quiet == Background' = Background /\ reviewActive' = reviewActive

Enters(r) == /\ ~Closing
             /\ reviewActive < AsyncLimit
             /\ r \notin Background
             /\ Background' = Background \cup {r}
             /\ reviewActive' = reviewActive + 1
             /\ gate' = gate

Exits(r) == /\ r \in Background
            /\ Background' = Background \ {r}
            /\ reviewActive' = reviewActive - 1
            /\ gate' = gate

LEMMA BackgroundFinite == IsFiniteSet(Background)
  BY GatewayAssumption, FS_Subset DEF Background

LEMMA QuietKeepsPlaces ==
  ASSUME Places, Quiet, gate' = "closed" => (gate = "closed" \/ Background = {})
  PROVE  Places'
  BY DEF Places, Quiet

LEMMA EntersKeepsPlaces ==
  ASSUME NEW r \in Requests, Places, Enters(r)
  PROVE  Places'
<1>1. /\ IsFiniteSet(Background \cup {r})
      /\ Cardinality(Background \cup {r}) = Cardinality(Background) + 1
  BY BackgroundFinite, FS_AddElement DEF Enters
<1>2. reviewActive' <= AsyncLimit
  <2>1. Cardinality(Background) \in Nat
    BY BackgroundFinite, FS_CardinalityType
  <2> QED
    BY <2>1, GatewayAssumption DEF Enters, Places
<1>3. gate' # "closed"
  BY DEF Enters, Closing
<1> QED
  BY <1>1, <1>2, <1>3 DEF Places, Enters

LEMMA ExitsKeepsPlaces ==
  ASSUME NEW r \in Requests, Places, Exits(r)
  PROVE  Places'
<1>1. Cardinality(Background \ {r}) = Cardinality(Background) - 1
  BY BackgroundFinite, FS_RemoveElement DEF Exits
<1>2. reviewActive' <= AsyncLimit
  <2>1. Cardinality(Background) \in Nat
    BY BackgroundFinite, FS_CardinalityType
  <2> QED
    BY <2>1, GatewayAssumption DEF Exits, Places
<1> QED
  BY <1>1, <1>2 DEF Places, Exits

-----------------------------------------------------------------------------
(***************************************************************************)
(* Steps of one request: what they change of it.                           *)
(***************************************************************************)

\* r alone changes; its mode and whether its review is over stay.
Stays(r) == /\ Shape'
            /\ \A q \in Requests \ {r} : req'[q] = req[q]
            /\ req'[r].mode = req[r].mode
            /\ req'[r].rv = "done" <=> req[r].rv = "done"

LEMMA StaysIsQuiet ==
  ASSUME NEW r \in Requests, Stays(r)
  PROVE  Background' = Background
  BY DEF Stays, Background

LEMMA AdmissionStays ==
  ASSUME Shape, NEW r \in Requests, Bypass(r) \/ Malformed(r) \/ Admit(r)
  PROVE  /\ Stays(r)
         /\ req[r].pc \in Early
         /\ UNCHANGED <<reviewActive, gate>>
<1>1. CASE Bypass(r)
  BY <1>1 DEF Bypass, Arriving, At, Answer, Stays, Shape, Fields, Unsent, Early
<1>2. CASE Malformed(r)
  BY <1>2 DEF Malformed, Arriving, At, Answer, Stays, Shape, Fields, Unsent, Early
<1>3. CASE Admit(r)
  BY <1>3 DEF Admit, Arriving, At, Stays, Shape, Fields, Unsent, Early
<1> QED
  BY <1>1, <1>2, <1>3

LEMMA LookupStays ==
  ASSUME Shape, NEW r \in Requests,
         LookupFail(r) \/ LookExplicit(r) \/ LookScope(r) \/ LookHistory(r)
  PROVE  /\ Stays(r)
         /\ req[r].pc \in Early
         /\ UNCHANGED <<reviewActive, gate>>
<1> USE DEF At, Stays, Shape, Fields, Unsent, Early
<1>1. CASE LookupFail(r)
  BY <1>1 DEF LookupFail
<1>2. CASE LookExplicit(r)
  BY <1>2 DEF LookExplicit, Frozen
<1>3. CASE LookScope(r)
  BY <1>3 DEF LookScope, NotFrozen
<1>4. CASE LookHistory(r)
  <2>1. /\ req[r].pc = "history"
        /\ UNCHANGED <<reviewActive, gate>>
    BY <1>4 DEF LookHistory
  <2>2. PICK key : Frozen(r, key) \/ NotFrozen(r)
    BY <1>4 DEF LookHistory
  <2> QED
    BY <2>1, <2>2 DEF Frozen, NotFrozen
<1> QED
  BY <1>1, <1>2, <1>3, <1>4

LEMMA SkipStays ==
  ASSUME Shape, NEW r \in Requests, Skip(r) \/ Busy(r)
  PROVE  /\ Stays(r)
         /\ req[r].pc \in Early
         /\ UNCHANGED <<reviewActive, gate>>
<1> USE DEF At, Stays, Shape, Fields, Unsent, Early, Forward
<1>1. CASE Skip(r)
  BY <1>1 DEF Skip
<1>2. CASE Busy(r)
  BY <1>2 DEF Busy, Dispatching
<1> QED
  BY <1>1, <1>2

\* A review goes on: it stays where its request's handler left it.
LEMMA ReviewStays ==
  ASSUME Shape, NEW r \in Requests, CacheMiss(r) \/ FreezeKey(r)
  PROVE  /\ Stays(r)
         /\ req'[r].pc = req[r].pc
         /\ UNCHANGED <<reviewActive, gate>>
<1> USE DEF Reviewing, Stays, Shape, Fields, Unsent
<1>1. CASE CacheMiss(r)
  BY <1>1 DEF CacheMiss
<1>2. CASE FreezeKey(r)
  BY <1>2 DEF FreezeKey
<1> QED
  BY <1>1, <1>2

\* The two ways a review ends: something is left to freeze, or nothing is.
Ended(r, outcome, verdict, batches) ==
  [req[r] EXCEPT !.counts = Counted(r, outcome), !.verdict = verdict,
                 !.batches = batches, !.save = {}]

Freezing(r, outcome, verdict, batches) ==
  /\ req' = [req EXCEPT ![r] = [Ended(r, outcome, verdict, batches)
                                  EXCEPT !.rv = "freeze", !.freeze = FreezeKeys(r)]]
  /\ UNCHANGED reviewActive

Ending(r, outcome, verdict, batches) ==
  /\ \E answer, cause :
       req' = [req EXCEPT ![r] = [Ended(r, outcome, verdict, batches)
                                    EXCEPT !.rv = "done", !.pc = "done",
                                           !.answer = answer, !.cause = cause]]
  /\ Leave(r)

LEMMA EndReviewCases ==
  ASSUME NEW r, NEW outcome, NEW verdict, NEW batches,
         EndReview(r, outcome, verdict, batches)
  PROVE  Freezing(r, outcome, verdict, batches) \/ Ending(r, outcome, verdict, batches)
<1>1. PICK left \in {Left(r), req[r].mode = "sync"} :
        \/ /\ Freezes(r, verdict, left)
           /\ Freezing(r, outcome, verdict, batches)
        \/ /\ ~Freezes(r, verdict, left)
           /\ req' = [req EXCEPT ![r] =
                [Ended(r, outcome, verdict, batches) EXCEPT
                   !.rv = "done", !.pc = "done",
                   !.answer = IF left THEN "none" ELSE AnswerTo(r, verdict),
                   !.cause = IF ~left /\ AnswerTo(r, verdict) = "refused"
                               THEN Verdict ELSE @]]
           /\ Leave(r)
  BY Zenon DEF EndReview, Freezing, Ended
<1>2. CASE Freezing(r, outcome, verdict, batches)
  BY <1>2
<1>3. CASE ~Freezing(r, outcome, verdict, batches)
  BY <1>1, <1>3, Zenon DEF Ending
<1> QED
  BY <1>2, <1>3

\* A review is over: r is done, and in the background its place is free again.
Finishes(r) ==
  /\ Shape'
  /\ \A q \in Requests \ {r} : req'[q] = req[q]
  /\ req[r].rv # "done"
  /\ req'[r].rv = "done"
  /\ req'[r].mode = req[r].mode
  /\ req'[r].pc = "done"
  /\ Leave(r)
  /\ UNCHANGED gate

LEMMA FinishesExits ==
  ASSUME NEW r \in Requests, Finishes(r)
  PROVE  Exits(r) \/ (Quiet /\ UNCHANGED gate)
<1>1. CASE req[r].mode = "async"
  BY <1>1 DEF Finishes, Leave, Background, Exits
<1>2. CASE req[r].mode # "async"
  BY <1>2 DEF Finishes, Leave, Background, Quiet
<1> QED
  BY <1>1, <1>2

\* Or it goes on to freeze, in the same handler or goroutine.
GoesOn(r) == /\ Stays(r)
             /\ req'[r].pc = req[r].pc
             /\ UNCHANGED <<reviewActive, gate>>

LEMMA EndReviewEnds ==
  ASSUME Shape, NEW r \in Requests, req[r].rv # "done", UNCHANGED gate,
         NEW outcome, NEW verdict, NEW batches, EndReview(r, outcome, verdict, batches)
  PROVE  GoesOn(r) \/ Finishes(r)
<1>1. CASE Freezing(r, outcome, verdict, batches)
  BY <1>1 DEF Freezing, Ended, GoesOn, Stays, Shape, Fields, Unsent
<1>2. CASE Ending(r, outcome, verdict, batches)
  BY <1>2 DEF Ending, Ended, Finishes, Shape, Fields, Unsent
<1> QED
  BY <1>1, <1>2, EndReviewCases

LEMMA ReviewEnds ==
  ASSUME Shape, NEW r \in Requests,
         TooLong(r) \/ CacheHit(r) \/ Classify(r) \/ ClassifyFail(r) \/ SaveFact(r) \/ SaveFail(r)
  PROVE  GoesOn(r) \/ Finishes(r)
<1>1. req[r].rv # "done" /\ UNCHANGED gate
  BY DEF TooLong, CacheHit, Classify, ClassifyFail, SaveFact, SaveFail, Reviewing
<1>2. CASE \E outcome, verdict, batches : EndReview(r, outcome, verdict, batches)
  BY <1>1, <1>2, EndReviewEnds
<1>3. CASE Classify(r) /\ ~\E outcome, verdict, batches : EndReview(r, outcome, verdict, batches)
  <2>1. PICK scores : \E verdict :
          /\ req' = [req EXCEPT ![r].rv = "save", ![r].scores = scores, ![r].verdict = verdict]
          /\ UNCHANGED reviewActive
    BY <1>3 DEF Classify
  <2> QED
    BY <1>1, <2>1 DEF GoesOn, Stays, Shape, Fields, Unsent
<1>4. CASE SaveFact(r) /\ ~\E outcome, verdict, batches : EndReview(r, outcome, verdict, batches)
  <2>1. PICK k : /\ req' = [req EXCEPT ![r].save = @ \ {k}]
                 /\ UNCHANGED reviewActive
    BY <1>4 DEF SaveFact
  <2> QED
    BY <1>1, <2>1 DEF GoesOn, Stays, Shape, Fields, Unsent
<1> QED
  BY <1>2, <1>3, <1>4 DEF TooLong, CacheHit, ClassifyFail, SaveFail

LEMMA FreezeEnds ==
  ASSUME Shape, NEW r \in Requests, FreezeScope(r)
  PROVE  Finishes(r)
<1>1. req[r].rv = "freeze" /\ UNCHANGED gate
  BY DEF FreezeScope, Reviewing
<1>2. PICK kept : EndFreeze(r, kept)
  BY DEF FreezeScope
<1> QED
  BY <1>1, <1>2 DEF EndFreeze, Finishes, Shape, Fields, Unsent

-----------------------------------------------------------------------------
(***************************************************************************)
(* The invariant.                                                          *)
(***************************************************************************)

LEMMA InitDrain == Init => DrainInv
<1> SUFFICES ASSUME Init PROVE DrainInv
  OBVIOUS
<1>1. Shape /\ EarlyHasNoMode
  BY DEF Init, Shape, Fields, EarlyHasNoMode, Early, Unsent
<1>2. Background = {}
  BY DEF Init, Background, Unsent
<1>3. Places
  BY <1>2, FS_EmptySet, GatewayAssumption DEF Init, Places
<1> QED
  BY <1>1, <1>3 DEF DrainInv

\* A step that stays, from an early state or without moving the handler.
LEMMA StaysKeepsDrain ==
  ASSUME DrainInv, NEW r \in Requests, Stays(r), UNCHANGED <<reviewActive, gate>>,
         req[r].pc \in Early \/ req'[r].pc = req[r].pc
  PROVE  DrainInv'
<1>1. Places'
  BY StaysIsQuiet, QuietKeepsPlaces DEF DrainInv, Quiet
<1>2. Shape'
  BY DEF Stays
<1>3. EarlyHasNoMode'
  BY DEF DrainInv, EarlyHasNoMode, Stays
<1> QED
  BY <1>1, <1>2, <1>3 DEF DrainInv

LEMMA FinishesKeepsDrain ==
  ASSUME DrainInv, NEW r \in Requests, Finishes(r)
  PROVE  DrainInv'
<1>1. Places'
  BY FinishesExits, ExitsKeepsPlaces, QuietKeepsPlaces DEF DrainInv
<1>2. Shape'
  BY DEF Finishes
<1>3. EarlyHasNoMode'
  BY DEF DrainInv, EarlyHasNoMode, Finishes, Early
<1> QED
  BY <1>1, <1>2, <1>3 DEF DrainInv

LEMMA StartAsyncKeepsDrain ==
  ASSUME DrainInv, NEW r \in Requests, StartAsync(r)
  PROVE  DrainInv'
<1>1. /\ req[r].pc = "sample"
      /\ req' = [req EXCEPT ![r].pc = "done", ![r].answer = "forwarded",
                            ![r].mode = "async", ![r].rv = "cache"]
      /\ reviewActive' = reviewActive + 1
      /\ ~Closing /\ reviewActive < AsyncLimit
      /\ UNCHANGED gate
  BY DEF StartAsync, Dispatching, At, Accepting
<1>2. Shape' /\ req'[r].mode = "async" /\ req'[r].rv = "cache" /\ req'[r].pc = "done"
  BY <1>1 DEF DrainInv, Shape, Fields, Unsent
<1>3. \A q \in Requests \ {r} : req'[q] = req[q]
  BY <1>1 DEF DrainInv, Shape
<1>4. req[r].mode = "none"
  BY <1>1 DEF DrainInv, EarlyHasNoMode, Early
<1>5. Enters(r)
  BY <1>1, <1>2, <1>3, <1>4 DEF Enters, Background
<1>6. EarlyHasNoMode'
  BY <1>2, <1>3 DEF DrainInv, EarlyHasNoMode, Early
<1> QED
  BY <1>2, <1>5, <1>6, EntersKeepsPlaces DEF DrainInv

LEMMA StartSyncKeepsDrain ==
  ASSUME DrainInv, NEW r \in Requests, StartSync(r)
  PROVE  DrainInv'
<1>1. /\ req[r].pc = "sample"
      /\ req' = [req EXCEPT ![r].pc = "review", ![r].mode = "sync", ![r].rv = "cache"]
      /\ UNCHANGED <<reviewActive, gate>>
  BY DEF StartSync, Dispatching, At
<1>2. Shape' /\ req'[r].mode = "sync" /\ req'[r].pc = "review"
  BY <1>1 DEF DrainInv, Shape, Fields, Unsent
<1>3. \A q \in Requests \ {r} : req'[q] = req[q]
  BY <1>1 DEF DrainInv, Shape
<1>4. req[r].mode = "none"
  BY <1>1 DEF DrainInv, EarlyHasNoMode, Early
<1>5. Background' = Background
  BY <1>2, <1>3, <1>4 DEF Background
<1>6. EarlyHasNoMode'
  BY <1>2, <1>3 DEF DrainInv, EarlyHasNoMode, Early
<1> QED
  BY <1>1, <1>2, <1>5, <1>6, QuietKeepsPlaces DEF DrainInv, Quiet

LEMMA DisconnectKeepsDrain ==
  ASSUME DrainInv, NEW r \in Requests, Disconnect(r)
  PROVE  DrainInv'
<1>1. Stays(r) /\ req'[r].pc = req[r].pc /\ UNCHANGED <<reviewActive, gate>>
  BY DEF Disconnect, DrainInv, Stays, Shape, Fields, Unsent
<1> QED
  BY <1>1, StaysKeepsDrain

\* Steps of the server and the world: only Close moves the gate.
LEMMA WorldKeepsDrain ==
  ASSUME DrainInv, UNCHANGED <<req, reviewActive>>,
         gate' = "closed" => (gate = "closed" \/ Background = {})
  PROVE  DrainInv'
<1>1. Background' = Background
  BY DEF Background
<1>2. Places'
  BY <1>1, QuietKeepsPlaces DEF Quiet, DrainInv
<1> QED
  BY <1>2 DEF DrainInv, Shape, EarlyHasNoMode

LEMMA NextDrain == DrainInv /\ [Next]_vars => DrainInv'
<1> SUFFICES ASSUME DrainInv, [Next]_vars PROVE DrainInv'
  OBVIOUS
<1>s. Shape
  BY DEF DrainInv
<1>1. ASSUME NEW r \in Requests, Bypass(r) \/ Malformed(r) \/ Admit(r)
      PROVE  DrainInv'
  BY <1>s, <1>1, AdmissionStays, StaysKeepsDrain
<1>2. ASSUME NEW r \in Requests, Handle(r)
      PROVE  DrainInv'
  <2>1. CASE LookupFail(r) \/ LookExplicit(r) \/ LookScope(r) \/ LookHistory(r)
    BY <1>s, <2>1, LookupStays, StaysKeepsDrain
  <2>2. CASE Skip(r) \/ Busy(r)
    BY <1>s, <2>2, SkipStays, StaysKeepsDrain
  <2> QED
    BY <1>2, <2>1, <2>2, StartAsyncKeepsDrain, StartSyncKeepsDrain DEF Handle
<1>3. ASSUME NEW r \in Requests, Review(r)
      PROVE  DrainInv'
  <2>1. CASE CacheMiss(r) \/ FreezeKey(r)
    BY <1>s, <2>1, ReviewStays, StaysKeepsDrain
  <2>2. CASE FreezeScope(r)
    BY <1>s, <2>2, FreezeEnds, FinishesKeepsDrain
  <2>3. CASE TooLong(r) \/ CacheHit(r) \/ Classify(r) \/ ClassifyFail(r) \/ SaveFact(r) \/ SaveFail(r)
    <3>1. GoesOn(r) => DrainInv'
      BY StaysKeepsDrain DEF GoesOn
    <3> QED
      BY <1>s, <2>3, <3>1, ReviewEnds, FinishesKeepsDrain
  <2> QED
    BY <1>3, <2>1, <2>2, <2>3 DEF Review
<1>4. CASE SavePolicy \/ Evict \/ Tick
  BY <1>4, WorldKeepsDrain DEF SavePolicy, Evict, Tick
<1>5. CASE CloseBegin \/ CloseTimeout \/ CloseEnd
  BY <1>5, WorldKeepsDrain DEF CloseBegin, CloseTimeout, CloseEnd
<1>6. CASE UNCHANGED vars
  BY <1>6, WorldKeepsDrain DEF vars
<1> QED
  BY <1>1, <1>2, <1>3, <1>4, <1>5, <1>6, DisconnectKeepsDrain DEF Next

\* At most AsyncReviewConcurrency background reviews run, and none is left, nor can
\* one start, once Close has returned (startReview, Server.Close).
THEOREM DrainsCorrect == Spec => []CloseDrains
<1>1. DrainInv => CloseDrains
  BY DEF DrainInv, Places, CloseDrains
<1> QED
  BY <1>1, InitDrain, NextDrain, PTL DEF Spec

-----------------------------------------------------------------------------
(***************************************************************************)
(* The cache.                                                              *)
(***************************************************************************)

Late == {"save", "freeze", "done"}

EarlyHasNoReview == \A r \in Requests : req[r].pc \in Early => req[r].rv = "none"

PolicyKnown == /\ policy \in PolicySet
               /\ \A r \in Requests : req[r].policy \in PolicySet \cup {Unsent.policy}

\* e, kept under key, is what its review's scores say.
True(key, e) == /\ e.by \in Requests
                /\ req[e.by].rv \in Late
                /\ sent[e.by].text = key[2]
                /\ e.fact = (req[e.by].scores[key[1][1]] > key[1][2])

Truth == /\ DOMAIN cache = CacheKeys
         /\ \A key \in CacheKeys : cache[key] # NoFact => True(key, cache[key])

FactInv == Shape /\ EarlyHasNoReview /\ PolicyKnown /\ Truth

\* r alone changes, and what it has classified stays.
KeepsScores(r) ==
  /\ Shape'
  /\ \A q \in Requests \ {r} : req'[q] = req[q]
  /\ req[r].rv \in Late => req'[r].rv \in Late /\ req'[r].scores = req[r].scores
  /\ req'[r].pc \in Early => req'[r].rv = "none"
  /\ req'[r].policy \in {req[r].policy, policy}
  /\ UNCHANGED <<sent, policy>>

LEMMA TrueStays ==
  ASSUME NEW r \in Requests, KeepsScores(r), NEW key, NEW e, True(key, e)
  PROVE  True(key, e)'
  BY DEF KeepsScores, True

LEMMA KeepsScoresFrame ==
  ASSUME FactInv, NEW r \in Requests, KeepsScores(r)
  PROVE  Shape' /\ EarlyHasNoReview' /\ PolicyKnown' /\ CacheKeys' = CacheKeys
<1>1. Shape' /\ EarlyHasNoReview'
  BY DEF FactInv, KeepsScores, EarlyHasNoReview
<1>2. PolicyKnown'
  BY DEF FactInv, KeepsScores, PolicyKnown, PolicySet, Unsent
<1>3. CacheKeys' = CacheKeys
  BY DEF KeepsScores, CacheKeys, CacheKey, PolicySet
<1> QED
  BY <1>1, <1>2, <1>3

LEMMA CacheStays ==
  ASSUME FactInv, NEW r \in Requests, KeepsScores(r), UNCHANGED cache
  PROVE  FactInv'
<1>1. Shape' /\ EarlyHasNoReview' /\ PolicyKnown' /\ CacheKeys' = CacheKeys
  BY KeepsScoresFrame
<1>2. Truth'
  <2>1. DOMAIN cache' = CacheKeys'
    BY <1>1 DEF FactInv, Truth
  <2>2. ASSUME NEW key \in CacheKeys', cache'[key] # NoFact
        PROVE  True(key, cache[key])'
    BY <1>1, <2>2, TrueStays DEF FactInv, Truth
  <2> QED
    BY <2>1, <2>2 DEF Truth, True, NoFact
<1> QED
  BY <1>1, <1>2 DEF FactInv

LEMMA HandlerKeeps ==
  ASSUME FactInv, NEW r \in Requests,
         Bypass(r) \/ Malformed(r) \/ Admit(r) \/ Handle(r) \/ Disconnect(r)
  PROVE  KeepsScores(r) /\ UNCHANGED cache
<1>s. Shape /\ EarlyHasNoReview
  BY DEF FactInv
<1> USE <1>s DEF At, Shape, EarlyHasNoReview, Fields, Unsent, Early, Late, KeepsScores
<1>1. CASE Bypass(r) \/ Malformed(r)
  BY <1>1 DEF Bypass, Malformed, Arriving, Answer
<1>2. CASE Admit(r)
  BY <1>2 DEF Admit, Arriving
<1>3. CASE LookupFail(r)
  BY <1>3 DEF LookupFail
<1>4. CASE LookExplicit(r)
  BY <1>4 DEF LookExplicit, Frozen
<1>5. CASE LookScope(r)
  BY <1>5 DEF LookScope, NotFrozen
<1>6. CASE LookHistory(r)
  <2>1. req[r].pc = "history" /\ UNCHANGED <<sent, policy, cache>>
    BY <1>6 DEF LookHistory
  <2>2. PICK key : Frozen(r, key) \/ NotFrozen(r)
    BY <1>6 DEF LookHistory
  <2> QED
    BY <2>1, <2>2 DEF Frozen, NotFrozen
<1>7. CASE Skip(r)
  BY <1>7 DEF Skip, Forward
<1>8. CASE Busy(r)
  BY <1>8 DEF Busy, Dispatching, Forward
<1>9. CASE StartAsync(r)
  BY <1>9 DEF StartAsync, Dispatching
<1>10. CASE StartSync(r)
  BY <1>10 DEF StartSync, Dispatching
<1>11. CASE Disconnect(r)
  BY <1>11 DEF Disconnect
<1> QED
  BY <1>1, <1>2, <1>3, <1>4, <1>5, <1>6, <1>7, <1>8, <1>9, <1>10, <1>11 DEF Handle

\* The end of a review leaves its scores alone.
LEMMA EndReviewKeeps ==
  ASSUME FactInv, NEW r \in Requests, req[r].rv # "none", UNCHANGED <<sent, policy>>,
         NEW outcome, NEW verdict, NEW batches, EndReview(r, outcome, verdict, batches)
  PROVE  KeepsScores(r) /\ req'[r].rv \in Late /\ req'[r].scores = req[r].scores
<1>s. Shape /\ EarlyHasNoReview
  BY DEF FactInv
<1>1. CASE Freezing(r, outcome, verdict, batches)
  BY <1>s, <1>1 DEF Freezing, Ended, KeepsScores, Late, Shape, EarlyHasNoReview, Fields, Unsent
<1>2. CASE Ending(r, outcome, verdict, batches)
  BY <1>s, <1>2 DEF Ending, Ended, KeepsScores, Late, Shape, Early, Fields, Unsent
<1> QED
  BY <1>1, <1>2, EndReviewCases

LEMMA ReviewKeeps ==
  ASSUME FactInv, NEW r \in Requests,
         \/ TooLong(r) \/ CacheHit(r) \/ CacheMiss(r) \/ Classify(r) \/ ClassifyFail(r)
         \/ SaveFail(r) \/ FreezeKey(r) \/ FreezeScope(r)
  PROVE  KeepsScores(r) /\ UNCHANGED cache
<1>s. Shape /\ EarlyHasNoReview
  BY DEF FactInv
<1>1. UNCHANGED <<sent, policy, cache>>
  BY DEF TooLong, CacheHit, CacheMiss, Classify, ClassifyFail, SaveFail, FreezeKey, FreezeScope
<1>2. CASE \E outcome, verdict, batches :
             req[r].rv # "none" /\ EndReview(r, outcome, verdict, batches)
  BY <1>1, <1>2, EndReviewKeeps
<1>3. CASE CacheMiss(r)
  BY <1>s, <1>1, <1>3 DEF CacheMiss, Reviewing, KeepsScores, Late, Shape, EarlyHasNoReview,
                          Fields, Unsent
<1>4. CASE /\ req[r].rv = "classify"
           /\ \E scores, verdict :
                req' = [req EXCEPT ![r].rv = "save", ![r].scores = scores, ![r].verdict = verdict]
  BY <1>s, <1>1, <1>4 DEF KeepsScores, Late, Shape, EarlyHasNoReview, Fields, Unsent
<1>5. CASE FreezeKey(r)
  BY <1>s, <1>1, <1>5 DEF FreezeKey, Reviewing, KeepsScores, Late, Shape, EarlyHasNoReview,
                          Fields, Unsent
<1>6. CASE FreezeScope(r)
  <2>1. PICK kept : req[r].rv = "freeze" /\ EndFreeze(r, kept)
    BY <1>6 DEF FreezeScope, Reviewing
  <2> QED
    BY <1>s, <1>1, <2>1 DEF EndFreeze, KeepsScores, Late, Shape, Early, Fields, Unsent
<1>7. Classify(r) =>
        \/ \E outcome, verdict, batches :
             req[r].rv # "none" /\ EndReview(r, outcome, verdict, batches)
        \/ /\ req[r].rv = "classify"
           /\ \E scores, verdict :
                req' = [req EXCEPT ![r].rv = "save", ![r].scores = scores, ![r].verdict = verdict]
  BY DEF Classify, Reviewing
<1>8. TooLong(r) \/ CacheHit(r) \/ ClassifyFail(r) \/ SaveFail(r) =>
        \E outcome, verdict, batches :
          req[r].rv # "none" /\ EndReview(r, outcome, verdict, batches)
  BY DEF TooLong, CacheHit, ClassifyFail, SaveFail, Reviewing
<1> QED
  BY <1>2, <1>3, <1>4, <1>5, <1>6, <1>7, <1>8

\* What SaveFact adds is true, and stays so.
LEMMA SaveFactKeeps ==
  ASSUME FactInv, NEW r \in Requests, SaveFact(r)
  PROVE  FactInv'
<1>s. Shape /\ EarlyHasNoReview
  BY DEF FactInv
<1>1. PICK k : /\ cache' = [cache EXCEPT ![CacheKey(k, sent[r].text)] =
                              [fact |-> req[r].scores[k[1]] > k[2], by |-> r]]
               /\ \/ EndReview(r, HitOutcome(req[r].verdict), req[r].verdict, {r})
                  \/ req' = [req EXCEPT ![r].save = @ \ {k}]
  BY DEF SaveFact
<1>2. req[r].rv = "save" /\ UNCHANGED <<sent, policy>>
  BY DEF SaveFact, Reviewing
<1>3. KeepsScores(r) /\ req'[r].rv \in Late /\ req'[r].scores = req[r].scores
  <2>1. CASE EndReview(r, HitOutcome(req[r].verdict), req[r].verdict, {r})
    BY <1>2, <2>1, EndReviewKeeps
  <2>2. CASE req' = [req EXCEPT ![r].save = @ \ {k}]
    BY <1>s, <1>2, <2>2 DEF KeepsScores, Late, Shape, EarlyHasNoReview, Fields, Unsent
  <2> QED
    BY <1>1, <2>1, <2>2
<1>4. Shape' /\ EarlyHasNoReview' /\ PolicyKnown' /\ CacheKeys' = CacheKeys
  BY <1>3, KeepsScoresFrame
<1>5. DOMAIN cache' = CacheKeys'
  BY <1>1, <1>4 DEF FactInv, Truth
<1>6. ASSUME NEW key \in CacheKeys', cache'[key] # NoFact
      PROVE  True(key, cache[key])'
  <2>1. CASE key = CacheKey(k, sent[r].text)
    <3>1. cache'[key] = [fact |-> req[r].scores[k[1]] > k[2], by |-> r]
      BY <1>1, <1>4, <2>1 DEF FactInv, Truth
    <3>2. key[1] = k /\ key[2] = sent[r].text
      BY <2>1 DEF CacheKey
    <3> QED
      BY <1>2, <1>3, <3>1, <3>2 DEF True
  <2>2. CASE key # CacheKey(k, sent[r].text)
    <3>1. cache'[key] = cache[key]
      BY <1>1, <1>4, <2>2 DEF FactInv, Truth
    <3>2. True(key, cache[key])
      BY <1>4, <1>6, <3>1 DEF FactInv, Truth
    <3>3. True(key, cache[key]) => True(key, cache[key])'
      BY <1>3, <3>1 DEF KeepsScores, True
    <3> QED
      BY <3>2, <3>3
  <2> QED
    BY <2>1, <2>2
<1> QED
  BY <1>4, <1>5, <1>6 DEF FactInv, Truth, True, NoFact

LEMMA InitFacts == Init => FactInv
<1> SUFFICES ASSUME Init PROVE FactInv
  OBVIOUS
<1>1. Shape /\ EarlyHasNoReview
  BY DEF Init, Shape, Fields, EarlyHasNoReview, Early, Unsent
<1>2. policy \in PolicySet
  BY GatewayAssumption DEF Init, PolicySet
<1>3. \A r \in Requests : req[r].policy = Unsent.policy
  BY DEF Init
<1>4. Truth
  BY DEF Init, Truth
<1> QED
  BY <1>1, <1>2, <1>3, <1>4 DEF FactInv, PolicyKnown

\* A step of the world changes no request; it may lose a fact.
LEMMA WorldKeepsFacts ==
  ASSUME FactInv, UNCHANGED <<sent, req>>, policy' \in PolicySet,
         DOMAIN cache' = DOMAIN cache,
         \A key \in DOMAIN cache : cache'[key] \in {cache[key], NoFact}
  PROVE  FactInv'
<1>1. PolicySet' = PolicySet /\ CacheKeys' = CacheKeys
  BY DEF PolicySet, CacheKeys, CacheKey
<1>2. Shape' /\ EarlyHasNoReview' /\ PolicyKnown'
  BY <1>1 DEF FactInv, Shape, EarlyHasNoReview, PolicyKnown
<1>3. Truth'
  <2>1. DOMAIN cache' = CacheKeys'
    BY <1>1 DEF FactInv, Truth
  <2>2. ASSUME NEW key \in CacheKeys', cache'[key] # NoFact
        PROVE  True(key, cache[key])'
    <3>1. cache'[key] = cache[key] /\ True(key, cache[key])
      BY <1>1, <2>2 DEF FactInv, Truth
    <3> QED
      BY <3>1 DEF True
  <2> QED
    BY <2>1, <2>2 DEF Truth, True, NoFact
<1> QED
  BY <1>2, <1>3 DEF FactInv

LEMMA NextFacts == FactInv /\ [Next]_vars => FactInv'
<1> SUFFICES ASSUME FactInv, [Next]_vars PROVE FactInv'
  OBVIOUS
<1>1. ASSUME NEW r \in Requests,
             Bypass(r) \/ Malformed(r) \/ Admit(r) \/ Handle(r) \/ Disconnect(r)
      PROVE  FactInv'
  BY <1>1, HandlerKeeps, CacheStays
<1>2. ASSUME NEW r \in Requests, Review(r)
      PROVE  FactInv'
  <2>1. CASE SaveFact(r)
    BY <2>1, SaveFactKeeps
  <2>2. CASE \/ TooLong(r) \/ CacheHit(r) \/ CacheMiss(r) \/ Classify(r) \/ ClassifyFail(r)
             \/ SaveFail(r) \/ FreezeKey(r) \/ FreezeScope(r)
    BY <2>2, ReviewKeeps, CacheStays
  <2> QED
    BY <1>2, <2>1, <2>2 DEF Review
<1>w. policy \in PolicySet
  BY DEF FactInv, PolicyKnown
<1>3. CASE SavePolicy
  BY <1>3, WorldKeepsFacts DEF SavePolicy
<1>4. CASE Evict
  BY <1>4, <1>w, WorldKeepsFacts DEF Evict
<1>5. CASE Tick \/ CloseBegin \/ CloseTimeout \/ CloseEnd \/ UNCHANGED vars
  BY <1>5, <1>w, WorldKeepsFacts DEF Tick, CloseBegin, CloseTimeout, CloseEnd, vars
<1> QED
  BY <1>1, <1>2, <1>3, <1>4, <1>5 DEF Next

\* The keys a review asks for are keys of the cache.
LEMMA KnownKeys ==
  ASSUME FactInv, NEW r \in Requests, NEW k \in FactKeys(r)
  PROVE  CacheKey(k, sent[r].text) \in CacheKeys
<1>1. PICK i \in DOMAIN P(r).scenes : \E c \in P(r).scenes[i].conditions : k = Key(c)
  BY DEF FactKeys, ConditionsOf, ApplicableConditions, Applicable
<1>2. P(r) # Unsent.policy
  BY <1>1 DEF Unsent
<1>3. P(r) \in PolicySet
  BY <1>2 DEF FactInv, PolicyKnown, P
<1> QED
  BY <1>1, <1>3 DEF CacheKeys

\* A cached fact about a comparison is what a classification of the very same text
\* gave for it, whoever saved it and under whatever policy (reviewWithEvent,
\* conditionCacheKey, ReviewCache.Save).
THEOREM FactsCorrect == Spec => []CachedFactsTrue
<1>1. FactInv => CachedFactsTrue
  <2> SUFFICES ASSUME FactInv, NEW r \in Requests, NEW k \in FactKeys(r),
                      Entry(r, k) # NoFact
               PROVE  LET e == Entry(r, k) IN
                      /\ sent[e.by].text = sent[r].text
                      /\ e.fact = (req[e.by].scores[k[1]] > k[2])
    BY DEF CachedFactsTrue
  <2>1. True(CacheKey(k, sent[r].text), Entry(r, k))
    BY KnownKeys DEF FactInv, Truth, Entry
  <2> QED
    BY <2>1 DEF True, CacheKey
<1> QED
  BY <1>1, InitFacts, NextFacts, PTL DEF Spec

-----------------------------------------------------------------------------
(***************************************************************************)
(* The count.                                                              *)
(***************************************************************************)

Counting == {"cache", "classify", "save"}

\* What a request t with this text has been counted at each place of its way.
Accounted(t, text) ==
  /\ t.pc \in Early => t.rv = "none"
  /\ t.mode = "none" <=> t.rv = "none"
  /\ t.rv # "none" => text # None
  /\ t.rv \in {"none", "freeze", "done"} \cup Counting
  /\ t.pc \in Early \/ t.rv \in Counting => t.counts = <<>>
  /\ t.rv \in {"freeze", "done"} => Len(t.counts) = 1
  /\ t.counts # <<>> => Len(t.counts) = 1 /\ text # None

CountInv == Shape /\ \A r \in Requests : Accounted(req[r], sent[r].text)

LEMMA InitCount == Init => CountInv
<1> SUFFICES ASSUME Init PROVE CountInv
  OBVIOUS
<1>1. Shape
  BY DEF Init, Shape, Fields, Unsent
<1>2. ASSUME NEW r \in Requests
      PROVE  Accounted(req[r], sent[r].text)
  <2>1. req[r] = Unsent
    BY DEF Init
  <2> QED
    <3>1. /\ req[r].pc = "idle" /\ req[r].mode = "none"
          /\ req[r].rv = "none" /\ req[r].counts = <<>>
      BY <2>1 DEF Unsent
    <3> QED
      BY <3>1 DEF Accounted, Early, Counting
<1> QED
  BY <1>1, <1>2 DEF CountInv

LEMMA CountInvCounts == CountInv => CountedOnce
<1> SUFFICES ASSUME CountInv, NEW r \in Requests
             PROVE  /\ Len(req[r].counts) <= 1
                    /\ Over(r) /\ req[r].mode # "none" /\ sent[r].text # None => Len(req[r].counts) = 1
                    /\ sent[r].text = None => req[r].counts = <<>>
  BY DEF CountedOnce
<1>1. Accounted(req[r], sent[r].text)
  BY DEF CountInv
<1>2. Len(<<>>) = 0
  OBVIOUS
<1>3. Len(req[r].counts) <= 1
  <2>1. \A n \in {0, 1} : n <= 1
    OBVIOUS
  <2> QED
    BY <1>1, <1>2, <2>1, Zenon DEF Accounted
<1>4. sent[r].text = None => req[r].counts = <<>>
  BY <1>1 DEF Accounted
<1>5. ASSUME Over(r), req[r].mode # "none"
      PROVE  Len(req[r].counts) = 1
  <2>1. req[r].rv = "done"
    BY <1>1, <1>5 DEF Accounted, Over
  <2> QED
    BY <1>1, <2>1 DEF Accounted
<1> QED
  BY <1>3, <1>4, <1>5

\* The first count of a request.
LEMMA FirstCount ==
  ASSUME NEW r \in Requests, NEW outcome, req[r].counts = <<>>
  PROVE  /\ sent[r].text = None => Counted(r, outcome) = <<>>
         /\ sent[r].text # None => Len(Counted(r, outcome)) = 1
  BY DEF Counted

\* r alone changes, and it is accounted for.
Accounts(r) == /\ Shape'
               /\ \A q \in Requests \ {r} : req'[q] = req[q]
               /\ Accounted(req'[r], sent[r].text)
               /\ UNCHANGED sent

LEMMA AccountsKeeps ==
  ASSUME CountInv, NEW r \in Requests, Accounts(r)
  PROVE  CountInv'
  BY DEF CountInv, Accounts

LEMMA HandlerAccounts ==
  ASSUME CountInv, NEW r \in Requests,
         Bypass(r) \/ Malformed(r) \/ Admit(r) \/ Handle(r) \/ Disconnect(r)
  PROVE  Accounts(r)
<1>s. Shape /\ Accounted(req[r], sent[r].text)
  BY DEF CountInv
<1> USE <1>s DEF At, Shape, Fields, Unsent, Early, Counting, Accounted, Accounts
<1>1. CASE Bypass(r) \/ Malformed(r)
  BY <1>1 DEF Bypass, Malformed, Arriving, Answer
<1>2. CASE Admit(r)
  BY <1>2 DEF Admit, Arriving
<1>3. CASE LookupFail(r)
  BY <1>3 DEF LookupFail
<1>4. CASE /\ req[r].pc \in {"explicit", "scope", "history"}
           /\ UNCHANGED sent
           /\ (\E key : Frozen(r, key)) \/ NotFrozen(r)
              \/ \E pc \in {"scope", "history"} : req' = [req EXCEPT ![r].pc = pc]
  <2>1. CASE \E key : Frozen(r, key)
    <3>1. PICK key : Frozen(r, key)
      BY <2>1
    <3>2. req[r].counts = <<>> /\ req[r].mode = "none" /\ req[r].rv = "none"
      BY <1>4
    <3>3. req'[r] = [req[r] EXCEPT !.pc = "done", !.answer = "refused", !.cause = key,
                                   !.counts = Counted(r, "session_blocked")]
      BY <3>1 DEF Frozen
    <3>4. \/ sent[r].text = None /\ Counted(r, "session_blocked") = <<>>
          \/ sent[r].text # None /\ Len(Counted(r, "session_blocked")) = 1
      BY <3>2, FirstCount
    <3>5. Accounted(req'[r], sent[r].text)
      BY <3>2, <3>3, <3>4
    <3> QED
      BY <1>4, <3>1, <3>5 DEF Frozen
  <2> QED
    BY <1>4, <2>1 DEF NotFrozen
<1>5. LookExplicit(r) \/ LookScope(r) \/ LookHistory(r) =>
        /\ req[r].pc \in {"explicit", "scope", "history"}
        /\ UNCHANGED sent
        /\ (\E key : Frozen(r, key)) \/ NotFrozen(r)
              \/ \E pc \in {"scope", "history"} : req' = [req EXCEPT ![r].pc = pc]
  BY Zenon DEF LookExplicit, LookScope, LookHistory
<1>6. CASE Skip(r) \/ Busy(r)
  BY <1>6, FirstCount DEF Skip, Busy, Dispatching, Forward
<1>7. CASE StartAsync(r)
  BY <1>7 DEF StartAsync, Dispatching
<1>8. CASE StartSync(r)
  BY <1>8 DEF StartSync, Dispatching
<1>9. CASE Disconnect(r)
  BY <1>9 DEF Disconnect
<1> QED
  BY <1>1, <1>2, <1>3, <1>4, <1>5, <1>6, <1>7, <1>8, <1>9 DEF Handle

LEMMA EndReviewAccounts ==
  ASSUME CountInv, NEW r \in Requests, req[r].rv \in Counting, UNCHANGED sent,
         NEW outcome, NEW verdict, NEW batches, EndReview(r, outcome, verdict, batches)
  PROVE  Accounts(r)
<1>s. Shape /\ Accounted(req[r], sent[r].text)
  BY DEF CountInv
<1>1. Len(Counted(r, outcome)) = 1
  BY <1>s, FirstCount DEF Accounted, Counting
<1> USE <1>s, <1>1 DEF Shape, Fields, Unsent, Early, Counting, Accounted, Accounts, Ended
<1>2. CASE Freezing(r, outcome, verdict, batches)
  BY <1>2 DEF Freezing
<1>3. CASE Ending(r, outcome, verdict, batches)
  BY <1>3 DEF Ending
<1> QED
  BY <1>2, <1>3, EndReviewCases

LEMMA ReviewAccounts ==
  ASSUME CountInv, NEW r \in Requests, Review(r)
  PROVE  Accounts(r)
<1>s. Shape /\ Accounted(req[r], sent[r].text)
  BY DEF CountInv
<1>u. UNCHANGED sent
  BY DEF Review, TooLong, CacheHit, CacheMiss, Classify, ClassifyFail, SaveFact, SaveFail,
         FreezeKey, FreezeScope
<1>1. CASE \E outcome, verdict, batches :
             req[r].rv \in Counting /\ EndReview(r, outcome, verdict, batches)
  BY <1>u, <1>1, EndReviewAccounts
<1>3. CASE FreezeKey(r)
  BY <1>s, <1>u, <1>3 DEF FreezeKey, Reviewing, Accounts, Accounted, Shape, Fields, Unsent,
                          Early, Counting
<1>4. CASE FreezeScope(r)
  <2>1. PICK kept : req[r].rv = "freeze" /\ EndFreeze(r, kept)
    BY <1>4 DEF FreezeScope, Reviewing
  <2> QED
    BY <1>s, <1>u, <2>1 DEF EndFreeze, Accounts, Accounted, Shape, Fields, Unsent,
                            Early, Counting
<1>6. CASE CacheMiss(r)
  BY <1>s, <1>u, <1>6 DEF CacheMiss, Reviewing, Accounts, Accounted, Shape, Fields, Unsent,
                          Early, Counting
<1>7. CASE /\ req[r].rv = "classify"
           /\ \E scores, verdict :
                req' = [req EXCEPT ![r].rv = "save", ![r].scores = scores, ![r].verdict = verdict]
  BY <1>s, <1>u, <1>7 DEF Accounts, Accounted, Shape, Fields, Unsent, Early, Counting
<1>8. CASE /\ req[r].rv = "save"
           /\ \E k : req' = [req EXCEPT ![r].save = @ \ {k}]
  BY <1>s, <1>u, <1>8 DEF Accounts, Accounted, Shape, Fields, Unsent, Early, Counting
<1>c. {"cache", "classify", "save"} \subseteq Counting
  BY DEF Counting
<1>9. Classify(r) =>
        \/ \E outcome, verdict, batches :
             req[r].rv \in Counting /\ EndReview(r, outcome, verdict, batches)
        \/ /\ req[r].rv = "classify"
           /\ \E scores, verdict :
                req' = [req EXCEPT ![r].rv = "save", ![r].scores = scores, ![r].verdict = verdict]
  BY <1>c DEF Classify, Reviewing
<1>10. SaveFact(r) =>
        \/ \E outcome, verdict, batches :
             req[r].rv \in Counting /\ EndReview(r, outcome, verdict, batches)
        \/ /\ req[r].rv = "save"
           /\ \E k : req' = [req EXCEPT ![r].save = @ \ {k}]
  BY <1>c DEF SaveFact, Reviewing
<1>11. TooLong(r) \/ CacheHit(r) \/ ClassifyFail(r) \/ SaveFail(r) =>
        \E outcome, verdict, batches :
          req[r].rv \in Counting /\ EndReview(r, outcome, verdict, batches)
  BY DEF TooLong, CacheHit, ClassifyFail, SaveFail, Reviewing, Counting
<1> QED
  BY <1>1, <1>3, <1>4, <1>6, <1>7, <1>8, <1>9, <1>10, <1>11 DEF Review

LEMMA NextCount == CountInv /\ [Next]_vars => CountInv'
<1> SUFFICES ASSUME CountInv, [Next]_vars PROVE CountInv'
  OBVIOUS
<1>1. ASSUME NEW r \in Requests,
             Bypass(r) \/ Malformed(r) \/ Admit(r) \/ Handle(r) \/ Disconnect(r)
      PROVE  CountInv'
  BY <1>1, HandlerAccounts, AccountsKeeps
<1>2. ASSUME NEW r \in Requests, Review(r)
      PROVE  CountInv'
  BY <1>2, ReviewAccounts, AccountsKeeps
<1>3. CASE UNCHANGED <<req, sent>>
  BY <1>3 DEF CountInv, Shape
<1>4. SavePolicy \/ Evict \/ Tick \/ CloseBegin \/ CloseTimeout \/ CloseEnd \/ UNCHANGED vars
        => UNCHANGED <<req, sent>>
  BY DEF SavePolicy, Evict, Tick, CloseBegin, CloseTimeout, CloseEnd, vars
<1> QED
  BY <1>1, <1>2, <1>3, <1>4 DEF Next

\* A request is counted at most once, exactly once if its review was decided on, and
\* never without user input, whichever of handler and goroutine counts it and
\* whenever the client leaves (recordCount, review, startReview).
THEOREM CountsCorrect == Spec => []CountedOnce
  BY InitCount, NextCount, CountInvCounts, PTL DEF Spec

-----------------------------------------------------------------------------
(***************************************************************************)
(* The session freeze, for any number of requests, any calls and policies, *)
(* and any length of lookup.                                               *)
(*                                                                         *)
(* Every refusal has its cause: the invariant says which review founded    *)
(* each key that is frozen, the marker of the scope only by a freeze that  *)
(* was written in full, and that a lookup that has gone past the marker    *)
(* rests on such a freeze too, also if it has ended since.                 *)
(*                                                                         *)
(* A conversation that was frozen in full is refused until the freeze      *)
(* ends: what a review has promised lasts, under every key it wrote, as    *)
(* long as it promised, and so a request to which something was promised   *)
(* when it arrived finds a live key at each of its lookups.                *)
(*                                                                         *)
(* Max, Min and the first match of a policy are CHOOSEn: that what is      *)
(* chosen exists follows from the well-founded order of the naturals, over *)
(* the set of counterexamples.                                             *)
(***************************************************************************)

(***************************************************************************)
(* Least and greatest numbers.                                             *)
(***************************************************************************)

LEMMA LeastNat ==
  ASSUME NEW S \in SUBSET Nat, S # {}
  PROVE  \E x \in S : \A y \in S : x <= y
<1> DEFINE R == {p \in Nat \X Nat : p[1] < p[2]}
<1>1. IsWellFoundedOn(R, Nat)
  BY NatLessThanWellFounded DEF OpToRel
<1> HIDE DEF R
<1>2. S \subseteq Nat
  OBVIOUS
<1>3. \E x \in S : \A y \in S : ~ (<<y, x>> \in R)
  BY <1>1, <1>2, WFMin, Zenon
<1>4. PICK x \in S : \A y \in S : ~ (<<y, x>> \in R)
  BY <1>3
<1>5. ASSUME NEW y \in S, y < x PROVE <<y, x>> \in R
  <2>1. <<y, x>> \in Nat \X Nat /\ <<y, x>>[1] = y /\ <<y, x>>[2] = x
    BY <1>2
  <2> QED BY <1>5, <2>1 DEF R
<1>6. ASSUME NEW y \in S PROVE x <= y
  <2>1. ~(y < x)
    BY <1>4, <1>5, Zenon
  <2>2. x \in Nat /\ y \in Nat
    BY <1>2
  <2> QED BY <2>1, <2>2
<1> QED BY <1>6

\* A least counterexample n of the cardinality has an element to spare.
LEMMA FiniteMax ==
  ASSUME NEW S \in SUBSET Nat, IsFiniteSet(S), S # {}
  PROVE  \E x \in S : \A y \in S : x >= y
<1> DEFINE Bad(n) == \E T \in SUBSET Nat : /\ IsFiniteSet(T) /\ T # {} /\ Cardinality(T) = n
                                           /\ ~ \E x \in T : \A y \in T : x >= y
           B == {n \in Nat : Bad(n)}
<1>1. SUFFICES ASSUME B # {} PROVE FALSE
  BY FS_CardinalityType
<1>2. PICK n \in B : \A m \in B : n <= m
  <2> HIDE DEF B
  <2>1. B \in SUBSET Nat
    BY DEF B
  <2> QED BY <1>1, <2>1, LeastNat
<1>3. PICK T \in SUBSET Nat : /\ IsFiniteSet(T) /\ T # {} /\ Cardinality(T) = n
                              /\ ~ \E x \in T : \A y \in T : x >= y
  BY <1>2
<1>4. PICK x \in T : TRUE
  BY <1>3
<1>5. IsFiniteSet(T \ {x}) /\ Cardinality(T \ {x}) = n - 1
  BY <1>3, FS_RemoveElement
<1>6. T \ {x} # {}
  BY <1>3
<1>7. n \in Nat /\ n - 1 \in Nat
  BY <1>5, FS_CardinalityType
<1>8. PICK m \in T \ {x} : \A y \in T \ {x} : m >= y
  <2>1. n - 1 \notin B
    BY <1>2, <1>7
  <2> QED BY <1>3, <1>5, <1>6, <1>7, <2>1
<1>9. \/ \A y \in T : m >= y
      \/ \A y \in T : x >= y
  <2>1. m \in Nat /\ x \in Nat /\ \A y \in T : y \in Nat
    BY <1>3, <1>8
  <2> QED BY <1>8, <2>1
<1> QED BY <1>3, <1>8, <1>9

LEMMA MaxIs ==
  ASSUME NEW S \in SUBSET Nat, IsFiniteSet(S), S # {}
  PROVE  Max(S) \in S /\ \A y \in S : Max(S) >= y
<1>1. \E x \in S : \A y \in S : x >= y
  BY FiniteMax
<1> QED BY <1>1 DEF Max

LEMMA MinIs ==
  ASSUME NEW S \in SUBSET Nat, S # {}
  PROVE  Min(S) \in S /\ \A y \in S : Min(S) <= y
<1>1. \E x \in S : \A y \in S : x <= y
  BY LeastNat
<1> QED BY <1>1 DEF Min

LEMMA MaxOfTwo ==
  ASSUME NEW a \in Nat, NEW b \in Nat
  PROVE  Max({a, b}) \in {a, b} /\ Max({a, b}) >= a /\ Max({a, b}) >= b
<1>1. \E x \in {a, b} : \A y \in {a, b} : x >= y
  OBVIOUS
<1> QED BY <1>1 DEF Max

-----------------------------------------------------------------------------
(***************************************************************************)
(* The invariant: each request by itself, what founds a freeze, what is owed.*)
(***************************************************************************)

\* What a policy decides: no scene, or one of its scenes.
VerdictOf(p, v) ==
  /\ v.scene \in {0} \cup DOMAIN p.scenes
  /\ v.action \in {"allow", "block"}
  /\ v.action = "block" => v.scene \in DOMAIN p.scenes

\* The keys r may write besides the scope.
OwnKeys(r) == {Explicit(r), Exact(r), PreLatest(r)} \ {NoKey}

\* The comparisons a review under p asks about.
KeysUnder(p, r) == {Key(c) : c \in ApplicableConditions(p, sent[r].endpoint, sent[r].model)}

\* One request by itself: t is what is known of r.
ReqOK(r, t) ==
  /\ t.pc \in Early \cup {"review", "done"}
  /\ t.mode \in {"none", "sync", "async"}
  /\ t.rv \in {"none", "cache", "classify", "save", "freeze", "done"}
  /\ t.answer \in {"none", "forwarded", "refused", "error"}
  /\ t.policy \in PolicySet \cup {Unsent.policy}
  /\ VerdictOf(t.policy, t.verdict)
  /\ t.kept \in Nat /\ t.owed \in Nat /\ t.passed \in Nat \cup {NotYet}
  /\ t.freeze \in Seq(OwnKeys(r))
  /\ t.pc \in Early => t.rv = "none" /\ t.answer = "none"
  /\ t.pc \in Early /\ t.pc # "sample" => t.passed = NotYet
  /\ t.pc = "idle" => t.owed = 0
  /\ t.mode = "none" <=> t.rv = "none"
  /\ t.rv = "none" => t.save = {} /\ t.verdict = NoMatch
  /\ t.save \subseteq KeysUnder(t.policy, r)
  /\ t.rv # "done" => t.kept = 0
  /\ t.rv = "freeze" => FreezeTTL(t.policy, t.verdict) > 0
  /\ t.mode = "async" => t.answer = "forwarded"
  /\ t.mode = "sync" /\ t.rv # "done" => t.answer = "none"

ReqsOK == \A r \in Requests : ReqOK(r, req[r])

BlocksTyped == DOMAIN blocks = BlockKeys /\ (\A k \in BlockKeys : blocks[k] \in Nat) /\ now \in Nat

-----------------------------------------------------------------------------

\* The review of q rejected under a scene that freezes, and writes its freeze or has
\* written it; or wrote all of it.
Froze(q) == req[q].rv \in {"freeze", "done"} /\ req[q].verdict.action = "block" /\ TTL(q) > 0

FrozeAll(q) == Froze(q) /\ req[q].rv = "done" /\ ~req[q].failed

\* Every freeze has a request that earned it.
KeyFounded(k) ==
  \/ k[1] # "scope" /\ \E q \in Requests : Froze(q) /\ k \in OwnKeys(q)
  \/ k[1] = "scope" /\ \E q \in Requests : FrozeAll(q) /\ k = Scope(q)

Founded == \A k \in BlockKeys : blocks[k] # 0 => KeyFounded(k)

\* The marker a lookup has found was founded, also if it has ended since.
HistoryFounded ==
  \A r \in Requests : req[r].pc = "history" =>
    Scope(r) # NoKey /\ \E q \in Requests : FrozeAll(q) /\ Scope(q) = Scope(r)

\* What refuses r: a freeze of its session, of its history, or, where the history is
\* too long to look up, one that was written in full.
CauseFounded(r, key) ==
  \/ key = Explicit(r) /\ \E q \in Requests : Froze(q) /\ Explicit(q) = Explicit(r)
  \/ /\ key \in {Prefix(r, n) : n \in 1..Length(r)}
     /\ \E q \in Requests : Froze(q) /\ key \in {Exact(q), PreLatest(q)}
  \/ /\ key = Scope(r) /\ LookupTruncated(r)
     /\ \E q \in Requests : FrozeAll(q) /\ Scope(q) = Scope(r)

\* A refusal has its cause in a rejected text.
RefusalFounded ==
  \A r \in Requests : req[r].answer = "refused" =>
    \/ req[r].cause = Verdict /\ req[r].verdict.action = "block"
    \/ CauseFounded(r, req[r].cause)

EarnedInv == Founded /\ HistoryFounded /\ RefusalFounded

-----------------------------------------------------------------------------

\* What q promised is still there.
KeptLives ==
  \A q \in Requests :
    /\ req[q].kept > 0 => Scope(q) # NoKey
    /\ req[q].kept > now => \A k \in {Scope(q), Exact(q), PreLatest(q)} \ {NoKey} :
                              blocks[k] >= req[q].kept

\* q covers the history of r.
Covers(q, r) ==
  /\ Scope(q) = Scope(r)
  /\ {Exact(q), PreLatest(q)} \cap {Prefix(r, n) : n \in 1..Length(r)} # {}

OwedPromised ==
  \A r \in Requests : req[r].owed > 0 =>
    \E q \in Requests : Covers(q, r) /\ req[q].kept = req[r].owed

OwedInv == KeptLives /\ OwedPromised /\ FrozenIsRefused

-----------------------------------------------------------------------------
(***************************************************************************)
(* The keys of a freeze.                                                   *)
(***************************************************************************)

SentOK == sent \in Workloads

LEMMA CallFacts ==
  ASSUME SentOK, NEW r \in Requests
  PROVE  /\ CallOK(sent[r])
         /\ sent[r].items \in Seq({"user", "model", "other"} \X Nat)
         /\ Length(r) \in Nat
<1>1. CallOK(sent[r])
  BY GatewayAssumption DEF SentOK
<1> QED BY <1>1 DEF CallOK, Length

LEMMA PrefixFacts ==
  ASSUME NEW r, NEW n
  PROVE  Prefix(r, n) # NoKey /\ Prefix(r, n)[1] = "history"
  BY DEF Prefix, NoKey

\* The history before the latest turn is a history.
LEMMA PreLatestIsPrefix ==
  ASSUME SentOK, NEW r \in Requests
  PROVE  PreLatest(r) = NoKey \/ \E n \in 1..Length(r) : PreLatest(r) = Prefix(r, n)
<1> DEFINE turns == {i \in 2..Length(r) : /\ sent[r].items[i][1] = "user"
                                          /\ \E j \in 1..(i-1) : sent[r].items[j][1] = "model"}
<1>1. PreLatest(r) = IF turns = {} THEN NoKey ELSE Prefix(r, Max(turns) - 1)
  BY DEF PreLatest
<1>2. Length(r) \in Nat
  BY CallFacts
<1>3. turns \in SUBSET (2..Length(r)) /\ turns \in SUBSET Nat
  BY <1>2
<1>4. IsFiniteSet(turns)
  <2>1. IsFiniteSet(2..Length(r))
    BY <1>2, FS_Interval
  <2> QED BY <1>3, <2>1, FS_Subset
<1> HIDE DEF turns
<1>5. ASSUME turns # {} PROVE Max(turns) \in 2..Length(r)
  BY <1>3, <1>4, <1>5, MaxIs
<1>6. ASSUME turns # {} PROVE Max(turns) - 1 \in 1..Length(r)
  BY <1>2, <1>5, <1>6
<1> QED BY <1>1, <1>6

LEMMA ExactIsPrefix ==
  ASSUME SentOK, NEW r \in Requests
  PROVE  Exact(r) = NoKey \/ \E n \in 1..Length(r) : Exact(r) = Prefix(r, n)
<1>1. Length(r) \in Nat /\ (Length(r) # 0 => Length(r) \in 1..Length(r))
  BY CallFacts
<1> QED BY <1>1 DEF Exact

LEMMA SessionKey ==
  ASSUME NEW r
  PROVE  /\ Explicit(r) # NoKey => Explicit(r)[1] = "session"
         /\ Scope(r) # NoKey => Scope(r)[1] = "scope"
  BY DEF Explicit, Scope, NoKey

LEMMA OwnKeyFacts ==
  ASSUME SentOK, NEW r \in Requests
  PROVE  /\ OwnKeys(r) \subseteq BlockKeys
         /\ Scope(r) # NoKey => Scope(r) \in BlockKeys
         /\ \A n \in 1..Length(r) : Prefix(r, n) \in BlockKeys
         /\ \A k \in OwnKeys(r) : \/ k = Explicit(r) /\ k[1] = "session"
                                  \/ k \in {Exact(r), PreLatest(r)} /\ k[1] = "history"
<1> DEFINE keys(q) == {Explicit(q), Scope(q)} \cup {Prefix(q, n) : n \in 1..Length(q)}
<1>k. \A k \in keys(r) : k # NoKey => k \in BlockKeys
  <2>1. BlockKeys = UNION {keys(q) \ {NoKey} : q \in Requests}
    BY DEF BlockKeys
  <2> HIDE DEF keys
  <2> QED BY <2>1
<1>1. \A n \in 1..Length(r) : Prefix(r, n) \in BlockKeys
  BY <1>k, PrefixFacts
<1>2. Scope(r) # NoKey => Scope(r) \in BlockKeys
  BY <1>k
<1>3. Explicit(r) # NoKey => Explicit(r) \in BlockKeys
  BY <1>k
<1>4. OwnKeys(r) \subseteq BlockKeys
  BY <1>1, <1>3, PreLatestIsPrefix, ExactIsPrefix DEF OwnKeys
<1>5. ASSUME NEW k \in OwnKeys(r)
      PROVE  \/ k = Explicit(r) /\ k[1] = "session"
             \/ k \in {Exact(r), PreLatest(r)} /\ k[1] = "history"
  BY SessionKey, PreLatestIsPrefix, ExactIsPrefix, PrefixFacts DEF OwnKeys
<1> QED BY <1>1, <1>2, <1>4, <1>5

LEMMA GivenIs ==
  ASSUME NEW S, NEW k, k # NoKey => k \in S
  PROVE  /\ Given(k) \in Seq(S)
         /\ ToSet(Given(k)) = {k} \ {NoKey}
<1>1. CASE k = NoKey
  BY <1>1 DEF Given, ToSet
<1>2. CASE k # NoKey
  BY <1>2 DEF Given, ToSet
<1> QED BY <1>1, <1>2

LEMMA ConcatSet ==
  ASSUME NEW S, NEW s \in Seq(S), NEW t \in Seq(S)
  PROVE  s \o t \in Seq(S) /\ ToSet(s \o t) = ToSet(s) \cup ToSet(t)
<1>1. /\ s \o t \in Seq(S)
      /\ Len(s \o t) = Len(s) + Len(t)
      /\ DOMAIN (s \o t) = 1..(Len(s) + Len(t))
      /\ DOMAIN s = 1..Len(s) /\ DOMAIN t = 1..Len(t)
      /\ Len(s) \in Nat /\ Len(t) \in Nat
      /\ \A i \in 1..(Len(s) + Len(t)) : (s \o t)[i] = IF i <= Len(s) THEN s[i] ELSE t[i - Len(s)]
  OBVIOUS
<1>2. ASSUME NEW x \in ToSet(s \o t) PROVE x \in ToSet(s) \cup ToSet(t)
  <2>1. PICK i \in 1..(Len(s) + Len(t)) : x = (s \o t)[i]
    BY <1>1, <1>2 DEF ToSet
  <2>2. CASE i <= Len(s)
    BY <1>1, <2>1, <2>2 DEF ToSet
  <2>3. CASE ~(i <= Len(s))
    <3>1. i - Len(s) \in 1..Len(t) /\ x = t[i - Len(s)]
      BY <1>1, <2>1, <2>3
    <3> QED BY <1>1, <3>1 DEF ToSet
  <2> QED BY <2>2, <2>3
<1>3. ASSUME NEW x \in ToSet(s) PROVE x \in ToSet(s \o t)
  <2>1. PICK i \in 1..Len(s) : x = s[i]
    BY <1>1, <1>3 DEF ToSet
  <2>2. i \in 1..(Len(s) + Len(t)) /\ (s \o t)[i] = x
    BY <1>1, <2>1
  <2> QED BY <1>1, <2>2 DEF ToSet
<1>4. ASSUME NEW x \in ToSet(t) PROVE x \in ToSet(s \o t)
  <2>1. PICK i \in 1..Len(t) : x = t[i]
    BY <1>1, <1>4 DEF ToSet
  <2>2. /\ i + Len(s) \in 1..(Len(s) + Len(t)) /\ ~(i + Len(s) <= Len(s))
        /\ (i + Len(s)) - Len(s) = i
    BY <1>1, <2>1
  <2>3. (s \o t)[i + Len(s)] = x
    BY <1>1, <2>1, <2>2
  <2> QED BY <1>1, <2>2, <2>3 DEF ToSet
<1> QED BY <1>1, <1>2, <1>3, <1>4

LEMMA FreezeKeysAre ==
  ASSUME NEW r
  PROVE  FreezeKeys(r) \in Seq(OwnKeys(r)) /\ ToSet(FreezeKeys(r)) = OwnKeys(r)
<1> DEFINE a == Given(Explicit(r))
           b == Given(Exact(r))
           c == Given(PreLatest(r))
           S == OwnKeys(r)
<1>1. /\ a \in Seq(S) /\ ToSet(a) = {Explicit(r)} \ {NoKey}
      /\ b \in Seq(S) /\ ToSet(b) = {Exact(r)} \ {NoKey}
      /\ c \in Seq(S) /\ ToSet(c) = {PreLatest(r)} \ {NoKey}
  BY GivenIs DEF OwnKeys
<1>2. FreezeKeys(r) = (a \o b) \o c
  BY DEF FreezeKeys
<1> HIDE DEF a, b, c, S
<1>3. a \o b \in Seq(S) /\ ToSet(a \o b) = ToSet(a) \cup ToSet(b)
  BY <1>1, ConcatSet
<1> DEFINE ab == a \o b
<1>4. ab \in Seq(S) /\ ToSet(ab) = ToSet(a) \cup ToSet(b) /\ FreezeKeys(r) = ab \o c
  BY <1>2, <1>3
<1> HIDE DEF ab
<1>5. ab \o c \in Seq(S) /\ ToSet(ab \o c) = ToSet(ab) \cup ToSet(c)
  BY <1>1, <1>4, ConcatSet
<1>6. ToSet(FreezeKeys(r)) = OwnKeys(r)
  BY <1>1, <1>4, <1>5 DEF OwnKeys
<1> QED BY <1>4, <1>5, <1>6 DEF S

-----------------------------------------------------------------------------
(***************************************************************************)
(* What a step makes of one request.                                       *)
(***************************************************************************)

\* What others rely on once the review of t is over, and while it freezes.
Lasts(t, u) ==
  /\ t.rv \in {"freeze", "done"} =>
       u.rv \in {"freeze", "done"} /\ u.verdict = t.verdict /\ u.policy = t.policy
  /\ t.rv = "done" => u.rv = "done" /\ u.failed = t.failed /\ u.kept = t.kept

\* r alone changes, into what a request can be.
Moves(r) ==
  /\ Shape'
  /\ \A q \in Requests \ {r} : req'[q] = req[q]
  /\ ReqOK(r, req'[r])
  /\ Lasts(req[r], req'[r])
  /\ UNCHANGED sent

LEMMA RecordMoves ==
  ASSUME Shape, NEW r \in Requests, NEW u, req' = [req EXCEPT ![r] = u], DOMAIN u = Fields,
         ReqOK(r, u), Lasts(req[r], u), UNCHANGED sent
  PROVE  Moves(r) /\ req'[r] = u
  BY DEF Shape, Moves

LEMMA NoMatchIsVerdict ==
  ASSUME NEW p
  PROVE  VerdictOf(p, NoMatch)
  BY DEF VerdictOf, NoMatch

LEMMA AnswerMoves ==
  ASSUME Shape, ReqsOK, NEW r \in Requests, req[r].pc = "idle", policy \in PolicySet,
         NEW answer \in {"forwarded", "error"}, Answer(r, answer), UNCHANGED sent
  PROVE  /\ Moves(r)
         /\ req'[r].pc = "done" /\ req'[r].answer = answer
         /\ req'[r].owed = req[r].owed /\ req'[r].passed = req[r].passed
<1> DEFINE u == [req[r] EXCEPT !.pc = "done", !.answer = answer, !.policy = policy]
<1>1. ReqOK(r, req[r]) /\ req[r].pc \in Early
  BY DEF ReqsOK, Early
<1>2. DOMAIN u = Fields /\ req' = [req EXCEPT ![r] = u]
  BY DEF Answer, Shape
<1>3. /\ u.pc = "done" /\ u.answer = answer /\ u.policy = policy
      /\ u.mode = req[r].mode /\ u.rv = req[r].rv /\ u.save = req[r].save
      /\ u.verdict = req[r].verdict /\ u.kept = req[r].kept /\ u.owed = req[r].owed
      /\ u.passed = req[r].passed /\ u.freeze = req[r].freeze /\ u.failed = req[r].failed
  BY DEF Shape, Fields, Unsent
<1> HIDE DEF u
<1>4. ReqOK(r, u) /\ Lasts(req[r], u)
  BY <1>1, <1>3, NoMatchIsVerdict DEF ReqOK, Lasts, Early
<1> QED BY <1>2, <1>3, <1>4, RecordMoves

-----------------------------------------------------------------------------
(***************************************************************************)
(* The handler: admission and lookups.                                     *)
(***************************************************************************)

\* How r comes to a refusal, or to a look at its history.
Earned(r) ==
  /\ req'[r].pc = "history" => Scope(r) # NoKey /\ Live(Scope(r))
  /\ req'[r].answer = "refused" =>
       \/ req'[r].cause = Verdict /\ req'[r].verdict.action = "block"
       \/ CauseFounded(r, req'[r].cause)

\* How r passes the freezes.
Passes(r) ==
  /\ req'[r].kept = req[r].kept
  /\ \/ req'[r].passed = req[r].passed /\ req'[r].owed = req[r].owed
     \/ req[r].passed = NotYet /\ req'[r].passed = NotYet /\ req'[r].owed \in {0, Promised(r)}
     \/ req'[r].passed = now /\ req'[r].owed = req[r].owed /\ req[r].owed <= now

\* What holds before every step.
FreezeInv == Shape /\ SentOK /\ policy \in PolicySet /\ ReqsOK /\ BlocksTyped /\ EarnedInv /\ OwedInv

Handled(r) == Moves(r) /\ Earned(r) /\ Passes(r)

LEMMA PromisedIs ==
  ASSUME ReqsOK, NEW r \in Requests
  PROVE  /\ Promised(r) \in Nat
         /\ Promised(r) > 0 => \E q \in Requests : Covers(q, r) /\ req[q].kept = Promised(r)
<1> DEFINE C == {q \in Requests : Covers(q, r)}
           S == {0} \cup {req[q].kept : q \in C}
<1>1. Promised(r) = Max(S)
  BY DEF Promised, Covers
<1>2. S \in SUBSET Nat /\ S # {}
  BY DEF ReqsOK, ReqOK
<1>3. IsFiniteSet(S)
  <2>1. IsFiniteSet(C)
    BY GatewayAssumption, FS_Subset
  <2>2. IsFiniteSet({req[q].kept : q \in C})
    <3> DEFINE f == [q \in C |-> req[q].kept]
               T == {req[q].kept : q \in C}
    <3>1. f \in [C -> T] /\ \A t \in T : \E q \in C : f[q] = t
      OBVIOUS
    <3>2. f \in Surjection(C, T)
      BY <3>1 DEF Surjection
    <3> HIDE DEF f, T
    <3>3. IsFiniteSet(T)
      BY <2>1, <3>2, FS_Surjection
    <3> QED BY <3>3 DEF T
  <2> QED BY <2>2, FS_AddElement
<1> HIDE DEF S
<1>4. Max(S) \in S
  BY <1>2, <1>3, MaxIs
<1> QED BY <1>1, <1>2, <1>4 DEF S

LEMMA AdmissionHandled ==
  ASSUME FreezeInv, NEW r \in Requests, Bypass(r) \/ Malformed(r) \/ Admit(r)
  PROVE  Handled(r)
<1>1. /\ Shape /\ ReqsOK /\ policy \in PolicySet /\ req[r].pc = "idle" /\ UNCHANGED sent
      /\ ReqOK(r, req[r])
  BY DEF FreezeInv, ReqsOK, Bypass, Malformed, Admit, Arriving, At
<1>2. CASE Bypass(r) \/ Malformed(r)
  <2>1. PICK answer \in {"forwarded", "error"} : Answer(r, answer)
    BY <1>2 DEF Bypass, Malformed
  <2>2. /\ Moves(r) /\ req'[r].pc = "done" /\ req'[r].answer = answer
        /\ req'[r].owed = req[r].owed /\ req'[r].passed = req[r].passed /\ req'[r].kept = req[r].kept
    <3>1. req'[r].kept = req[r].kept
      BY <1>1, <2>1 DEF Answer, Shape, Fields, Unsent
    <3> QED BY <1>1, <2>1, <3>1, AnswerMoves
  <2> QED BY <2>2 DEF Handled, Earned, Passes
<1>3. CASE Admit(r)
  <2>1. PICK pc \in {"explicit", "sample"}, owed \in {0, Promised(r)} :
          req' = [req EXCEPT ![r].policy = policy, ![r].pc = pc, ![r].owed = owed]
    BY <1>3 DEF Admit
  <2> DEFINE u == [req[r] EXCEPT !.policy = policy, !.pc = pc, !.owed = owed]
  <2>2. req' = [req EXCEPT ![r] = u] /\ DOMAIN u = Fields
    BY <1>1, <2>1 DEF Shape
  <2>3. /\ u.pc = pc /\ u.policy = policy /\ u.owed = owed /\ u.answer = req[r].answer
        /\ u.mode = req[r].mode /\ u.rv = req[r].rv /\ u.save = req[r].save
        /\ u.verdict = req[r].verdict /\ u.kept = req[r].kept
        /\ u.passed = req[r].passed /\ u.freeze = req[r].freeze /\ u.failed = req[r].failed
    BY <1>1 DEF Shape, Fields, Unsent
  <2> HIDE DEF u
  <2>4. owed \in Nat
    BY <1>1, PromisedIs
  <2>5. ReqOK(r, u) /\ Lasts(req[r], u)
    BY <1>1, <2>3, <2>4, NoMatchIsVerdict DEF ReqOK, Lasts, Early
  <2>6. Moves(r) /\ req'[r] = u
    BY <1>1, <2>2, <2>5, RecordMoves
  <2>7. req[r].answer = "none" /\ req[r].passed = NotYet
    BY <1>1 DEF ReqOK, Early
  <2> QED BY <2>3, <2>6, <2>7 DEF Handled, Earned, Passes
<1> QED BY <1>2, <1>3

\* The lookups: r is refused, goes on, or has passed.
LEMMA FrozenHandled ==
  ASSUME FreezeInv, NEW r \in Requests, req[r].pc \in Early, UNCHANGED sent,
         NEW key, CauseFounded(r, key), Frozen(r, key)
  PROVE  Handled(r)
<1> DEFINE u == [req[r] EXCEPT !.pc = "done", !.answer = "refused", !.cause = key,
                               !.counts = Counted(r, "session_blocked")]
<1>1. Shape /\ ReqOK(r, req[r]) /\ req' = [req EXCEPT ![r] = u] /\ DOMAIN u = Fields
  BY DEF FreezeInv, ReqsOK, Shape, Frozen
<1>2. /\ u.pc = "done" /\ u.policy = req[r].policy /\ u.owed = req[r].owed /\ u.answer = "refused"
      /\ u.mode = req[r].mode /\ u.rv = req[r].rv /\ u.save = req[r].save
      /\ u.verdict = req[r].verdict /\ u.kept = req[r].kept /\ u.cause = key
      /\ u.passed = req[r].passed /\ u.freeze = req[r].freeze /\ u.failed = req[r].failed
  BY <1>1 DEF Shape, Fields, Unsent
<1> HIDE DEF u
<1>3. ReqOK(r, u) /\ Lasts(req[r], u)
  BY <1>1, <1>2 DEF ReqOK, Lasts, Early
<1>4. Moves(r) /\ req'[r] = u
  BY <1>1, <1>3, RecordMoves
<1> QED BY <1>2, <1>4 DEF Handled, Earned, Passes

LEMMA GoesOnHandled ==
  ASSUME FreezeInv, NEW r \in Requests, req[r].pc \in {"explicit", "scope", "history"},
         UNCHANGED sent, NEW pc \in {"scope", "history", "sample"},
         pc = "history" => Scope(r) # NoKey /\ Live(Scope(r)),
         req' = [req EXCEPT ![r].pc = pc]
  PROVE  Handled(r)
<1> DEFINE u == [req[r] EXCEPT !.pc = pc]
<1>1. Shape /\ ReqOK(r, req[r]) /\ req' = [req EXCEPT ![r] = u] /\ DOMAIN u = Fields
  BY DEF FreezeInv, ReqsOK, Shape
<1>2. /\ u.pc = pc /\ u.policy = req[r].policy /\ u.owed = req[r].owed /\ u.answer = req[r].answer
      /\ u.mode = req[r].mode /\ u.rv = req[r].rv /\ u.save = req[r].save
      /\ u.verdict = req[r].verdict /\ u.kept = req[r].kept
      /\ u.passed = req[r].passed /\ u.freeze = req[r].freeze /\ u.failed = req[r].failed
  BY <1>1 DEF Shape, Fields, Unsent
<1> HIDE DEF u
<1>3. ReqOK(r, u) /\ Lasts(req[r], u) /\ u.answer = "none"
  BY <1>1, <1>2 DEF ReqOK, Lasts, Early
<1>4. Moves(r) /\ req'[r] = u
  BY <1>1, <1>3, RecordMoves
<1> QED BY <1>2, <1>3, <1>4 DEF Handled, Earned, Passes

LEMMA NotFrozenHandled ==
  ASSUME FreezeInv, NEW r \in Requests, req[r].pc \in Early, UNCHANGED sent,
         req[r].owed <= now, NotFrozen(r)
  PROVE  Handled(r)
<1> DEFINE u == [req[r] EXCEPT !.pc = "sample", !.passed = now]
<1>1. /\ Shape /\ ReqOK(r, req[r]) /\ req' = [req EXCEPT ![r] = u] /\ DOMAIN u = Fields
      /\ now \in Nat
  BY DEF FreezeInv, ReqsOK, Shape, NotFrozen, BlocksTyped
<1>2. /\ u.pc = "sample" /\ u.policy = req[r].policy /\ u.owed = req[r].owed
      /\ u.answer = req[r].answer
      /\ u.mode = req[r].mode /\ u.rv = req[r].rv /\ u.save = req[r].save
      /\ u.verdict = req[r].verdict /\ u.kept = req[r].kept
      /\ u.passed = now /\ u.freeze = req[r].freeze /\ u.failed = req[r].failed
  BY <1>1 DEF Shape, Fields, Unsent
<1> HIDE DEF u
<1>3. ReqOK(r, u) /\ Lasts(req[r], u) /\ u.answer = "none"
  BY <1>1, <1>2 DEF ReqOK, Lasts, Early
<1>4. Moves(r) /\ req'[r] = u
  BY <1>1, <1>3, RecordMoves
<1> QED BY <1>2, <1>3, <1>4 DEF Handled, Earned, Passes

LEMMA LookupFailHandled ==
  ASSUME FreezeInv, NEW r \in Requests, LookupFail(r)
  PROVE  Handled(r)
  BY GoesOnHandled DEF LookupFail

\* Who looks at a key that was frozen in full finds it until it ends.
LEMMA CoveredIsLive ==
  ASSUME FreezeInv, NEW r \in Requests, NEW q \in Requests, Covers(q, r), req[q].kept > now
  PROVE  /\ Scope(r) # NoKey /\ Live(Scope(r))
         /\ \E n \in 1..Length(r) : Live(Prefix(r, n))
<1>1. /\ KeptLives /\ SentOK /\ BlocksTyped /\ now \in Nat /\ req[q].kept \in Nat
  BY DEF FreezeInv, OwedInv, BlocksTyped, ReqsOK, ReqOK
<1>2. Scope(q) # NoKey /\ Scope(q) = Scope(r) /\ Scope(q) \in BlockKeys
  BY <1>1, OwnKeyFacts DEF KeptLives, Covers
<1>3. Live(Scope(r))
  BY <1>1, <1>2 DEF KeptLives, Live, BlocksTyped
<1>4. PICK n \in 1..Length(r) : Prefix(r, n) \in {Exact(q), PreLatest(q)}
  BY DEF Covers
<1>5. Prefix(r, n) \in BlockKeys /\ Prefix(r, n) # NoKey
  BY <1>1, OwnKeyFacts, PrefixFacts
<1>6. Live(Prefix(r, n))
  BY <1>1, <1>4, <1>5 DEF KeptLives, Live, BlocksTyped
<1> QED BY <1>2, <1>3, <1>6

\* Who finds nothing is owed nothing any more.
LEMMA NothingOwed ==
  ASSUME FreezeInv, NEW r \in Requests,
         \/ Scope(r) = NoKey
         \/ ~Live(Scope(r))
         \/ \A n \in 1..Length(r) : ~Live(Prefix(r, n))
  PROVE  req[r].owed <= now
<1>1. now \in Nat /\ req[r].owed \in Nat
  BY DEF FreezeInv, BlocksTyped, ReqsOK, ReqOK
<1>2. SUFFICES ASSUME req[r].owed > now PROVE FALSE
  BY <1>1
<1>3. PICK q \in Requests : Covers(q, r) /\ req[q].kept = req[r].owed
  BY <1>1, <1>2 DEF FreezeInv, OwedInv, OwedPromised
<1> QED BY <1>2, <1>3, CoveredIsLive

LEMMA LiveIsFounded ==
  ASSUME FreezeInv, NEW k \in BlockKeys, Live(k)
  PROVE  KeyFounded(k)
  BY DEF FreezeInv, EarnedInv, Founded, BlocksTyped, Live

LEMMA LookExplicitHandled ==
  ASSUME FreezeInv, NEW r \in Requests, LookExplicit(r)
  PROVE  Handled(r)
<1>1. req[r].pc = "explicit" /\ UNCHANGED sent /\ SentOK
  BY DEF LookExplicit, At, FreezeInv
<1>2. CASE req' = [req EXCEPT ![r].pc = "scope"]
  BY <1>1, <1>2, GoesOnHandled
<1>3. CASE Explicit(r) # NoKey /\ Live(Explicit(r)) /\ Frozen(r, Explicit(r))
  <2>1. Explicit(r) \in BlockKeys /\ Explicit(r)[1] = "session"
    BY <1>1, <1>3, OwnKeyFacts, SessionKey DEF OwnKeys
  <2>2. PICK q \in Requests : Froze(q) /\ Explicit(r) \in OwnKeys(q)
    BY <1>3, <2>1, LiveIsFounded DEF KeyFounded
  <2>3. Explicit(q) = Explicit(r)
    BY <1>1, <2>1, <2>2, OwnKeyFacts
  <2>4. CauseFounded(r, Explicit(r))
    BY <2>2, <2>3 DEF CauseFounded
  <2> QED BY <1>1, <1>3, <2>4, FrozenHandled DEF Early
<1> QED BY <1>2, <1>3 DEF LookExplicit

LEMMA LookScopeHandled ==
  ASSUME FreezeInv, NEW r \in Requests, LookScope(r)
  PROVE  Handled(r)
<1>1. req[r].pc = "scope" /\ UNCHANGED sent
  BY DEF LookScope, At
<1>2. CASE (Scope(r) = NoKey \/ ~Live(Scope(r))) /\ NotFrozen(r)
  <2>1. req[r].owed <= now
    BY <1>2, NothingOwed
  <2> QED BY <1>1, <1>2, <2>1, NotFrozenHandled DEF Early
<1>3. CASE Scope(r) # NoKey /\ Live(Scope(r)) /\ req' = [req EXCEPT ![r].pc = "history"]
  BY <1>1, <1>3, GoesOnHandled
<1> QED BY <1>2, <1>3 DEF LookScope

\* A shortest key of those found exists.
LEMMA FirstFound ==
  ASSUME SentOK, NEW r \in Requests, NEW F, F \subseteq LookupKeys(r), F # {}
  PROVE  (CHOOSE k \in F : \A j \in F : Len(k[3]) <= Len(j[3])) \in F
<1> DEFINE S == {Len(k[3]) : k \in F}
<1>1. S \in SUBSET Nat /\ S # {}
  <2> SUFFICES ASSUME NEW k \in F PROVE Len(k[3]) \in Nat
    OBVIOUS
  <2>1. PICK n \in 1..Length(r) : k = Prefix(r, n)
    BY DEF LookupKeys
  <2>2. k[3] = SubSeq(sent[r].items, 1, n)
    BY <2>1 DEF Prefix
  <2>3. SubSeq(sent[r].items, 1, n) \in Seq({"user", "model", "other"} \X Nat)
    BY CallFacts, <2>1 DEF Length
  <2> QED BY <2>2, <2>3
<1> HIDE DEF S
<1>2. PICK l \in S : \A m \in S : l <= m
  BY <1>1, LeastNat
<1>3. PICK k \in F : l = Len(k[3])
  BY DEF S
<1>4. \A j \in F : Len(k[3]) <= Len(j[3])
  BY <1>2, <1>3 DEF S
<1> QED BY <1>4

LEMMA LookHistoryHandled ==
  ASSUME FreezeInv, NEW r \in Requests, LookHistory(r)
  PROVE  Handled(r)
<1>1. req[r].pc = "history" /\ UNCHANGED sent /\ SentOK
  BY DEF LookHistory, At, FreezeInv
<1>2. CASE LookupTruncated(r) /\ Frozen(r, Scope(r))
  <2>1. CauseFounded(r, Scope(r))
    BY <1>1, <1>2 DEF FreezeInv, EarnedInv, HistoryFounded, CauseFounded
  <2> QED BY <1>1, <1>2, <2>1, FrozenHandled DEF Early
<1> DEFINE found == {k \in LookupKeys(r) : Live(k)}
           first == CHOOSE k \in found : \A j \in found : Len(k[3]) <= Len(j[3])
<1>3. CASE ~LookupTruncated(r) /\ found = {} /\ NotFrozen(r)
  <2>1. ASSUME NEW n \in 1..Length(r) PROVE ~Live(Prefix(r, n))
    <3>1. n > Length(r) - MaxLookup
      BY <1>1, <1>3, CallFacts, GatewayAssumption DEF LookupTruncated
    <3>2. Prefix(r, n) \in LookupKeys(r)
      BY <3>1 DEF LookupKeys
    <3> QED BY <1>3, <3>2
  <2>2. req[r].owed <= now
    BY <2>1, NothingOwed
  <2> QED BY <1>1, <1>3, <2>2, NotFrozenHandled DEF Early
<1>4. CASE found # {} /\ Frozen(r, first)
  <2>1. first \in found
    BY <1>1, <1>4, FirstFound
  <2> HIDE DEF first
  <2>2. PICK n \in 1..Length(r) : first = Prefix(r, n)
    BY <2>1 DEF LookupKeys
  <2>3. first \in BlockKeys /\ first[1] = "history" /\ Live(first)
    BY <1>1, <2>1, <2>2, OwnKeyFacts, PrefixFacts
  <2>4. PICK q \in Requests : Froze(q) /\ first \in OwnKeys(q)
    BY <2>3, LiveIsFounded DEF KeyFounded
  <2>5. first \in {Exact(q), PreLatest(q)}
    BY <1>1, <2>3, <2>4, OwnKeyFacts
  <2>6. CauseFounded(r, first)
    BY <2>2, <2>4, <2>5 DEF CauseFounded
  <2> QED BY <1>1, <1>4, <2>6, FrozenHandled DEF Early, first
<1>5. \/ LookupTruncated(r) /\ Frozen(r, Scope(r))
      \/ ~LookupTruncated(r) /\ found = {} /\ NotFrozen(r)
      \/ found # {} /\ Frozen(r, first)
  BY Zenon DEF LookHistory
<1> QED BY <1>2, <1>3, <1>4, <1>5

-----------------------------------------------------------------------------
(***************************************************************************)
(* The review and its verdict.                                             *)
(***************************************************************************)

LEMMA EvaluateVerdict ==
  ASSUME NEW p \in PolicySet \cup {Unsent.policy}, NEW endpoint, NEW model, NEW facts
  PROVE  VerdictOf(p, Evaluate(p, endpoint, model, facts))
<1> DEFINE matched == IF p.enabled
                        THEN {i \in Applicable(p, endpoint, model) : Matches(p.scenes[i], facts)}
                        ELSE {}
           first   == CHOOSE i \in matched : \A j \in matched : i <= j
           action  == IF \E c \in Hits(p.scenes[first], facts) : ~RecordsOnly(p.scenes[first], c)
                        THEN "block" ELSE "allow"
           v       == [scene |-> first, action |-> action]
<1>1. matched \subseteq DOMAIN p.scenes
  BY DEF Applicable
<1>2. DOMAIN p.scenes \subseteq Nat
  <2>1. CASE p \in PolicySet
    BY <2>1, GatewayAssumption DEF PolicySet
  <2>2. CASE p = Unsent.policy
    BY <2>2 DEF Unsent
  <2> QED BY <2>1, <2>2
<1>3. Evaluate(p, endpoint, model, facts) = IF matched = {} THEN NoMatch ELSE v
  BY DEF Evaluate
<1>4. ASSUME matched # {} PROVE first \in matched
  <2> HIDE DEF matched
  <2>1. \E i \in matched : \A j \in matched : i <= j
    BY <1>1, <1>2, <1>4, LeastNat
  <2> QED BY <2>1
<1> HIDE DEF matched, first
<1>5. action \in {"allow", "block"}
  OBVIOUS
<1> HIDE DEF action
<1>6. ASSUME matched # {} PROVE VerdictOf(p, v)
  BY <1>1, <1>4, <1>5, <1>6 DEF VerdictOf
<1> QED BY <1>3, <1>6, NoMatchIsVerdict

LEMMA ForwardHandled ==
  ASSUME FreezeInv, NEW r \in Requests, req[r].pc = "sample", UNCHANGED sent,
         NEW outcome, Forward(r, outcome)
  PROVE  Handled(r)
<1> DEFINE u == [req[r] EXCEPT !.pc = "done", !.answer = "forwarded", !.counts = Counted(r, outcome)]
<1>1. Shape /\ ReqOK(r, req[r]) /\ req' = [req EXCEPT ![r] = u] /\ DOMAIN u = Fields
  BY DEF FreezeInv, ReqsOK, Shape, Forward
<1>2. /\ u.pc = "done" /\ u.policy = req[r].policy /\ u.owed = req[r].owed /\ u.answer = "forwarded"
      /\ u.mode = req[r].mode /\ u.rv = req[r].rv /\ u.save = req[r].save
      /\ u.verdict = req[r].verdict /\ u.kept = req[r].kept
      /\ u.passed = req[r].passed /\ u.freeze = req[r].freeze /\ u.failed = req[r].failed
  BY <1>1 DEF Shape, Fields, Unsent
<1> HIDE DEF u
<1>3. ReqOK(r, u) /\ Lasts(req[r], u)
  BY <1>1, <1>2 DEF ReqOK, Lasts, Early
<1>4. Moves(r) /\ req'[r] = u
  BY <1>1, <1>3, RecordMoves
<1> QED BY <1>2, <1>4 DEF Handled, Earned, Passes

LEMMA StartHandled ==
  ASSUME FreezeInv, NEW r \in Requests, StartAsync(r) \/ StartSync(r)
  PROVE  Handled(r)
<1>1. PICK pc \in {"done", "review"}, answer \in {"forwarded", "none"}, mode \in {"sync", "async"} :
        /\ req' = [req EXCEPT ![r].pc = pc, ![r].answer = answer, ![r].mode = mode, ![r].rv = "cache"]
        /\ mode = "async" <=> answer = "forwarded"
  <2>1. req[r].answer = "none" /\ DOMAIN req[r] = Fields /\ DOMAIN req = Requests
    BY DEF FreezeInv, ReqsOK, ReqOK, Shape, StartAsync, StartSync, Dispatching, At, Early
  <2>2. CASE StartAsync(r)
    BY <2>2 DEF StartAsync
  <2>3. CASE StartSync(r)
    <3>1. req' = [req EXCEPT ![r].pc = "review", ![r].answer = "none", ![r].mode = "sync",
                             ![r].rv = "cache"]
      BY <2>1, <2>3 DEF StartSync, Fields, Unsent
    <3> QED BY <3>1
  <2> QED BY <2>2, <2>3
<1> DEFINE u == [req[r] EXCEPT !.pc = pc, !.answer = answer, !.mode = mode, !.rv = "cache"]
<1>2. /\ Shape /\ ReqOK(r, req[r]) /\ req' = [req EXCEPT ![r] = u] /\ DOMAIN u = Fields
      /\ req[r].pc = "sample" /\ UNCHANGED sent
  BY <1>1 DEF FreezeInv, ReqsOK, Shape, StartAsync, StartSync, Dispatching, At
<1>3. /\ u.pc = pc /\ u.policy = req[r].policy /\ u.owed = req[r].owed /\ u.answer = answer
      /\ u.mode = mode /\ u.rv = "cache" /\ u.save = req[r].save
      /\ u.verdict = req[r].verdict /\ u.kept = req[r].kept
      /\ u.passed = req[r].passed /\ u.freeze = req[r].freeze /\ u.failed = req[r].failed
  BY <1>2 DEF Shape, Fields, Unsent
<1> HIDE DEF u
<1>4. ReqOK(r, u) /\ Lasts(req[r], u)
  BY <1>1, <1>2, <1>3 DEF ReqOK, Lasts, Early
<1>5. Moves(r) /\ req'[r] = u
  BY <1>2, <1>4, RecordMoves
<1> QED BY <1>3, <1>5 DEF Handled, Earned, Passes

LEMMA DisconnectHandled ==
  ASSUME FreezeInv, NEW r \in Requests, Disconnect(r)
  PROVE  /\ Moves(r)
         /\ \A f \in {"pc", "answer", "cause", "verdict", "kept", "owed", "passed", "rv"} :
              req'[r][f] = req[r][f]
<1> DEFINE u == [req[r] EXCEPT !.gone = TRUE]
<1>1. /\ Shape /\ ReqOK(r, req[r]) /\ req' = [req EXCEPT ![r] = u] /\ DOMAIN u = Fields
      /\ UNCHANGED sent
  BY DEF FreezeInv, ReqsOK, Shape, Disconnect
<1>2. /\ u.pc = req[r].pc /\ u.policy = req[r].policy /\ u.owed = req[r].owed
      /\ u.answer = req[r].answer /\ u.cause = req[r].cause
      /\ u.mode = req[r].mode /\ u.rv = req[r].rv /\ u.save = req[r].save
      /\ u.verdict = req[r].verdict /\ u.kept = req[r].kept
      /\ u.passed = req[r].passed /\ u.freeze = req[r].freeze /\ u.failed = req[r].failed
  BY <1>1 DEF Shape, Fields, Unsent
<1> HIDE DEF u
<1>3. ReqOK(r, u) /\ Lasts(req[r], u)
  BY <1>1, <1>2 DEF ReqOK, Lasts
<1>4. Moves(r) /\ req'[r] = u
  BY <1>1, <1>3, RecordMoves
<1> QED BY <1>2, <1>4

\* A review moves on within itself.
Continues(r, rv, save, verdict) ==
  \E scores : req' = [req EXCEPT ![r].rv = rv, ![r].save = save, ![r].scores = scores,
                                 ![r].verdict = verdict]

LEMMA ReviewMoves ==
  ASSUME FreezeInv, NEW r \in Requests, NEW rv \in {"classify", "save"}, NEW save, NEW verdict,
         req[r].rv \in {"cache", "classify", "save"}, UNCHANGED sent,
         save \subseteq KeysUnder(P(r), r), VerdictOf(P(r), verdict),
         Continues(r, rv, save, verdict)
  PROVE  Handled(r)
<1>0. PICK scores : req' = [req EXCEPT ![r].rv = rv, ![r].save = save, ![r].scores = scores,
                                       ![r].verdict = verdict]
  BY DEF Continues
<1> DEFINE u == [req[r] EXCEPT !.rv = rv, !.save = save, !.scores = scores, !.verdict = verdict]
<1>1. Shape /\ ReqOK(r, req[r]) /\ req' = [req EXCEPT ![r] = u] /\ DOMAIN u = Fields
  BY <1>0 DEF FreezeInv, ReqsOK, Shape
<1>2. /\ u.pc = req[r].pc /\ u.policy = req[r].policy /\ u.owed = req[r].owed
      /\ u.answer = req[r].answer /\ u.cause = req[r].cause
      /\ u.mode = req[r].mode /\ u.rv = rv /\ u.save = save
      /\ u.verdict = verdict /\ u.kept = req[r].kept
      /\ u.passed = req[r].passed /\ u.freeze = req[r].freeze /\ u.failed = req[r].failed
  BY <1>1 DEF Shape, Fields, Unsent
<1> HIDE DEF u
<1>3. ReqOK(r, u) /\ Lasts(req[r], u) /\ u.pc # "history" /\ u.answer # "refused"
  BY <1>1, <1>2 DEF ReqOK, Lasts, Early, P
<1>4. Moves(r) /\ req'[r] = u
  BY <1>1, <1>3, RecordMoves
<1> QED BY <1>2, <1>3, <1>4 DEF Handled, Earned, Passes

LEMMA EndReviewHandled ==
  ASSUME FreezeInv, NEW r \in Requests, req[r].rv \in {"cache", "classify", "save"}, UNCHANGED sent,
         NEW outcome, NEW verdict, NEW batches, VerdictOf(P(r), verdict),
         EndReview(r, outcome, verdict, batches)
  PROVE  Handled(r)
<1>1. Shape /\ ReqOK(r, req[r]) /\ DOMAIN req[r] = Fields
  BY DEF FreezeInv, ReqsOK, Shape
<1>2. req[r].mode \in {"sync", "async"} /\ req[r].pc \notin Early
  BY <1>1 DEF ReqOK
<1> DEFINE w == Ended(r, outcome, verdict, batches)
<1>3. /\ w.pc = req[r].pc /\ w.policy = req[r].policy /\ w.owed = req[r].owed
      /\ w.answer = req[r].answer /\ w.cause = req[r].cause
      /\ w.mode = req[r].mode /\ w.rv = req[r].rv /\ w.save = {}
      /\ w.verdict = verdict /\ w.kept = req[r].kept
      /\ w.passed = req[r].passed /\ w.freeze = req[r].freeze /\ w.failed = req[r].failed
      /\ DOMAIN w = Fields
  BY <1>1 DEF Ended, Fields, Unsent
<1>4. PICK left \in {Left(r), req[r].mode = "sync"} :
        \/ /\ Freezes(r, verdict, left)
           /\ req' = [req EXCEPT ![r] = [w EXCEPT !.rv = "freeze", !.freeze = FreezeKeys(r)]]
        \/ req' = [req EXCEPT ![r] =
                     [w EXCEPT !.rv = "done", !.pc = "done",
                               !.answer = IF left THEN "none" ELSE AnswerTo(r, verdict),
                               !.cause = IF ~left /\ AnswerTo(r, verdict) = "refused"
                                           THEN Verdict ELSE @]]
  BY Zenon DEF EndReview, Ended
<1>l. left => req[r].mode = "sync"
  BY Zenon DEF Left
<1> HIDE DEF w
<1>5. CASE /\ Freezes(r, verdict, left)
           /\ req' = [req EXCEPT ![r] = [w EXCEPT !.rv = "freeze", !.freeze = FreezeKeys(r)]]
  <2> DEFINE u == [w EXCEPT !.rv = "freeze", !.freeze = FreezeKeys(r)]
  <2>1. /\ u.pc = req[r].pc /\ u.policy = req[r].policy /\ u.owed = req[r].owed
        /\ u.answer = req[r].answer
        /\ u.mode = req[r].mode /\ u.rv = "freeze" /\ u.save = {}
        /\ u.verdict = verdict /\ u.kept = req[r].kept
        /\ u.passed = req[r].passed /\ u.freeze = FreezeKeys(r) /\ u.failed = req[r].failed
        /\ DOMAIN u = Fields
    BY <1>3 DEF Fields, Unsent
  <2>2. req' = [req EXCEPT ![r] = u]
    BY <1>5
  <2> HIDE DEF u
  <2>3. FreezeTTL(P(r), verdict) > 0 /\ FreezeKeys(r) \in Seq(OwnKeys(r))
    BY <1>5, FreezeKeysAre DEF Freezes
  <2>4. ReqOK(r, u) /\ Lasts(req[r], u) /\ u.pc # "history" /\ u.answer # "refused"
    BY <1>1, <1>2, <2>1, <2>3 DEF ReqOK, Lasts, Early, P
  <2>5. Moves(r) /\ req'[r] = u
    BY <1>1, <2>1, <2>2, <2>4, RecordMoves
  <2> QED BY <2>1, <2>4, <2>5 DEF Handled, Earned, Passes
<1> DEFINE answer == IF left THEN "none" ELSE AnswerTo(r, verdict)
           cause == IF ~left /\ AnswerTo(r, verdict) = "refused" THEN Verdict ELSE req[r].cause
<1>6. CASE req' = [req EXCEPT ![r] = [w EXCEPT !.rv = "done", !.pc = "done",
                               !.answer = IF left THEN "none" ELSE AnswerTo(r, verdict),
                               !.cause = IF ~left /\ AnswerTo(r, verdict) = "refused"
                                           THEN Verdict ELSE @]]
           /\ (left => req[r].mode = "sync")
  <2> DEFINE u == [w EXCEPT !.rv = "done", !.pc = "done", !.answer = answer, !.cause = cause]
  <2>1. req' = [req EXCEPT ![r] = u]
    BY <1>3, <1>6
  <2>2. /\ answer \in {"none", "forwarded", "refused"}
        /\ answer = "refused" => cause = Verdict /\ verdict.action = "block"
        /\ req[r].mode = "async" => answer = "forwarded"
    BY <1>1, <1>2, <1>6 DEF AnswerTo, ReqOK
  <2> HIDE DEF answer, cause
  <2>3. /\ u.pc = "done" /\ u.policy = req[r].policy /\ u.owed = req[r].owed
        /\ u.answer = answer /\ u.cause = cause
        /\ u.mode = req[r].mode /\ u.rv = "done" /\ u.save = {}
        /\ u.verdict = verdict /\ u.kept = req[r].kept
        /\ u.passed = req[r].passed /\ u.freeze = req[r].freeze /\ u.failed = req[r].failed
        /\ DOMAIN u = Fields
    BY <1>3 DEF Fields, Unsent
  <2> HIDE DEF u
  <2>4. ReqOK(r, u) /\ Lasts(req[r], u)
    BY <1>1, <1>2, <2>2, <2>3 DEF ReqOK, Lasts, Early, P
  <2>5. Moves(r) /\ req'[r] = u
    BY <1>1, <2>1, <2>3, <2>4, RecordMoves
  <2> QED BY <2>2, <2>3, <2>5 DEF Handled, Earned, Passes
<1> QED BY <1>4, <1>5, <1>6, <1>l

\* Handlers and reviews, all but the freeze.
LEMMA HandlerHandled ==
  ASSUME FreezeInv, NEW r \in Requests, Bypass(r) \/ Malformed(r) \/ Admit(r) \/ Handle(r)
  PROVE  Handled(r) /\ UNCHANGED <<blocks, now>> /\ policy' = policy
<1>1. UNCHANGED <<blocks, now, policy>>
  BY DEF Bypass, Malformed, Admit, Handle, LookupFail, LookExplicit, LookScope, LookHistory,
         Skip, StartAsync, Busy, StartSync
<1>2. CASE Skip(r) \/ Busy(r)
  BY <1>2, ForwardHandled DEF Skip, Busy, Dispatching, At
<1> QED BY <1>1, <1>2, AdmissionHandled, LookupFailHandled, LookExplicitHandled, LookScopeHandled,
           LookHistoryHandled, StartHandled DEF Handle

LEMMA CacheMissHandled ==
  ASSUME FreezeInv, NEW r \in Requests, CacheMiss(r)
  PROVE  Handled(r)
<1>1. /\ req[r].rv = "cache" /\ UNCHANGED sent /\ DOMAIN req[r] = Fields /\ DOMAIN req = Requests
      /\ ReqOK(r, req[r])
  BY DEF CacheMiss, Reviewing, FreezeInv, Shape, ReqsOK
<1>2. PICK save \in {FactKeys(r), req[r].save} :
        req' = [req EXCEPT ![r].rv = "classify", ![r].save = save]
  <2>1. CASE req' = [req EXCEPT ![r].rv = "classify", ![r].save = FactKeys(r)]
    BY <2>1
  <2>2. CASE req' = [req EXCEPT ![r].rv = "classify"]
    <3>1. req' = [req EXCEPT ![r].rv = "classify", ![r].save = req[r].save]
      BY <1>1, <2>2 DEF Fields, Unsent
    <3> QED BY <3>1
  <2> QED BY <2>1, <2>2 DEF CacheMiss
<1>3. save \subseteq KeysUnder(P(r), r) /\ VerdictOf(P(r), req[r].verdict)
  BY <1>1 DEF ReqOK, FactKeys, ConditionsOf, KeysUnder, P
<1>4. Continues(r, "classify", save, req[r].verdict)
  <2>1. req' = [req EXCEPT ![r].rv = "classify", ![r].save = save, ![r].scores = req[r].scores,
                           ![r].verdict = req[r].verdict]
    BY <1>1, <1>2 DEF Fields, Unsent
  <2> QED BY <2>1 DEF Continues
<1> QED BY <1>1, <1>3, <1>4, ReviewMoves

LEMMA DecideVerdict ==
  ASSUME FreezeInv, NEW r \in Requests, NEW facts
  PROVE  VerdictOf(P(r), Decide(r, facts))
<1>1. P(r) \in PolicySet \cup {Unsent.policy}
  BY DEF FreezeInv, ReqsOK, ReqOK, P
<1> QED BY <1>1, EvaluateVerdict DEF Decide

LEMMA ClassifyHandled ==
  ASSUME FreezeInv, NEW r \in Requests, Classify(r)
  PROVE  Handled(r)
<1>1. /\ req[r].rv = "classify" /\ UNCHANGED sent /\ DOMAIN req[r] = Fields /\ DOMAIN req = Requests
      /\ ReqOK(r, req[r])
  BY DEF Classify, Reviewing, FreezeInv, Shape, ReqsOK
<1>2. PICK scores, verdict :
        /\ verdict = Decide(r, Facts(ConditionsOf(r), scores))
        /\ \/ EndReview(r, HitOutcome(verdict), verdict, {r})
           \/ req' = [req EXCEPT ![r].rv = "save", ![r].scores = scores, ![r].verdict = verdict]
  BY DEF Classify
<1>3. VerdictOf(P(r), verdict)
  BY <1>2, DecideVerdict
<1>4. CASE EndReview(r, HitOutcome(verdict), verdict, {r})
  BY <1>1, <1>3, <1>4, EndReviewHandled
<1>5. CASE req' = [req EXCEPT ![r].rv = "save", ![r].scores = scores, ![r].verdict = verdict]
  <2>1. req[r].save \subseteq KeysUnder(P(r), r)
    BY <1>1 DEF ReqOK, P
  <2>2. req' = [req EXCEPT ![r].rv = "save", ![r].save = req[r].save, ![r].scores = scores,
                           ![r].verdict = verdict]
    BY <1>1, <1>5 DEF Fields, Unsent
  <2>3. Continues(r, "save", req[r].save, verdict)
    BY <2>2 DEF Continues
  <2> QED BY <1>1, <1>3, <2>1, <2>3, ReviewMoves
<1> QED BY <1>2, <1>4, <1>5

LEMMA SaveFactHandled ==
  ASSUME FreezeInv, NEW r \in Requests, SaveFact(r)
  PROVE  Handled(r)
<1>1. /\ req[r].rv = "save" /\ UNCHANGED sent /\ DOMAIN req[r] = Fields /\ DOMAIN req = Requests
      /\ ReqOK(r, req[r])
  BY DEF SaveFact, Reviewing, FreezeInv, Shape, ReqsOK
<1>2. VerdictOf(P(r), req[r].verdict) /\ req[r].save \subseteq KeysUnder(P(r), r)
  BY <1>1 DEF ReqOK, P
<1>3. PICK k : \/ EndReview(r, HitOutcome(req[r].verdict), req[r].verdict, {r})
               \/ req' = [req EXCEPT ![r].save = @ \ {k}]
  BY DEF SaveFact
<1>4. CASE EndReview(r, HitOutcome(req[r].verdict), req[r].verdict, {r})
  BY <1>1, <1>2, <1>4, EndReviewHandled
<1>5. CASE req' = [req EXCEPT ![r].save = @ \ {k}]
  <2> DEFINE save == req[r].save \ {k}
  <2>1. req' = [req EXCEPT ![r].rv = "save", ![r].save = save, ![r].scores = req[r].scores,
                           ![r].verdict = req[r].verdict]
    BY <1>1, <1>5 DEF Fields, Unsent
  <2>2. save \subseteq KeysUnder(P(r), r)
    BY <1>2
  <2> HIDE DEF save
  <2>3. Continues(r, "save", save, req[r].verdict)
    BY <2>1 DEF Continues
  <2> QED BY <1>1, <1>2, <2>2, <2>3, ReviewMoves
<1> QED BY <1>3, <1>4, <1>5

LEMMA ReviewHandled ==
  ASSUME FreezeInv, NEW r \in Requests,
         \/ TooLong(r) \/ CacheHit(r) \/ CacheMiss(r) \/ Classify(r) \/ ClassifyFail(r)
         \/ SaveFact(r) \/ SaveFail(r)
  PROVE  Handled(r) /\ UNCHANGED <<blocks, now>> /\ policy' = policy
<1>1. UNCHANGED <<blocks, now, policy, sent>>
  BY DEF TooLong, CacheHit, CacheMiss, Classify, ClassifyFail, SaveFact, SaveFail
<1>2. ASSUME TooLong(r) \/ ClassifyFail(r) PROVE Handled(r)
  <2>1. req[r].rv \in {"cache", "classify", "save"}
    BY <1>2 DEF TooLong, ClassifyFail, Reviewing
  <2>2. \E outcome : EndReview(r, outcome, NoMatch, {})
    BY <1>2 DEF TooLong, ClassifyFail
  <2> QED BY <1>1, <2>1, <2>2, NoMatchIsVerdict, EndReviewHandled
<1>3. ASSUME CacheHit(r) PROVE Handled(r)
  <2>1. req[r].rv \in {"cache", "classify", "save"}
    BY <1>3 DEF CacheHit, Reviewing
  <2>2. PICK verdict, batches :
          /\ verdict = Decide(r, [k \in FactKeys(r) |-> Entry(r, k).fact])
          /\ EndReview(r, HitOutcome(verdict), verdict, batches)
    BY <1>3 DEF CacheHit
  <2>3. VerdictOf(P(r), verdict)
    BY <2>2, DecideVerdict
  <2> QED BY <1>1, <2>1, <2>2, <2>3, EndReviewHandled
<1>4. ASSUME SaveFail(r) PROVE Handled(r)
  <2>1. req[r].rv \in {"cache", "classify", "save"}
        /\ EndReview(r, HitOutcome(req[r].verdict), req[r].verdict, {r})
    BY <1>4 DEF SaveFail, Reviewing
  <2>2. VerdictOf(P(r), req[r].verdict)
    BY DEF FreezeInv, ReqsOK, ReqOK, P
  <2> QED BY <1>1, <2>1, <2>2, EndReviewHandled
<1> QED BY <1>1, <1>2, <1>3, <1>4, CacheMissHandled, ClassifyHandled, SaveFactHandled

-----------------------------------------------------------------------------
(***************************************************************************)
(* A step of a request that writes no freeze keeps the invariant.          *)
(***************************************************************************)

LEMMA KeysStay ==
  ASSUME UNCHANGED sent
  PROVE  /\ BlockKeys' = BlockKeys
         /\ \A q \in Requests : /\ Explicit(q)' = Explicit(q) /\ Scope(q)' = Scope(q)
                                /\ Exact(q)' = Exact(q) /\ PreLatest(q)' = PreLatest(q)
                                /\ OwnKeys(q)' = OwnKeys(q) /\ Length(q)' = Length(q)
                                /\ LookupTruncated(q)' = LookupTruncated(q)
         /\ \A q \in Requests, n \in Int : Prefix(q, n)' = Prefix(q, n)
         /\ \A q, r \in Requests : Covers(q, r)' <=> Covers(q, r)
  BY DEF BlockKeys, Explicit, Scope, Exact, PreLatest, OwnKeys, Length, LookupTruncated, Prefix, Covers

LEMMA MovesFrame ==
  ASSUME FreezeInv, NEW r \in Requests, Moves(r)
  PROVE  /\ Shape' /\ SentOK' /\ ReqsOK'
         /\ \A q \in Requests : /\ Froze(q) => Froze(q)'
                                /\ FrozeAll(q) => FrozeAll(q)'
                                /\ req[q].kept > 0 => req'[q].kept = req[q].kept
<1>1. Shape' /\ SentOK' /\ UNCHANGED sent
  BY DEF Moves, FreezeInv, SentOK
<1>2. ASSUME NEW q \in Requests PROVE ReqOK(q, req'[q])
  BY <1>2 DEF Moves, FreezeInv, ReqsOK
<1>3. ReqsOK'
  <2>1. ASSUME NEW q \in Requests PROVE ReqOK(q, req[q])'
    <3>1. OwnKeys(q)' = OwnKeys(q)
      BY <1>1, KeysStay
    <3>3. ReqOK(q, req'[q])
      BY <1>2
    <3> QED BY <1>1, <3>1, <3>3 DEF ReqOK, PolicySet, KeysUnder
  <2> QED BY <2>1 DEF ReqsOK
<1>4. ASSUME NEW q \in Requests PROVE Lasts(req[q], req'[q])
  BY <1>4 DEF Moves, Lasts
<1>5. ASSUME NEW q \in Requests
      PROVE  /\ Froze(q) => Froze(q)'
             /\ FrozeAll(q) => FrozeAll(q)'
             /\ req[q].kept > 0 => req'[q].kept = req[q].kept
  <2>1. req[q].kept > 0 => req[q].rv = "done"
    BY DEF FreezeInv, ReqsOK, ReqOK
  <2>2. Lasts(req[q], req'[q])
    BY <1>4
  <2> QED BY <2>1, <2>2 DEF Lasts, Froze, FrozeAll, TTL, P
<1> QED BY <1>1, <1>3, <1>5

LEMMA CausePrimed ==
  ASSUME FreezeInv, NEW r \in Requests, Moves(r), NEW p \in Requests, CauseFounded(p, req'[p].cause)
  PROVE  CauseFounded(p, req[p].cause)'
<1>1. UNCHANGED sent
  BY DEF Moves
<1>2. \A q \in Requests : (Froze(q) => Froze(q)') /\ (FrozeAll(q) => FrozeAll(q)')
  BY MovesFrame
<1>3. {Prefix(p, n) : n \in 1..Length(p)}' = {Prefix(p, n) : n \in 1..Length(p)}
  BY <1>1 DEF Prefix, Length
<1> QED BY <1>1, <1>2, <1>3, KeysStay DEF CauseFounded

LEMMA KeyFoundedStays ==
  ASSUME FreezeInv, NEW r \in Requests, Moves(r), NEW k, KeyFounded(k)
  PROVE  KeyFounded(k)'
<1>1. UNCHANGED sent
  BY DEF Moves
<1>2. \A q \in Requests : (Froze(q) => Froze(q)') /\ (FrozeAll(q) => FrozeAll(q)')
  BY MovesFrame
<1> QED BY <1>1, <1>2, KeysStay DEF KeyFounded

\* A step without effect on the freezes founds nothing new.
LEMMA HandledEarned ==
  ASSUME FreezeInv, NEW r \in Requests, Handled(r), UNCHANGED <<blocks, now>>
  PROVE  EarnedInv'
<1>1. Moves(r) /\ Earned(r) /\ EarnedInv /\ SentOK /\ UNCHANGED sent
  BY DEF Handled, FreezeInv, Moves
<1>2. Founded'
  <2>1. ASSUME NEW k \in BlockKeys, blocks[k] # 0 PROVE KeyFounded(k)'
    BY <1>1, <2>1, KeyFoundedStays DEF EarnedInv, Founded
  <2> QED BY <1>1, <2>1, KeysStay DEF Founded
<1>3. HistoryFounded'
  <2>1. ASSUME NEW p \in Requests, req'[p].pc = "history"
        PROVE  Scope(p) # NoKey /\ \E q \in Requests : FrozeAll(q) /\ Scope(q) = Scope(p)
    <3>1. CASE p = r
      <4>1. Scope(r) # NoKey /\ Live(Scope(r))
        BY <1>1, <2>1, <3>1 DEF Earned
      <4>2. Scope(r) \in BlockKeys /\ Scope(r)[1] = "scope"
        BY <1>1, <4>1, OwnKeyFacts, SessionKey
      <4>3. KeyFounded(Scope(r))
        BY <4>1, <4>2, LiveIsFounded
      <4> QED BY <3>1, <4>1, <4>2, <4>3 DEF KeyFounded
    <3>2. CASE p # r
      BY <1>1, <2>1, <3>2 DEF Moves, EarnedInv, HistoryFounded
    <3> QED BY <3>1, <3>2
  <2>2. \A q \in Requests : FrozeAll(q) => FrozeAll(q)'
    BY <1>1, MovesFrame
  <2> QED BY <1>1, <2>1, <2>2, KeysStay DEF HistoryFounded
<1>4. RefusalFounded'
  <2>1. ASSUME NEW p \in Requests, req'[p].answer = "refused"
        PROVE  \/ req'[p].cause = Verdict /\ req'[p].verdict.action = "block"
               \/ CauseFounded(p, req'[p].cause)
    <3>1. CASE p = r
      BY <1>1, <2>1, <3>1 DEF Earned
    <3>2. CASE p # r
      BY <1>1, <2>1, <3>2 DEF Moves, EarnedInv, RefusalFounded
    <3> QED BY <3>1, <3>2
  <2>2. ASSUME NEW p \in Requests, CauseFounded(p, req'[p].cause) PROVE CauseFounded(p, req[p].cause)'
    BY <1>1, <2>2, CausePrimed
  <2> QED BY <2>1, <2>2 DEF RefusalFounded
<1> QED BY <1>2, <1>3, <1>4 DEF EarnedInv

LEMMA PassesOwed ==
  ASSUME FreezeInv, NEW r \in Requests, Moves(r), Passes(r), now' = now
  PROVE  OwedPromised' /\ FrozenIsRefused'
<1>1. ReqsOK /\ OwedPromised /\ FrozenIsRefused /\ ReqOK(r, req[r])
  BY DEF FreezeInv, OwedInv, ReqsOK
<1>2. UNCHANGED sent /\ \A q \in Requests \ {r} : req'[q] = req[q]
  BY DEF Moves
<1>3. ASSUME NEW p \in Requests, req'[p].owed > 0
      PROVE  \E q \in Requests : Covers(q, p) /\ req'[q].kept = req'[p].owed
  <2>1. \E q \in Requests : Covers(q, p) /\ req[q].kept = req'[p].owed
    <3>1. CASE p = r
      BY <1>1, <1>3, <3>1, PromisedIs DEF Passes, OwedPromised
    <3>2. CASE p # r
      BY <1>1, <1>2, <1>3, <3>2 DEF OwedPromised
    <3> QED BY <3>1, <3>2
  <2> QED BY <1>2, <2>1 DEF Passes
<1>4. OwedPromised'
  BY <1>2, <1>3, KeysStay DEF OwedPromised
<1>5. ASSUME NEW p \in Requests, req'[p].passed # NotYet PROVE req'[p].owed <= req'[p].passed
  <2>1. CASE p = r
    BY <1>1, <1>5, <2>1 DEF Passes, FrozenIsRefused
  <2>2. CASE p # r
    BY <1>1, <1>2, <1>5, <2>2 DEF FrozenIsRefused
  <2> QED BY <2>1, <2>2
<1> QED BY <1>4, <1>5 DEF FrozenIsRefused

LEMMA HandledOwed ==
  ASSUME FreezeInv, NEW r \in Requests, Handled(r), UNCHANGED <<blocks, now>>
  PROVE  OwedInv'
<1>1. Moves(r) /\ Passes(r) /\ KeptLives /\ UNCHANGED sent
  BY DEF Handled, FreezeInv, Moves, OwedInv
<1>2. \A q \in Requests : req'[q].kept = req[q].kept
  BY <1>1 DEF Moves, Passes
<1>3. KeptLives'
  BY <1>1, <1>2, KeysStay DEF KeptLives
<1> QED BY <1>1, <1>3, PassesOwed DEF OwedInv

LEMMA HandledKeeps ==
  ASSUME FreezeInv, NEW r \in Requests, Handled(r), UNCHANGED <<blocks, now>>, policy' \in PolicySet
  PROVE  FreezeInv'
<1>1. Moves(r) /\ UNCHANGED sent
  BY DEF Handled, Moves
<1>2. Shape' /\ SentOK' /\ ReqsOK'
  BY <1>1, MovesFrame
<1>3. BlocksTyped'
  BY <1>1, KeysStay DEF FreezeInv, BlocksTyped
<1>4. EarnedInv' /\ OwedInv'
  BY HandledEarned, HandledOwed
<1> QED BY <1>2, <1>3, <1>4 DEF FreezeInv, PolicySet

\* A client that leaves changes nothing but that.
LEMMA DisconnectKeeps ==
  ASSUME FreezeInv, NEW r \in Requests, Disconnect(r)
  PROVE  FreezeInv'
<1>1. /\ Moves(r) /\ req'[r].pc = req[r].pc /\ req'[r].answer = req[r].answer
      /\ req'[r].cause = req[r].cause /\ req'[r].verdict = req[r].verdict
      /\ req'[r].kept = req[r].kept /\ req'[r].owed = req[r].owed
      /\ req'[r].passed = req[r].passed
      /\ UNCHANGED <<blocks, now, policy, sent>>
  <2>1. UNCHANGED <<blocks, now, policy, sent>>
    BY DEF Disconnect
  <2> QED BY <2>1, DisconnectHandled
<1>2. Passes(r)
  BY <1>1 DEF Passes
<1>3. \A q \in Requests : /\ req'[q].pc = req[q].pc /\ req'[q].answer = req[q].answer
                          /\ req'[q].cause = req[q].cause /\ req'[q].verdict = req[q].verdict
                          /\ req'[q].kept = req[q].kept
  BY <1>1 DEF Moves
<1>4. /\ \A k : KeyFounded(k) => KeyFounded(k)'
      /\ \A q \in Requests : FrozeAll(q) => FrozeAll(q)'
  BY <1>1, KeyFoundedStays, MovesFrame
<1>5. Founded' /\ HistoryFounded'
  BY <1>1, <1>3, <1>4, KeysStay DEF FreezeInv, EarnedInv, Founded, HistoryFounded
<1>6. RefusalFounded'
  <2>1. ASSUME NEW p \in Requests, req'[p].answer = "refused"
        PROVE  \/ req'[p].cause = Verdict /\ req'[p].verdict.action = "block"
               \/ CauseFounded(p, req'[p].cause)
    BY <1>3, <2>1 DEF FreezeInv, EarnedInv, RefusalFounded
  <2>2. ASSUME NEW p \in Requests, CauseFounded(p, req'[p].cause) PROVE CauseFounded(p, req[p].cause)'
    BY <1>1, <2>2, CausePrimed
  <2> QED BY <2>1, <2>2 DEF RefusalFounded
<1>7. KeptLives'
  BY <1>1, <1>3, KeysStay DEF FreezeInv, OwedInv, KeptLives
<1>8. OwedPromised' /\ FrozenIsRefused'
  BY <1>1, <1>2, PassesOwed
<1>9. Shape' /\ SentOK' /\ ReqsOK'
  BY <1>1, MovesFrame
<1>10. BlocksTyped'
  BY <1>1, KeysStay DEF FreezeInv, BlocksTyped
<1> QED BY <1>1, <1>5, <1>6, <1>7, <1>8, <1>9, <1>10 DEF FreezeInv, EarnedInv, OwedInv, PolicySet
-----------------------------------------------------------------------------
(***************************************************************************)
(* The freeze.                                                             *)
(***************************************************************************)

\* Who freezes has rejected, and freezes for some time.
LEMMA FreezingFroze ==
  ASSUME FreezeInv, NEW r \in Requests, req[r].rv = "freeze"
  PROVE  Froze(r) /\ TTL(r) \in Nat
<1> DEFINE p == req[r].policy
           v == req[r].verdict
<1>1. TTL(r) = FreezeTTL(p, v) /\ FreezeTTL(p, v) > 0
  BY DEF FreezeInv, ReqsOK, ReqOK, TTL, P
<1>2. p \in PolicySet \cup {Unsent.policy} /\ VerdictOf(p, v)
  BY DEF FreezeInv, ReqsOK, ReqOK
<1> HIDE DEF p, v
<1>3. v.action = "block"
  BY <1>1 DEF FreezeTTL
<1>4. v.scene \in DOMAIN p.scenes
  BY <1>2, <1>3 DEF VerdictOf
<1>5. p \in PolicySet
  BY <1>2, <1>4 DEF Unsent
<1>6. ValidScene(p.scenes[v.scene])
  BY <1>4, <1>5, GatewayAssumption DEF PolicySet, Validate
<1>7. FreezeTTL(p, v) = 0 \/ (p.scenes[v.scene].freeze /\ FreezeTTL(p, v) = p.scenes[v.scene].ttl)
  BY <1>3 DEF FreezeTTL
<1>8. FreezeTTL(p, v) \in Nat
  <2> DEFINE s == p.scenes[v.scene]
  <2>1. ValidScene(s) /\ (FreezeTTL(p, v) = 0 \/ (s.freeze /\ FreezeTTL(p, v) = s.ttl))
    BY <1>6, <1>7
  <2> HIDE DEF s
  <2>2. s.freeze => s.ttl \in Nat
    BY <2>1, Zenon DEF ValidScene
  <2> QED BY <2>1, <2>2
<1> QED BY <1>1, <1>3, <1>8 DEF Froze, v

\* r goes on freezing, or has written all it will.
LEMMA FreezeMoves ==
  ASSUME FreezeInv, NEW r \in Requests, req[r].rv = "freeze", UNCHANGED sent,
         NEW u, req' = [req EXCEPT ![r] = u], DOMAIN u = Fields,
         u.policy = req[r].policy, u.verdict = req[r].verdict, u.mode = req[r].mode,
         u.save = req[r].save, u.owed = req[r].owed, u.passed = req[r].passed,
         \/ /\ u.rv = "freeze" /\ u.pc = req[r].pc /\ u.answer = req[r].answer
            /\ u.cause = req[r].cause /\ u.kept = req[r].kept
         \/ /\ u.rv = "done" /\ u.pc = "done"
            /\ u.answer = AnswerTo(r, req[r].verdict) /\ u.kept \in Nat
            /\ u.answer = "refused" => u.cause = Verdict,
         u.freeze \in Seq(OwnKeys(r))
  PROVE  /\ Moves(r) /\ req'[r] = u
         /\ Froze(r)'
         /\ Earned(r)
         /\ \A q \in Requests \ {r} : req'[q] = req[q]
         /\ req[r].kept = 0
<1>1. Shape /\ ReqOK(r, req[r])
  BY DEF FreezeInv, ReqsOK
<1>2. Froze(r)
  BY FreezingFroze
<1>3. req[r].pc \notin Early /\ req[r].mode \in {"sync", "async"} /\ req[r].kept = 0
  BY <1>1 DEF ReqOK
<1>4. AnswerTo(r, req[r].verdict) \in {"none", "forwarded", "refused", "error"}
      /\ (req[r].mode = "async" => AnswerTo(r, req[r].verdict) = "forwarded")
  BY <1>1 DEF AnswerTo, ReqOK
<1>5. ReqOK(r, u) /\ Lasts(req[r], u)
  BY <1>1, <1>3, <1>4 DEF ReqOK, Lasts, Early
<1>6. Moves(r) /\ req'[r] = u
  BY <1>1, <1>5, RecordMoves
<1>7. Froze(r)'
  BY <1>2, <1>6, MovesFrame
<1>8. Earned(r)
  <2>1. req'[r].pc # "history"
    BY <1>3, <1>6 DEF Early
  <2>2. req'[r].answer = "refused" => req'[r].cause = Verdict /\ req'[r].verdict.action = "block"
    <3>1. req[r].answer # "refused"
      BY <1>1, <1>3 DEF ReqOK
    <3> QED BY <1>2, <1>6, <3>1 DEF Froze
  <2> QED BY <2>1, <2>2 DEF Earned
<1> QED BY <1>3, <1>6, <1>7, <1>8 DEF Moves

\* What a freeze founds; the rest of the refusals is as before.
LEMMA FreezeEarned ==
  ASSUME FreezeInv, NEW r \in Requests, Moves(r), Earned(r),
         req'[r].pc # "history",
         \A k \in BlockKeys : blocks'[k] = blocks[k] \/ KeyFounded(k)'
  PROVE  EarnedInv'
<1>1. EarnedInv /\ UNCHANGED sent
  BY DEF FreezeInv, Moves
<1>2. Founded'
  <2>1. ASSUME NEW k \in BlockKeys, blocks'[k] # 0 PROVE KeyFounded(k)'
    BY <1>1, <2>1, KeyFoundedStays DEF EarnedInv, Founded
  <2> QED BY <1>1, <2>1, KeysStay DEF Founded
<1>3. HistoryFounded'
  <2>1. \A q \in Requests : FrozeAll(q) => FrozeAll(q)'
    BY MovesFrame
  <2> QED BY <1>1, <2>1, KeysStay DEF Moves, EarnedInv, HistoryFounded
<1>4. RefusalFounded'
  <2>1. ASSUME NEW p \in Requests, req'[p].answer = "refused"
        PROVE  \/ req'[p].cause = Verdict /\ req'[p].verdict.action = "block"
               \/ CauseFounded(p, req'[p].cause)
    <3>1. CASE p = r
      BY <2>1, <3>1 DEF Earned
    <3>2. CASE p # r
      BY <1>1, <2>1, <3>2 DEF Moves, EarnedInv, RefusalFounded
    <3> QED BY <3>1, <3>2
  <2>2. ASSUME NEW p \in Requests, CauseFounded(p, req'[p].cause) PROVE CauseFounded(p, req[p].cause)'
    BY <2>2, CausePrimed
  <2> QED BY <2>1, <2>2 DEF RefusalFounded
<1> QED BY <1>2, <1>3, <1>4 DEF EarnedInv

LEMMA FreezeKeySteps ==
  ASSUME FreezeInv, NEW r \in Requests, FreezeKey(r)
  PROVE  /\ req[r].rv = "freeze" /\ UNCHANGED <<sent, policy, now>>
         /\ Head(req[r].freeze) \in OwnKeys(r) /\ Tail(req[r].freeze) \in Seq(OwnKeys(r))
         /\ Head(req[r].freeze) \in BlockKeys /\ Head(req[r].freeze)[1] # "scope"
         /\ \/ PutExact(Head(req[r].freeze), now + TTL(r))
            \/ UNCHANGED blocks
         /\ \E failed : req' = [req EXCEPT ![r].freeze = Tail(req[r].freeze), ![r].failed = failed]
<1>1. req[r].rv = "freeze" /\ UNCHANGED <<sent, policy, now>> /\ req[r].freeze # <<>>
  BY DEF FreezeKey, Reviewing
<1>2. req[r].freeze \in Seq(OwnKeys(r)) /\ SentOK /\ Shape
  BY DEF FreezeInv, ReqsOK, ReqOK
<1>3. Head(req[r].freeze) \in OwnKeys(r) /\ Tail(req[r].freeze) \in Seq(OwnKeys(r))
  <2> DEFINE s == req[r].freeze
             S == OwnKeys(r)
  <2>1. s \in Seq(S) /\ s # <<>>
    BY <1>1, <1>2
  <2> HIDE DEF s, S
  <2>2. Head(s) \in S /\ Tail(s) \in Seq(S)
    BY <2>1
  <2> QED BY <2>2 DEF s, S
<1>4. Head(req[r].freeze) \in BlockKeys /\ Head(req[r].freeze)[1] # "scope"
  <2> DEFINE k == Head(req[r].freeze)
  <2>1. k \in OwnKeys(r)
    BY <1>3
  <2> HIDE DEF k
  <2>2. k \in BlockKeys /\ k[1] # "scope"
    BY <1>2, <2>1, OwnKeyFacts
  <2> QED BY <2>2 DEF k
<1>5. \/ PutExact(Head(req[r].freeze), now + TTL(r))
      \/ UNCHANGED blocks
  BY DEF FreezeKey
<1>6. \E failed : req' = [req EXCEPT ![r].freeze = Tail(req[r].freeze), ![r].failed = failed]
  <2>1. CASE req' = [req EXCEPT ![r].freeze = Tail(req[r].freeze)]
    <3>1. req' = [req EXCEPT ![r].freeze = Tail(req[r].freeze), ![r].failed = req[r].failed]
      BY <1>2, <2>1 DEF Shape, Fields, Unsent
    <3> QED BY <3>1
  <2>2. CASE req' = [req EXCEPT ![r].freeze = Tail(req[r].freeze), ![r].failed = TRUE]
    BY <2>2
  <2> QED BY <2>1, <2>2 DEF FreezeKey
<1> QED BY <1>1, <1>3, <1>4, <1>5, <1>6

LEMMA FreezeKeyKeeps ==
  ASSUME FreezeInv, NEW r \in Requests, FreezeKey(r)
  PROVE  FreezeInv'
<1>1. PICK k0, rest :
      /\ req[r].rv = "freeze" /\ UNCHANGED <<sent, policy, now>>
      /\ k0 \in OwnKeys(r) /\ rest \in Seq(OwnKeys(r))
      /\ k0 \in BlockKeys /\ k0[1] # "scope"
      /\ PutExact(k0, now + TTL(r)) \/ UNCHANGED blocks
      /\ \E failed : req' = [req EXCEPT ![r].freeze = rest, ![r].failed = failed]
  <2> DEFINE h == Head(req[r].freeze)
             s == Tail(req[r].freeze)
  <2>1. /\ req[r].rv = "freeze" /\ UNCHANGED <<sent, policy, now>>
        /\ h \in OwnKeys(r) /\ s \in Seq(OwnKeys(r))
        /\ h \in BlockKeys /\ h[1] # "scope"
        /\ PutExact(h, now + TTL(r)) \/ UNCHANGED blocks
        /\ \E failed : req' = [req EXCEPT ![r].freeze = s, ![r].failed = failed]
    BY FreezeKeySteps
  <2> HIDE DEF h, s
  <2> QED BY <2>1
<1>2. PICK failed : req' = [req EXCEPT ![r].freeze = rest, ![r].failed = failed]
  BY <1>1
<1> DEFINE u == [req[r] EXCEPT !.freeze = rest, !.failed = failed]
<1>3. Shape /\ req' = [req EXCEPT ![r] = u] /\ DOMAIN u = Fields
  BY <1>2 DEF FreezeInv, Shape
<1>4. /\ u.pc = req[r].pc /\ u.policy = req[r].policy /\ u.owed = req[r].owed
      /\ u.answer = req[r].answer /\ u.cause = req[r].cause
      /\ u.mode = req[r].mode /\ u.rv = req[r].rv /\ u.save = req[r].save
      /\ u.verdict = req[r].verdict /\ u.kept = req[r].kept
      /\ u.passed = req[r].passed /\ u.freeze = rest
  BY <1>3 DEF Shape, Fields, Unsent
<1> HIDE DEF u
<1>5. /\ Moves(r) /\ req'[r] = u /\ Froze(r)' /\ Earned(r) /\ req[r].kept = 0
      /\ \A q \in Requests \ {r} : req'[q] = req[q]
  BY <1>1, <1>3, <1>4, FreezeMoves
<1>6. /\ TTL(r) \in Nat /\ now \in Nat /\ BlocksTyped /\ KeptLives /\ ReqsOK /\ SentOK
      /\ policy \in PolicySet
  BY <1>1, FreezingFroze DEF FreezeInv, BlocksTyped, OwedInv
<1>7. /\ DOMAIN blocks' = BlockKeys /\ \A k \in BlockKeys : blocks'[k] \in Nat
      /\ \A k \in BlockKeys : blocks[k] > now => blocks'[k] = blocks[k]
      /\ \A k \in BlockKeys : blocks'[k] = blocks[k] \/ k = k0
  BY <1>1, <1>6 DEF BlocksTyped, PutExact, Live
<1>8. KeyFounded(k0)'
  BY <1>1, <1>5, KeysStay DEF KeyFounded
<1>9. EarnedInv'
  <2>1. req'[r].pc # "history"
    BY <1>1, <1>4, <1>5, <1>6 DEF ReqsOK, ReqOK, Early
  <2> QED BY <1>5, <1>7, <1>8, <2>1, FreezeEarned
<1>10. KeptLives'
  <2>1. \A q \in Requests : req'[q].kept = req[q].kept
    BY <1>4, <1>5
  <2>2. ASSUME NEW q \in Requests, req[q].kept > now,
               NEW k \in {Scope(q), Exact(q), PreLatest(q)} \ {NoKey}
        PROVE  blocks'[k] >= req[q].kept
    <3>1. k \in BlockKeys
      BY <1>6, <2>2, OwnKeyFacts DEF OwnKeys
    <3>2. blocks[k] >= req[q].kept /\ req[q].kept \in Nat /\ blocks[k] \in Nat
      BY <1>6, <2>2, <3>1 DEF KeptLives, ReqsOK, ReqOK, BlocksTyped
    <3>3. blocks[k] > now
      BY <1>6, <2>2, <3>2
    <3> QED BY <1>7, <3>1, <3>2, <3>3
  <2> QED BY <1>1, <1>6, <2>1, <2>2, KeysStay DEF KeptLives
<1>11. OwedPromised' /\ FrozenIsRefused'
  <2>1. Passes(r)
    BY <1>4, <1>5 DEF Passes
  <2> QED BY <1>1, <1>5, <2>1, PassesOwed
<1>12. Shape' /\ SentOK' /\ ReqsOK'
  BY <1>5, MovesFrame
<1>13. BlocksTyped'
  BY <1>1, <1>6, <1>7, KeysStay DEF BlocksTyped
<1> QED BY <1>1, <1>6, <1>9, <1>10, <1>11, <1>12, <1>13 DEF FreezeInv, OwedInv, PolicySet

LEMMA FreezeScopeSteps ==
  ASSUME FreezeInv, NEW r \in Requests, FreezeScope(r)
  PROVE  /\ req[r].rv = "freeze" /\ UNCHANGED <<sent, policy, now>>
         /\ \E kept :
              /\ EndFreeze(r, kept)
              /\ \/ /\ MarksScope(r) /\ PutScope(Scope(r), now + TTL(r))
                    /\ kept = Min({now + TTL(r)} \cup {blocks[k] : k \in OwnKeys(r)})
                 \/ kept = 0 /\ UNCHANGED blocks
  BY FreezeKeysAre DEF FreezeScope, Reviewing

LEMMA FreezeScopeMoves ==
  ASSUME FreezeInv, NEW r \in Requests, req[r].rv = "freeze", UNCHANGED sent,
         NEW kept \in Nat, EndFreeze(r, kept)
  PROVE  /\ Moves(r) /\ Froze(r)' /\ Earned(r) /\ req[r].kept = 0
         /\ \A q \in Requests \ {r} : req'[q] = req[q]
         /\ req'[r].rv = "done" /\ req'[r].pc = "done" /\ req'[r].kept = kept
         /\ req'[r].owed = req[r].owed /\ req'[r].passed = req[r].passed
         /\ req'[r].failed = req[r].failed
<1> DEFINE answer == AnswerTo(r, req[r].verdict)
           cause == IF answer = "refused" THEN Verdict ELSE req[r].cause
           u == [req[r] EXCEPT !.rv = "done", !.pc = "done", !.kept = kept,
                               !.answer = answer, !.cause = cause]
<1>1. Shape /\ req' = [req EXCEPT ![r] = u] /\ DOMAIN u = Fields
  BY DEF FreezeInv, Shape, EndFreeze
<1>2. answer = "refused" => cause = Verdict
  OBVIOUS
<1> HIDE DEF cause
<1>3. /\ u.pc = "done" /\ u.policy = req[r].policy /\ u.owed = req[r].owed
      /\ u.answer = answer /\ u.cause = cause
      /\ u.mode = req[r].mode /\ u.rv = "done" /\ u.save = req[r].save
      /\ u.verdict = req[r].verdict /\ u.kept = kept
      /\ u.passed = req[r].passed /\ u.freeze = req[r].freeze /\ u.failed = req[r].failed
  BY <1>1 DEF Shape, Fields, Unsent
<1> HIDE DEF u
<1>4. u.freeze \in Seq(OwnKeys(r))
  BY <1>3 DEF FreezeInv, ReqsOK, ReqOK
<1>5. /\ Moves(r) /\ req'[r] = u /\ Froze(r)' /\ Earned(r) /\ req[r].kept = 0
      /\ \A q \in Requests \ {r} : req'[q] = req[q]
  BY <1>1, <1>2, <1>3, <1>4, FreezeMoves
<1> QED BY <1>3, <1>5

\* A promise made by r: whatever it wrote lasts as long.
LEMMA KeptIs ==
  ASSUME FreezeInv, NEW r \in Requests, req[r].rv = "freeze",
         NEW kept, kept = Min({now + TTL(r)} \cup {blocks[k] : k \in OwnKeys(r)})
  PROVE  /\ kept \in Nat /\ kept <= now + TTL(r)
         /\ \A k \in OwnKeys(r) : kept <= blocks[k]
<1> DEFINE S == {now + TTL(r)} \cup {blocks[k] : k \in OwnKeys(r)}
<1>1. TTL(r) \in Nat /\ SentOK /\ BlocksTyped /\ now \in Nat
  BY FreezingFroze DEF FreezeInv, BlocksTyped
<1>2. \A k \in OwnKeys(r) : blocks[k] \in Nat
  BY <1>1, OwnKeyFacts DEF BlocksTyped
<1>3. S \in SUBSET Nat /\ S # {} /\ now + TTL(r) \in S /\ \A k \in OwnKeys(r) : blocks[k] \in S
  BY <1>1, <1>2
<1> HIDE DEF S
<1>4. Min(S) \in S /\ \A y \in S : Min(S) <= y
  BY <1>3, MinIs
<1>5. kept = Min(S)
  BY DEF S
<1> QED BY <1>3, <1>4, <1>5

LEMMA FreezeScopeKeeps ==
  ASSUME FreezeInv, NEW r \in Requests, FreezeScope(r)
  PROVE  FreezeInv'
<1>1. PICK kept :
        /\ req[r].rv = "freeze" /\ UNCHANGED <<sent, policy, now>>
        /\ EndFreeze(r, kept)
        /\ \/ /\ MarksScope(r) /\ PutScope(Scope(r), now + TTL(r))
              /\ kept = Min({now + TTL(r)} \cup {blocks[k] : k \in OwnKeys(r)})
           \/ kept = 0 /\ UNCHANGED blocks
  BY FreezeScopeSteps, Zenon
<1>2. /\ TTL(r) \in Nat /\ now \in Nat /\ BlocksTyped /\ KeptLives /\ ReqsOK /\ SentOK
      /\ policy \in PolicySet /\ OwedInv
  BY <1>1, FreezingFroze DEF FreezeInv, BlocksTyped, OwedInv
<1>3. /\ kept \in Nat
      /\ kept > 0 => /\ MarksScope(r) /\ PutScope(Scope(r), now + TTL(r)) /\ kept <= now + TTL(r)
                     /\ \A k \in OwnKeys(r) : kept <= blocks[k]
  BY <1>1, KeptIs
<1>4. /\ Moves(r) /\ Froze(r)' /\ Earned(r) /\ req[r].kept = 0
      /\ \A q \in Requests \ {r} : req'[q] = req[q]
      /\ req'[r].rv = "done" /\ req'[r].pc = "done" /\ req'[r].kept = kept
      /\ req'[r].owed = req[r].owed /\ req'[r].passed = req[r].passed
      /\ req'[r].failed = req[r].failed
  BY <1>1, <1>3, FreezeScopeMoves
<1>5. MarksScope(r) => Scope(r) # NoKey /\ Scope(r) \in BlockKeys /\ Scope(r)[1] = "scope"
  BY <1>2, OwnKeyFacts, SessionKey DEF MarksScope
\* The marker only grows, nothing else changes.
<1>6. /\ DOMAIN blocks' = BlockKeys
      /\ \A k \in BlockKeys : blocks'[k] \in Nat /\ blocks'[k] >= blocks[k]
      /\ \A k \in BlockKeys : blocks'[k] = blocks[k] \/ (MarksScope(r) /\ k = Scope(r))
      /\ kept > 0 => blocks'[Scope(r)] >= kept
  <2>1. CASE MarksScope(r) /\ PutScope(Scope(r), now + TTL(r))
    <3> DEFINE s == Scope(r)
               b == Max({blocks[s], now + TTL(r)})
    <3>1. s \in BlockKeys /\ DOMAIN blocks = BlockKeys /\ \A k \in BlockKeys : blocks[k] \in Nat
      BY <1>2, <1>5, <2>1 DEF BlocksTyped
    <3>2. b \in Nat /\ b >= blocks[s] /\ b >= now + TTL(r)
      BY <1>2, <3>1, MaxOfTwo
    <3>3. blocks' = [blocks EXCEPT ![s] = b]
      BY <2>1 DEF PutScope
    <3> HIDE DEF s, b
    <3>4. /\ DOMAIN blocks' = BlockKeys /\ blocks'[s] = b
          /\ \A k \in BlockKeys \ {s} : blocks'[k] = blocks[k]
      BY <3>1, <3>3
    <3>5. kept > 0 => blocks'[s] >= kept
      BY <1>2, <1>3, <3>2, <3>4
    <3> QED BY <2>1, <3>1, <3>2, <3>4, <3>5 DEF s
  <2>2. CASE UNCHANGED blocks /\ kept = 0
    BY <1>2, <2>2 DEF BlocksTyped
  <2> QED BY <1>1, <2>1, <2>2
<1>7. EarnedInv'
  <2>1. MarksScope(r) => FrozeAll(r)'
    BY <1>4 DEF MarksScope, FrozeAll
  <2>2. ASSUME NEW k \in BlockKeys, blocks'[k] # blocks[k] PROVE KeyFounded(k)'
    <3>1. MarksScope(r) /\ k = Scope(r)
      BY <1>6, <2>2
    <3>2. k[1] = "scope"
      BY <1>5, <3>1
    <3> QED BY <1>1, <2>1, <3>1, <3>2, KeysStay DEF KeyFounded
  <2> QED BY <1>4, <2>2, FreezeEarned
<1>8. KeptLives'
  <2>1. ASSUME NEW q \in Requests, req'[q].kept > 0 PROVE Scope(q) # NoKey
    BY <1>2, <1>3, <1>4, <1>5, <2>1 DEF KeptLives
  <2>2. ASSUME NEW q \in Requests, req'[q].kept > now,
               NEW k \in {Scope(q), Exact(q), PreLatest(q)} \ {NoKey}
        PROVE  blocks'[k] >= req'[q].kept
    <3>1. k \in BlockKeys /\ blocks[k] \in Nat /\ blocks'[k] \in Nat /\ blocks'[k] >= blocks[k]
      <4>1. k \in BlockKeys
        BY <1>2, <2>2, OwnKeyFacts DEF OwnKeys
      <4> QED BY <1>2, <1>6, <4>1 DEF BlocksTyped
    <3>2. CASE q = r
      <4>1. kept > 0 /\ req'[q].kept = kept
        BY <1>2, <1>3, <1>4, <2>2, <3>2
      <4>2. CASE k = Scope(r)
        BY <1>6, <4>1, <4>2
      <4>3. CASE k # Scope(r)
        <5>1. k \in OwnKeys(r)
          BY <2>2, <3>2, <4>3 DEF OwnKeys
        <5>2. kept <= blocks[k]
          BY <1>3, <4>1, <5>1
        <5> QED BY <1>3, <3>1, <4>1, <5>2
      <4> QED BY <4>2, <4>3
    <3>3. CASE q # r
      <4>1. req'[q].kept = req[q].kept /\ req[q].kept \in Nat
        BY <1>2, <1>4, <3>3 DEF ReqsOK, ReqOK
      <4>2. blocks[k] >= req[q].kept
        BY <1>2, <2>2, <4>1 DEF KeptLives
      <4> QED BY <3>1, <4>1, <4>2
    <3> QED BY <3>2, <3>3
  <2> QED BY <1>1, <2>1, <2>2, KeysStay DEF KeptLives
<1>9. OwedPromised'
  <2>1. ASSUME NEW p \in Requests, req'[p].owed > 0
        PROVE  \E q \in Requests : Covers(q, p) /\ req'[q].kept = req'[p].owed
    <3>1. req'[p].owed = req[p].owed
      BY <1>4
    <3>2. PICK q \in Requests : Covers(q, p) /\ req[q].kept = req[p].owed
      BY <1>2, <2>1, <3>1 DEF OwedInv, OwedPromised
    <3>3. q # r
      BY <1>4, <2>1, <3>1, <3>2
    <3> QED BY <1>4, <3>1, <3>2, <3>3
  <2> QED BY <1>1, <2>1, KeysStay DEF OwedPromised
<1>10. FrozenIsRefused'
  BY <1>2, <1>4 DEF OwedInv, FrozenIsRefused
<1>11. Shape' /\ SentOK' /\ ReqsOK'
  BY <1>4, MovesFrame
<1>12. BlocksTyped'
  BY <1>1, <1>2, <1>6, KeysStay DEF BlocksTyped
<1> QED BY <1>1, <1>2, <1>7, <1>8, <1>9, <1>10, <1>11, <1>12 DEF FreezeInv, OwedInv, PolicySet

-----------------------------------------------------------------------------
(***************************************************************************)
(* The clock, the world, and the whole.                                    *)
(***************************************************************************)

LEMMA StaysWhole ==
  ASSUME FreezeInv, UNCHANGED <<sent, req>>, policy' \in PolicySet,
         BlocksTyped', now' >= now,
         \A k \in BlockKeys : blocks'[k] # 0 => blocks[k] # 0,
         \A k \in BlockKeys : blocks[k] > now' => blocks'[k] = blocks[k]
  PROVE  FreezeInv'
<1>1. \A q \in Requests : (Froze(q)' <=> Froze(q)) /\ (FrozeAll(q)' <=> FrozeAll(q))
  BY DEF Froze, FrozeAll, TTL, P
<1>2. Founded' /\ HistoryFounded'
  BY <1>1, KeysStay DEF FreezeInv, EarnedInv, Founded, HistoryFounded, KeyFounded
<1>3. RefusalFounded'
  <2>1. ASSUME NEW p \in Requests, CauseFounded(p, req[p].cause) PROVE CauseFounded(p, req[p].cause)'
    <3>1. {Prefix(p, n) : n \in 1..Length(p)}' = {Prefix(p, n) : n \in 1..Length(p)}
      BY DEF Prefix, Length
    <3> QED BY <1>1, <2>1, <3>1, KeysStay DEF CauseFounded
  <2> QED BY <2>1 DEF FreezeInv, EarnedInv, RefusalFounded
<1>4. KeptLives'
  <2>1. ASSUME NEW q \in Requests, req[q].kept > now',
               NEW k \in {Scope(q), Exact(q), PreLatest(q)} \ {NoKey}
        PROVE  blocks'[k] >= req[q].kept
    <3>1. k \in BlockKeys
      BY <2>1, OwnKeyFacts DEF OwnKeys, FreezeInv
    <3>2. now \in Nat /\ now' \in Nat /\ req[q].kept \in Nat /\ blocks[k] \in Nat
      BY <3>1 DEF FreezeInv, BlocksTyped, ReqsOK, ReqOK
    <3>3. blocks[k] >= req[q].kept
      BY <2>1, <3>2 DEF FreezeInv, OwedInv, KeptLives
    <3>4. blocks[k] > now'
      BY <2>1, <3>2, <3>3
    <3> QED BY <3>1, <3>3, <3>4
  <2> QED BY <2>1, KeysStay DEF KeptLives, FreezeInv, OwedInv
<1>5. OwedPromised' /\ FrozenIsRefused'
  BY KeysStay DEF FreezeInv, OwedInv, OwedPromised, FrozenIsRefused
<1>6. ReqsOK'
  <2>1. ASSUME NEW q \in Requests PROVE ReqOK(q, req[q])'
    <3>1. OwnKeys(q)' = OwnKeys(q) /\ ReqOK(q, req[q])
      BY KeysStay DEF FreezeInv, ReqsOK
    <3> QED BY <3>1 DEF ReqOK, PolicySet, KeysUnder
  <2> QED BY <2>1 DEF ReqsOK
<1> QED BY <1>2, <1>3, <1>4, <1>5, <1>6 DEF FreezeInv, Shape, SentOK, EarnedInv, OwedInv, PolicySet

LEMMA TickKeeps ==
  ASSUME FreezeInv, Tick
  PROVE  FreezeInv'
<1>1. /\ UNCHANGED <<sent, req, policy>> /\ now' = now + 1 /\ now \in Nat /\ policy \in PolicySet
      /\ blocks' = [k \in BlockKeys |-> IF blocks[k] > now + 1 THEN blocks[k] ELSE 0]
      /\ \A k \in BlockKeys : blocks[k] \in Nat
  BY DEF Tick, FreezeInv, BlocksTyped
<1>2. /\ DOMAIN blocks' = BlockKeys
      /\ \A k \in BlockKeys : blocks'[k] \in Nat
      /\ \A k \in BlockKeys : blocks'[k] # 0 => blocks[k] # 0
      /\ \A k \in BlockKeys : blocks[k] > now' => blocks'[k] = blocks[k]
  BY <1>1
<1>3. BlocksTyped'
  BY <1>1, <1>2, KeysStay DEF BlocksTyped
<1> QED BY <1>1, <1>2, <1>3, StaysWhole DEF PolicySet

LEMMA WorldKeeps ==
  ASSUME FreezeInv, UNCHANGED <<sent, req, blocks, now>>, policy' \in PolicySet
  PROVE  FreezeInv'
<1>1. BlocksTyped' /\ now' >= now
  BY KeysStay DEF FreezeInv, BlocksTyped
<1> QED BY <1>1, StaysWhole

LEMMA InitFreeze == Init => FreezeInv
<1> SUFFICES ASSUME Init PROVE FreezeInv
  OBVIOUS
<1>1. /\ \A r \in Requests : req[r] = Unsent
      /\ blocks = [k \in BlockKeys |-> 0] /\ now = 0 /\ sent \in Workloads /\ policy = Policies[1]
      /\ DOMAIN req = Requests
  BY DEF Init
<1>2. Shape /\ SentOK /\ policy \in PolicySet /\ BlocksTyped
  BY <1>1, GatewayAssumption DEF Shape, Fields, SentOK, PolicySet, BlocksTyped
<1>3. /\ Unsent.pc = "idle" /\ Unsent.mode = "none" /\ Unsent.rv = "none" /\ Unsent.answer = "none"
      /\ Unsent.verdict = NoMatch /\ Unsent.kept = 0 /\ Unsent.owed = 0 /\ Unsent.passed = NotYet
      /\ Unsent.freeze = <<>> /\ Unsent.save = {}
  BY DEF Unsent
<1>4. ASSUME NEW r \in Requests PROVE ReqOK(r, Unsent)
  <2>1. Unsent.freeze \in Seq(OwnKeys(r))
    BY <1>3
  <2> HIDE DEF Unsent
  <2> QED BY <1>3, <2>1, NoMatchIsVerdict DEF ReqOK, Early
<1>5. ReqsOK
  BY <1>1, <1>4 DEF ReqsOK
<1>6. Founded /\ HistoryFounded /\ RefusalFounded
  BY <1>1, <1>3 DEF Founded, HistoryFounded, RefusalFounded
<1>7. KeptLives /\ OwedPromised /\ FrozenIsRefused
  BY <1>1, <1>3 DEF KeptLives, OwedPromised, FrozenIsRefused
<1> QED BY <1>2, <1>5, <1>6, <1>7 DEF FreezeInv, EarnedInv, OwedInv

LEMMA NextFreeze == FreezeInv /\ [Next]_vars => FreezeInv'
<1> SUFFICES ASSUME FreezeInv, [Next]_vars PROVE FreezeInv'
  OBVIOUS
<1>p. policy \in PolicySet
  BY DEF FreezeInv
<1>1. ASSUME NEW r \in Requests, Bypass(r) \/ Malformed(r) \/ Admit(r) \/ Handle(r)
      PROVE  FreezeInv'
  <2>1. Handled(r) /\ UNCHANGED <<blocks, now>> /\ policy' = policy
    BY <1>1, HandlerHandled
  <2> QED BY <1>p, <2>1, HandledKeeps
<1>2. ASSUME NEW r \in Requests, Review(r) PROVE FreezeInv'
  <2>1. CASE FreezeKey(r) \/ FreezeScope(r)
    BY <2>1, FreezeKeyKeeps, FreezeScopeKeeps
  <2>2. CASE \/ TooLong(r) \/ CacheHit(r) \/ CacheMiss(r) \/ Classify(r) \/ ClassifyFail(r)
             \/ SaveFact(r) \/ SaveFail(r)
    <3>1. Handled(r) /\ UNCHANGED <<blocks, now>> /\ policy' = policy
      BY <2>2, ReviewHandled
    <3> QED BY <1>p, <3>1, HandledKeeps
  <2> QED BY <1>2, <2>1, <2>2 DEF Review
<1>3. CASE SavePolicy \/ Evict \/ CloseBegin \/ CloseTimeout \/ CloseEnd \/ UNCHANGED vars
  <2>1. UNCHANGED <<sent, req, blocks, now>> /\ policy' \in PolicySet
    BY <1>p, <1>3 DEF SavePolicy, Evict, CloseBegin, CloseTimeout, CloseEnd, vars
  <2> QED BY <2>1, WorldKeeps
<1> QED BY <1>1, <1>2, <1>3, DisconnectKeeps, TickKeeps DEF Next

\* Nobody is refused but for a rejected text, its own or one of the same session or
\* history, and an overlong history only for a freeze written in full (sessionBlocked,
\* rememberSessionBlock, writeBlock).
THEOREM RefusalsEarned == Spec => []RefusalEarned
<1>1. FreezeInv => RefusalEarned
  BY DEF FreezeInv, EarnedInv, RefusalFounded, RefusalEarned, CauseFounded, Explains, Froze, FrozeAll
<1> QED BY <1>1, InitFreeze, NextFreeze, PTL DEF Spec

\* Who looked its freezes up and found none was not owed a refusal: what a review wrote
\* in full refuses the conversation until it ends (PutSessionBlock, extendSessionScope).
THEOREM FrozenRefused == Spec => []FrozenIsRefused
<1>1. FreezeInv => FrozenIsRefused
  BY DEF FreezeInv, OwedInv
<1> QED BY <1>1, InitFreeze, NextFreeze, PTL DEF Spec

\* A live freeze of a conversation is not moved, and the shared marker never gets
\* shorter, until their ends come (SET NX, extendSessionScope).
THEOREM FreezesKeepEnd == Spec => FreezeKeepsEnd
<1> DEFINE Ends == \A k \in BlockKeys :
                     /\ Live(k) /\ k[1] # "scope" /\ blocks[k] > now' => blocks'[k] = blocks[k]
                     /\ k[1] = "scope" /\ blocks[k] > now' => blocks'[k] >= blocks[k]
<1>1. ASSUME FreezeInv, [Next]_vars PROVE Ends
  <2>1. DOMAIN blocks = BlockKeys /\ now \in Nat /\ \A k \in BlockKeys : blocks[k] \in Nat
    BY <1>1 DEF FreezeInv, BlocksTyped
  <2>2. ASSUME UNCHANGED blocks PROVE Ends
    BY <2>1, <2>2
  <2>3. ASSUME NEW r \in Requests, FreezeKey(r) PROVE Ends
    <3> DEFINE k0 == Head(req[r].freeze)
               until == now + TTL(r)
    <3>1. /\ k0 \in BlockKeys /\ k0[1] # "scope"
          /\ PutExact(k0, until) \/ UNCHANGED blocks
      BY <1>1, <2>3, FreezeKeySteps
    <3> HIDE DEF k0, until
    <3>2. CASE PutExact(k0, until)
      BY <2>1, <3>1, <3>2 DEF PutExact, Live
    <3> QED BY <2>2, <3>1, <3>2
  <2>4. ASSUME NEW r \in Requests, FreezeScope(r) PROVE Ends
    <3>1. /\ req[r].rv = "freeze"
          /\ UNCHANGED blocks \/ (MarksScope(r) /\ PutScope(Scope(r), now + TTL(r)))
      BY <1>1, <2>4, FreezeScopeSteps
    <3>2. CASE MarksScope(r) /\ PutScope(Scope(r), now + TTL(r))
      <4> DEFINE s == Scope(r)
                 b == Max({blocks[s], now + TTL(r)})
      <4>1. s \in BlockKeys /\ s[1] = "scope"
        BY <1>1, <3>2, OwnKeyFacts, SessionKey DEF MarksScope, FreezeInv
      <4>2. b >= blocks[s] /\ blocks[s] \in Nat
        <5>1. TTL(r) \in Nat
          BY <1>1, <3>1, FreezingFroze
        <5> QED BY <2>1, <4>1, <5>1, MaxOfTwo
      <4>3. blocks' = [blocks EXCEPT ![s] = b]
        BY <3>2 DEF PutScope
      <4> HIDE DEF s, b
      <4>4. blocks'[s] = b /\ \A k \in BlockKeys \ {s} : blocks'[k] = blocks[k]
        BY <2>1, <4>1, <4>3
      <4> QED BY <2>1, <4>1, <4>2, <4>4
    <3> QED BY <2>2, <3>1, <3>2
  <2>5. CASE Tick
    BY <2>1, <2>5 DEF Tick
  <2>6. ASSUME NEW r \in Requests, Bypass(r) \/ Malformed(r) \/ Admit(r) \/ Handle(r) PROVE Ends
    BY <1>1, <2>2, <2>6, HandlerHandled
  <2>7. ASSUME NEW r \in Requests, Review(r) PROVE Ends
    BY <1>1, <2>2, <2>3, <2>4, <2>7, ReviewHandled DEF Review
  <2>8. ASSUME NEW r \in Requests, Disconnect(r) PROVE Ends
    BY <2>2, <2>8 DEF Disconnect
  <2>9. CASE SavePolicy \/ Evict \/ CloseBegin \/ CloseTimeout \/ CloseEnd \/ UNCHANGED vars
    BY <2>2, <2>9 DEF SavePolicy, Evict, CloseBegin, CloseTimeout, CloseEnd, vars
  <2> HIDE DEF Ends
  <2> QED BY <1>1, <2>5, <2>6, <2>7, <2>8, <2>9 DEF Next
<1>2. FreezeInv /\ [Next]_vars => [Ends]_vars
  BY <1>1
<1>3. FreezeKeepsEnd <=> [][Ends]_vars
  BY DEF FreezeKeepsEnd
<1> QED BY <1>2, <1>3, InitFreeze, NextFreeze, PTL DEF Spec

-----------------------------------------------------------------------------

GateInv == gate \in {"open", "closing", "cancelled", "closed"}

\* Each variable has its type, and startReview's counter is the number of background
\* reviews that run.
THEOREM TypesCorrect == Spec => []TypeOK
<1>1. Init => GateInv
  BY DEF Init, GateInv
<1>2. GateInv /\ [Next]_vars => GateInv'
  <2> SUFFICES ASSUME GateInv, [Next]_vars PROVE GateInv'
    OBVIOUS
  <2>1. gate' = gate \/ gate' \in {"closing", "cancelled", "closed"}
    <3>1. ASSUME NEW r \in Requests, Bypass(r) \/ Malformed(r) \/ Admit(r) \/ Handle(r) \/ Disconnect(r)
          PROVE  gate' = gate
      BY <3>1 DEF Bypass, Malformed, Admit, Handle, LookupFail, LookExplicit, LookScope, LookHistory,
                  Skip, StartAsync, Busy, StartSync, Disconnect
    <3>2. ASSUME NEW r \in Requests, Review(r) PROVE gate' = gate
      BY <3>2 DEF Review, TooLong, CacheHit, CacheMiss, Classify, ClassifyFail, SaveFact, SaveFail,
                  FreezeKey, FreezeScope
    <3> QED BY <3>1, <3>2 DEF Next, SavePolicy, Evict, Tick, CloseBegin, CloseTimeout, CloseEnd, vars
  <2> QED BY <2>1 DEF GateInv
<1>3. FreezeInv /\ DrainInv /\ FactInv /\ GateInv => TypeOK
  <2> SUFFICES ASSUME FreezeInv, DrainInv, FactInv, GateInv PROVE TypeOK
    OBVIOUS
  <2>1. ASSUME NEW r \in Requests
        PROVE  /\ req[r].pc \in {"idle", "explicit", "scope", "history", "sample", "review", "done"}
               /\ req[r].mode \in {"none", "sync", "async"}
               /\ req[r].rv \in {"none", "cache", "classify", "save", "freeze", "done"}
               /\ req[r].answer \in {"none", "forwarded", "refused", "error"}
               /\ req[r].save \subseteq FactKeys(r)
               /\ req[r].verdict.scene \in {0} \cup DOMAIN P(r).scenes
    <3>1. ReqOK(r, req[r])
      BY DEF FreezeInv, ReqsOK
    <3>2. FactKeys(r) = KeysUnder(req[r].policy, r)
      BY DEF FactKeys, ConditionsOf, KeysUnder, P
    <3> QED BY <3>1, <3>2 DEF ReqOK, Early, VerdictOf, P
  <2>2. \A k \in CacheKeys : cache[k].by \in Requests \cup {None}
    BY DEF FactInv, Truth, True, NoFact
  <2>3. (\A k \in BlockKeys : blocks[k] \in Nat) /\ policy \in PolicySet
    BY DEF FreezeInv, BlocksTyped
  <2>4. reviewActive = Cardinality(Background)
    BY DEF DrainInv, Places
  <2> QED BY <2>1, <2>2, <2>3, <2>4 DEF TypeOK, GateInv
<1> QED BY <1>1, <1>2, <1>3, InitFreeze, NextFreeze, InitDrain, NextDrain, InitFacts, NextFacts,
           PTL DEF Spec

=============================================================================
