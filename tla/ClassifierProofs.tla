--------------------------- MODULE ClassifierProofs ---------------------------
(***************************************************************************)
(* Theorems of Classifier.  A call is a record that most actions change    *)
(* alone, so the invariant is one of records: it is shown for the pieces   *)
(* the actions are built from, then for each action.                       *)
(***************************************************************************)
EXTENDS Classifier, FiniteSetTheorems, TLAPS

\* A call is typed; the context of a working leg has not outlived the deadline;
\* what it sends goes to its own connection; it waits at least what it was told
\* to; what it replies answers what was asked.
RecordInv(record) ==
  /\ record \in CallType
  /\ record.work \in {"attempt", "wait"} =>
       /\ record.context = "live" => record.left > 0
       /\ record.client = record.conn
  /\ record.sent => record.work = "attempt"
  /\ record.work # "wait" => record.rest = 0
  /\ record.work \notin {"attempt", "wait"} => record.attempt = 0
  /\ record.work = "wait" => record.rest <= record.wait /\ record.attempt <= MaxRetries
  /\ record.work = "reply" /\ record.reply = "" /\ record.gateway = "sent" =>
       /\ Decoded(record.body) = record.asked
       /\ DOMAIN record.body = record.asked
       /\ \A q \in record.asked : RightType(q, record.body[q])

\* The part of the state that is not a call.
OwnerType ==
  /\ process \in {"starting", "up", "leaving", "gone"}
  /\ {noticed, serving} \subseteq BOOLEAN
  /\ owner \in {"open", "closing", "closed"}
  /\ grace \in 0..CloseGrace
  /\ cached \in Connections \cup {NoConnection}

CallsInv ==
  /\ call \in [Calls -> CallType]
  /\ \A c \in Calls : RecordInv(call[c])

IInv == OwnerType /\ CallsInv

-----------------------------------------------------------------------------
(***************************************************************************)
(* The pieces of the actions.                                              *)
(***************************************************************************)

LEMMA Constants ==
  /\ MaxRetries \in Nat /\ InitialBackoff \in Nat /\ MaxBackoff \in Nat /\ MaxRetryAfter \in Nat
  /\ AttemptTimeout \in Nat \ {0} /\ CallTimeout \in Nat \ {0} /\ CloseGrace \in Nat \ {0}
  /\ InitialBackoff <= MaxBackoff
  BY ClassifierAssumption

\* Zero is in every range, and so is a first attempt.
LEMMA Zeros ==
  /\ 0 \in 0..CallTimeout /\ 0 \in 0..AttemptTimeout /\ 0 \in 0..MaxBackoff
  /\ 0 \in 0..MaxRetryAfter /\ 0 \in 0..(MaxRetries + 1) /\ 0 \in Nat
  BY Constants

LEMMA Fields ==
  ASSUME NEW record \in CallType
  PROVE  /\ record.left \in 0..CallTimeout /\ record.attempt \in 0..(MaxRetries + 1)
         /\ record.limit \in 0..AttemptTimeout /\ record.wait \in Nat
         /\ record.interval \in 0..MaxBackoff /\ record.rest \in 0..MaxRetryAfter
         /\ record.gateway \in {"idle", "sent"} \cup Results /\ record.sent \in BOOLEAN
         /\ record.work \in {"none", "attempt", "wait", "reply", "done", "dead"}
         /\ record.context \in {"live", "canceled", "expired"}
         /\ record.asked \in Asks \cup {{}}
  BY DEF CallType

LEMMA NothingKept == <<>> \in Kept
  BY DEF Kept

LEMMA IdleInv == RecordInv(Idle)
  BY Constants, NothingKept DEF RecordInv, CallType, Idle

\* Only how a call ended is kept.
LEMMA SettledInv ==
  ASSUME NEW record, RecordInv(record)
  PROVE  RecordInv(Settled(record))
<1>1. CASE Settled(record) = record
  BY <1>1
<1>2. ASSUME record.work \in {"none", "done", "dead"},
             Settled(record) = [Idle EXCEPT !.gateway = record.gateway, !.work = record.work]
      PROVE  RecordInv(Settled(record))
  <2>1. record.gateway \in {"idle", "sent"} \cup Results
    BY DEF RecordInv, CallType
  <2>2. [Idle EXCEPT !.gateway = record.gateway, !.work = record.work] \in CallType
    BY <1>2, <2>1, Zeros, NothingKept DEF CallType, Idle
  <2>3. /\ [Idle EXCEPT !.gateway = record.gateway, !.work = record.work].rest = 0
        /\ [Idle EXCEPT !.gateway = record.gateway, !.work = record.work].attempt = 0
    BY DEF Idle
  <2>4. [Idle EXCEPT !.gateway = record.gateway, !.work = record.work].sent = FALSE
    BY DEF Idle
  <2>5. [Idle EXCEPT !.gateway = record.gateway, !.work = record.work].work = record.work
    BY DEF Idle
  <2> QED
    BY <1>2, <2>2, <2>3, <2>4, <2>5 DEF RecordInv
<1> QED
  BY <1>1, <1>2 DEF Settled

\* A reply without an error carries an answer to every question and no other.
LEMMA MatchedIsAsked ==
  ASSUME NEW asked, NEW body \in Bodies, Matches(body, asked)
  PROVE  Decoded(body) = asked
<1>1. IsFiniteSet(Decoded(body))
  BY FS_Subset, ClassifierAssumption DEF Decoded
<1>2. asked \subseteq Decoded(body) /\ Cardinality(Decoded(body)) = Cardinality(asked)
  BY DEF Matches
<1> QED
  BY <1>1, <1>2, FS_Subset

LEMMA ConcludedInv ==
  ASSUME NEW record, RecordInv(record), NEW body,
         NEW category \in {"", "timeout", "canceled", "invalid_response", "unavailable"},
         category = "" => body \in Bodies /\ Matches(body, record.asked)
  PROVE  /\ RecordInv(Concluded(record, category, body))
         /\ Concluded(record, category, body).work = "reply"
<1> DEFINE kept == IF category = "" THEN [q \in Decoded(body) |-> body[q]] ELSE <<>>
           ended == [record EXCEPT !.sent = FALSE, !.limit = 0, !.wait = 0, !.interval = 0,
                                   !.attempt = 0, !.rest = 0]
           concluded == [ended EXCEPT !.work = "reply", !.reply = category, !.body = kept,
                                      !.conn = NoConnection, !.client = NoConnection]
<1>1. kept \in Kept
  BY NothingKept DEF Kept
<1>2. ASSUME category = ""
      PROVE  /\ Decoded(kept) = record.asked /\ DOMAIN kept = record.asked
             /\ \A q \in record.asked : RightType(q, kept[q])
  <2>1. Decoded(body) = record.asked
    BY <1>2, MatchedIsAsked
  <2>2. DOMAIN kept = record.asked /\ \A q \in record.asked : kept[q] = body[q]
    BY <1>2, <2>1
  <2>3. \A q \in record.asked : body[q] # "new"
    BY <2>1 DEF Decoded
  <2> HIDE DEF kept
  <2>4. Decoded(kept) = record.asked
    BY <2>2, <2>3 DEF Decoded
  <2>5. \A q \in record.asked : RightType(q, body[q])
    BY <1>2 DEF Matches
  <2> QED
    BY <2>2, <2>4, <2>5
<1> HIDE DEF kept
<1>3. record \in CallType
  BY DEF RecordInv
<1>4. ended \in CallType
  BY <1>3, Zeros DEF CallType
<1>5. Concluded(record, category, body) = concluded
  BY <1>3 DEF CallType, Concluded, kept
<1>6. /\ concluded.work = "reply" /\ concluded.sent = FALSE /\ concluded.rest = 0
      /\ concluded.attempt = 0 /\ concluded.reply = category /\ concluded.body = kept
      /\ concluded.asked = record.asked
  BY <1>3 DEF CallType
<1> HIDE DEF ended
<1>7. concluded \in CallType
  BY <1>1, <1>4 DEF CallType
<1> HIDE DEF concluded
<1> QED
  BY <1>2, <1>5, <1>6, <1>7 DEF RecordInv

LEMMA FailedInv ==
  ASSUME NEW record, RecordInv(record), NEW err
  PROVE  RecordInv(Failed(record, err)) /\ Failed(record, err).work = "reply"
<1>1. Category(record.context, err) \in {"timeout", "canceled", "invalid_response", "unavailable"}
  BY DEF Category
<1> QED
  BY <1>1, ConcludedInv DEF Failed

LEMMA AttemptType ==
  ASSUME NEW record \in CallType, record.attempt <= MaxRetries
  PROVE  /\ Attempt(record) \in CallType
         /\ Attempt(record).work = "attempt" /\ Attempt(record).rest = 0
         /\ Attempt(record).context = record.context /\ Attempt(record).left = record.left
         /\ Attempt(record).client = record.client /\ Attempt(record).conn = record.conn
<1> DEFINE live == record.context = "live"
<1>1. record.attempt + 1 \in 0..(MaxRetries + 1)
  BY Fields, Constants
<1>2. (IF live THEN AttemptTimeout ELSE 0) \in 0..AttemptTimeout /\ live \in BOOLEAN
  BY Constants
<1> HIDE DEF live
<1>3. [record EXCEPT !.work = "attempt", !.attempt = @ + 1, !.wait = 0, !.rest = 0,
         !.sent = live, !.limit = IF live THEN AttemptTimeout ELSE 0] \in CallType
  <2>1. PICK limit \in 0..AttemptTimeout, tries \in 0..(MaxRetries + 1), sent \in BOOLEAN :
          /\ limit = (IF live THEN AttemptTimeout ELSE 0) /\ tries = record.attempt + 1
          /\ sent = live
    BY <1>1, <1>2
  <2>2. [record EXCEPT !.work = "attempt", !.attempt = tries, !.wait = 0, !.rest = 0]
          \in CallType
    BY Zeros DEF CallType
  <2>3. [record EXCEPT !.work = "attempt", !.attempt = tries, !.wait = 0, !.rest = 0,
           !.sent = sent, !.limit = limit] \in CallType
    BY <2>2 DEF CallType
  <2> QED BY <2>1, <2>3
<1>4. Attempt(record) \in CallType
  BY <1>3 DEF Attempt, live
<1>5. /\ Attempt(record).work = "attempt" /\ Attempt(record).rest = 0
      /\ Attempt(record).context = record.context /\ Attempt(record).left = record.left
      /\ Attempt(record).client = record.client /\ Attempt(record).conn = record.conn
  BY DEF CallType, Attempt
<1> QED
  BY <1>4, <1>5

LEMMA AttemptInv ==
  ASSUME NEW record, RecordInv(record), record.work = "wait"
  PROVE  RecordInv(Attempt(record))
<1>1. record \in CallType /\ record.attempt <= MaxRetries
  BY DEF RecordInv
<1> QED
  BY <1>1, AttemptType DEF RecordInv

LEMMA JitteredNat ==
  ASSUME NEW interval \in Nat
  PROVE  Jittered(interval) \subseteq Nat
<1>1. 100 - Jitter \in Nat
  BY ClassifierAssumption
<1>2. interval * (100 - Jitter) \in Nat
  BY <1>1
<1>3. \A n \in Nat : n \div 100 \in Nat
  OBVIOUS
<1> QED
  BY <1>2, <1>3 DEF Jittered

\* What a retry waits is at least what it was told to wait.
LEMMA RetryInv ==
  ASSUME NEW record, RecordInv(record), record.work = "attempt", MayRetry(record),
         NEW after \in RetryAfters \cup {NoRetryAfter}, NEW wait \in Delays(record, after)
  PROVE  RecordInv(Retry(record, after, wait))
<1>1. record \in CallType /\ record.interval \in Nat /\ record.interval <= MaxBackoff
  BY Fields, Constants DEF RecordInv
<1>2. Smaller(record.interval, MaxBackoff) \in Nat /\ Smaller(2 * record.interval, MaxBackoff) \in 0..MaxBackoff
  BY <1>1, Constants DEF Smaller
<1>3. Honoured(after) => after \in 0..MaxRetryAfter
  BY ClassifierAssumption, Constants DEF Honoured, NoRetryAfter
<1>4. wait \in Nat /\ (Honoured(after) => wait = after)
  BY <1>2, <1>3, JitteredNat DEF Delays
<1>5. record.attempt <= MaxRetries
  BY <1>1, Fields, Constants DEF MayRetry
<1> DEFINE backed == [record EXCEPT !.work = "wait", !.sent = FALSE, !.limit = 0, !.wait = wait]
<1>6. backed \in CallType
  BY <1>1, <1>4, Zeros DEF CallType
<1>7. CASE Honoured(after)
  <2> DEFINE waiting == [backed EXCEPT !.rest = after]
  <2>1. Retry(record, after, wait) = waiting
    BY <1>7 DEF Retry
  <2>2. /\ waiting.work = "wait" /\ waiting.sent = FALSE /\ waiting.rest = after
        /\ waiting.wait = wait /\ waiting.attempt = record.attempt
        /\ waiting.context = record.context /\ waiting.left = record.left
        /\ waiting.client = record.client /\ waiting.conn = record.conn
    BY <1>1 DEF CallType
  <2> HIDE DEF backed
  <2>3. waiting \in CallType
    BY <1>6, <1>7, <1>3 DEF CallType
  <2> HIDE DEF waiting
  <2>4. after <= wait
    BY <1>3, <1>4, <1>7, Constants
  <2> QED
    BY <1>5, <2>1, <2>2, <2>3, <2>4 DEF RecordInv
<1>8. CASE ~Honoured(after)
  <2> DEFINE waiting == [backed EXCEPT !.interval = Smaller(2 * @, MaxBackoff)]
  <2>1. Retry(record, after, wait) = waiting
    BY <1>8 DEF Retry
  <2>2. /\ waiting.work = "wait" /\ waiting.sent = FALSE /\ waiting.rest = record.rest
        /\ waiting.wait = wait /\ waiting.attempt = record.attempt
        /\ waiting.context = record.context /\ waiting.left = record.left
        /\ waiting.client = record.client /\ waiting.conn = record.conn
    BY <1>1 DEF CallType
  <2>3. backed.interval = record.interval
    BY <1>1 DEF CallType
  <2> HIDE DEF backed
  <2>4. waiting \in CallType
    BY <1>6, <1>2, <2>3 DEF CallType
  <2> HIDE DEF waiting
  <2>5. record.rest = 0 /\ record.rest <= wait
    BY <1>4 DEF RecordInv
  <2> QED
    BY <1>5, <2>1, <2>2, <2>4, <2>5 DEF RecordInv
<1> QED
  BY <1>7, <1>8

\* A tick ends a context no later than its deadline, and rests no longer than waits.
LEMMA ElapseInv ==
  ASSUME NEW record, RecordInv(record)
  PROVE  RecordInv(Elapse(record))
<1> DEFINE expires == record.left = 1 /\ record.context = "live" /\ record.work \in {"attempt", "wait"}
           context == IF expires THEN "expired" ELSE record.context
           elapsed == [record EXCEPT !.left = Down(record.left), !.limit = Down(record.limit),
                         !.wait = Down(record.wait), !.rest = Down(record.rest),
                         !.context = context]
<1>1. record \in CallType
  BY DEF RecordInv
<1>2. /\ Down(record.left) \in 0..CallTimeout /\ Down(record.limit) \in 0..AttemptTimeout
      /\ Down(record.wait) \in Nat /\ Down(record.rest) \in 0..MaxRetryAfter
  BY <1>1, Fields, Constants DEF Down
<1>3. context \in {"live", "canceled", "expired"}
  BY <1>1, Fields
<1>4. Elapse(record) = elapsed
  BY <1>1 DEF CallType, Elapse
<1>5. /\ elapsed.work = record.work /\ elapsed.context = context
      /\ elapsed.left = Down(record.left) /\ elapsed.wait = Down(record.wait)
      /\ elapsed.rest = Down(record.rest) /\ elapsed.attempt = record.attempt
      /\ elapsed.client = record.client /\ elapsed.conn = record.conn
      /\ elapsed.sent = record.sent /\ elapsed.reply = record.reply
      /\ elapsed.gateway = record.gateway /\ elapsed.body = record.body
      /\ elapsed.asked = record.asked
  BY <1>1 DEF CallType
<1>6. record.work \in {"attempt", "wait"} /\ context = "live" => Down(record.left) > 0
  <2> SUFFICES ASSUME record.work \in {"attempt", "wait"}, context = "live"
               PROVE  Down(record.left) > 0
    OBVIOUS
  <2>1. record.context = "live" /\ record.left # 1
    OBVIOUS
  <2>2. record.left > 0 /\ record.left \in 0..CallTimeout
    BY <1>1, <2>1, Fields DEF RecordInv
  <2> QED
    BY <2>1, <2>2, Constants DEF Down
<1>7. /\ record.rest = 0 => Down(record.rest) = 0
      /\ record.rest <= record.wait => Down(record.rest) <= Down(record.wait)
  BY <1>1, Fields, Constants DEF Down
<1> HIDE DEF context
<1>8. elapsed \in CallType
  BY <1>1, <1>2, <1>3 DEF CallType
<1> HIDE DEF elapsed
<1> QED
  BY <1>4, <1>5, <1>6, <1>7, <1>8 DEF RecordInv

\* A context that is cancelled is not live.
LEMMA CanceledInv ==
  ASSUME NEW record, RecordInv(record)
  PROVE  RecordInv([record EXCEPT !.context = "canceled"])
<1> DEFINE canceled == [record EXCEPT !.context = "canceled"]
<1>1. canceled \in CallType
  BY DEF RecordInv, CallType
<1>2. /\ canceled.work = record.work /\ canceled.context = "canceled"
      /\ canceled.wait = record.wait /\ canceled.rest = record.rest
      /\ canceled.attempt = record.attempt /\ canceled.client = record.client
      /\ canceled.conn = record.conn /\ canceled.sent = record.sent
      /\ canceled.reply = record.reply /\ canceled.gateway = record.gateway
      /\ canceled.body = record.body /\ canceled.asked = record.asked
  BY DEF RecordInv, CallType
<1> HIDE DEF canceled
<1>3. RecordInv(canceled)
  BY <1>1, <1>2 DEF RecordInv
<1> QED
  BY <1>3 DEF canceled

\* What the model remembers of the cause has no part in the rest.
LEMMA FaultInv ==
  ASSUME NEW record, RecordInv(record),
         NEW fault \in {"none", "connection", "timeout", "status", "decode", "config"}
  PROVE  /\ RecordInv([record EXCEPT !.fault = fault])
         /\ [record EXCEPT !.fault = fault].asked = record.asked
<1> DEFINE faulty == [record EXCEPT !.fault = fault]
<1>1. faulty \in CallType
  BY DEF RecordInv, CallType
<1>2. /\ faulty.work = record.work /\ faulty.context = record.context
      /\ faulty.wait = record.wait /\ faulty.rest = record.rest /\ faulty.left = record.left
      /\ faulty.attempt = record.attempt /\ faulty.client = record.client
      /\ faulty.conn = record.conn /\ faulty.sent = record.sent
      /\ faulty.reply = record.reply /\ faulty.gateway = record.gateway
      /\ faulty.body = record.body /\ faulty.asked = record.asked
  BY DEF RecordInv, CallType
<1> HIDE DEF faulty
<1>3. RecordInv(faulty)
  BY <1>1, <1>2 DEF RecordInv
<1> QED
  BY <1>2, <1>3 DEF faulty

LEMMA ReturnedInv ==
  ASSUME NEW record, RecordInv(record), NEW result \in Results
  PROVE  RecordInv(Settled([record EXCEPT !.gateway = result]))
<1> DEFINE returned == [record EXCEPT !.gateway = result]
<1>1. result \in {"idle", "sent"} \cup Results /\ result # "sent"
  BY DEF Results
<1>2. returned \in CallType
  BY <1>1 DEF RecordInv, CallType
<1>3. /\ returned.work = record.work /\ returned.context = record.context
      /\ returned.wait = record.wait /\ returned.rest = record.rest /\ returned.left = record.left
      /\ returned.attempt = record.attempt /\ returned.client = record.client
      /\ returned.conn = record.conn /\ returned.sent = record.sent
      /\ returned.gateway = result
  BY DEF RecordInv, CallType
<1> HIDE DEF returned
<1>4. RecordInv(returned)
  BY <1>1, <1>2, <1>3 DEF RecordInv
<1>5. RecordInv(Settled(returned))
  BY <1>4, SettledInv
<1> QED
  BY <1>5 DEF returned

LEMMA TakenInv ==
  ASSUME NEW record, RecordInv(record), record.work = "reply",
         NEW result \in {"idle", "sent"} \cup Results
  PROVE  RecordInv(Settled([record EXCEPT !.work = "done", !.gateway = result]))
<1> DEFINE taken == [record EXCEPT !.work = "done", !.gateway = result]
<1>1. taken \in CallType
  BY DEF RecordInv, CallType
<1>2. /\ taken.work = "done" /\ taken.rest = record.rest
      /\ taken.attempt = record.attempt /\ taken.sent = record.sent
  BY DEF RecordInv, CallType
<1> HIDE DEF taken
<1>3. RecordInv(taken)
  BY <1>1, <1>2 DEF RecordInv
<1>4. RecordInv(Settled(taken))
  BY <1>3, SettledInv
<1> QED
  BY <1>4 DEF taken

LEMMA OutcomeType ==
  ASSUME NEW reply \in {"", "timeout", "canceled", "invalid_response", "unavailable", "broken"},
         NEW answers, NEW asked
  PROVE  Outcome(reply, answers, asked) \in Results
  BY DEF Outcome, Results

\* A call is changed alone.
LEMMA CallsStep ==
  ASSUME CallsInv, NEW c \in Calls, NEW record, RecordInv(record),
         call' = [call EXCEPT ![c] = record]
  PROVE  CallsInv'
<1>1. record \in CallType
  BY DEF RecordInv
<1>2. call' \in [Calls -> CallType]
  BY <1>1 DEF CallsInv
<1>3. \A d \in Calls : call'[d] = IF d = c THEN record ELSE call[d]
  BY DEF CallsInv
<1>4. ASSUME NEW d \in Calls PROVE RecordInv(call'[d])
  BY <1>3 DEF CallsInv
<1> QED
  BY <1>2, <1>4 DEF CallsInv, RecordInv

-----------------------------------------------------------------------------
(***************************************************************************)
(* The actions of a call.                                                  *)
(***************************************************************************)

LEMMA AskInv ==
  ASSUME CallsInv, NEW c \in Calls, Ask(c)
  PROVE  CallsInv'
<1> PICK conn \in Connections, asked \in Asks :
      call' = [call EXCEPT ![c] = Settled(
                 [Idle EXCEPT !.gateway = IF noticed THEN "unavailable" ELSE "sent",
                              !.conn = conn, !.asked = asked, !.left = CallTimeout])]
  BY DEF Ask
<1> DEFINE result == IF noticed THEN "unavailable" ELSE "sent"
           asking == [Idle EXCEPT !.gateway = result, !.conn = conn, !.asked = asked,
                                  !.left = CallTimeout]
<1>1. result \in {"idle", "sent"} \cup Results /\ CallTimeout \in 0..CallTimeout
  BY Constants DEF Results
<1> HIDE DEF result
<1>2. Idle \in CallType
  BY IdleInv DEF RecordInv
<1>3. asking \in CallType
  BY <1>1, <1>2 DEF CallType
<1>4. /\ asking.work = "none" /\ asking.sent = FALSE /\ asking.rest = 0 /\ asking.attempt = 0
  BY DEF Idle
<1> HIDE DEF asking
<1>5. RecordInv(Settled(asking))
  BY <1>3, <1>4, SettledInv DEF RecordInv
<1> QED
  BY <1>5, CallsStep DEF asking, result

LEMMA ReturnInv ==
  ASSUME CallsInv, NEW c \in Calls, NEW result \in Results, Return(c, result)
  PROVE  CallsInv'
<1>1. RecordInv(Settled([call[c] EXCEPT !.gateway = result]))
  BY ReturnedInv DEF CallsInv
<1> QED
  BY <1>1, CallsStep DEF Return

LEMMA WaitInv ==
  ASSUME CallsInv, NEW c \in Calls, Wait(c)
  PROVE  CallsInv'
<1>1. CASE GatewayExpires(c)
  BY <1>1, ReturnInv DEF GatewayExpires, Results
<1>2. CASE ClientLeaves(c)
  BY <1>2, ReturnInv DEF ClientLeaves, Results
<1>3. CASE ConnectionLost(c)
  <2>1. PICK result \in {"timeout", "unavailable", "invalid"} : Return(c, result)
    BY <1>3 DEF ConnectionLost
  <2> QED BY <2>1, ReturnInv DEF Results
<1>4. CASE TakeReply(c)
  <2> DEFINE answers == [q \in call[c].asked \cap DOMAIN call[c].body |-> call[c].body[q]]
             outcome == Outcome(call[c].reply, answers, call[c].asked)
             result == IF Waiting(c) THEN outcome ELSE call[c].gateway
  <2>1. call[c] \in CallType /\ RecordInv(call[c]) /\ call[c].work = "reply"
    BY <1>4 DEF CallsInv, TakeReply
  <2>2. /\ call[c].reply \in {"", "timeout", "canceled", "invalid_response", "unavailable", "broken"}
        /\ call[c].gateway \in {"idle", "sent"} \cup Results
    BY <2>1 DEF CallType
  <2>3. outcome \in Results
    BY <2>2, OutcomeType
  <2>4. result \in {"idle", "sent"} \cup Results
    BY <2>2, <2>3
  <2>5. call' = [call EXCEPT ![c] = Settled([call[c] EXCEPT !.work = "done", !.gateway = result])]
    BY <1>4 DEF TakeReply, Waiting
  <2> HIDE DEF result
  <2>6. RecordInv(Settled([call[c] EXCEPT !.work = "done", !.gateway = result]))
    BY <2>1, <2>4, TakenInv
  <2> QED
    BY <2>5, <2>6, CallsStep
<1> QED
  BY <1>1, <1>2, <1>3, <1>4 DEF Wait

LEMMA ReceivedIs ==
  ASSUME NEW left
  PROVE  /\ Received(left) \in {"live", "canceled", "expired"}
         /\ Received(left) = "live" => left # 0
         /\ Received(left) = "expired" => left = 0
         /\ Received(left) = "canceled" => process = "leaving"
BY DEF Received

\* A request that arrives makes its first attempt, or none if its deadline has passed.
LEMMA ArrivedInv ==
  ASSUME NEW record, RecordInv(record), record.work = "none", NEW conn \in Connections,
         record.conn = conn
  PROVE  LET arrived == [record EXCEPT !.context = Received(record.left)]
         IN /\ RecordInv(arrived)
            /\ RecordInv([Attempt(arrived) EXCEPT !.client = conn, !.interval = InitialBackoff])
<1> DEFINE context == Received(record.left)
           arrived == [record EXCEPT !.context = context]
           first == [Attempt(arrived) EXCEPT !.client = conn, !.interval = InitialBackoff]
<1>0. record \in CallType
  BY DEF RecordInv
<1>1. context \in {"live", "canceled", "expired"}
  BY ReceivedIs
<1>2. context = "live" => record.left > 0
  BY <1>0, ReceivedIs, Fields, Constants
<1> HIDE DEF context
<1>3. arrived \in CallType
  BY <1>0, <1>1 DEF CallType
<1>4. /\ arrived.work = "none" /\ arrived.context = context /\ arrived.left = record.left
      /\ arrived.attempt = 0 /\ arrived.rest = record.rest /\ arrived.sent = record.sent
      /\ arrived.conn = conn
  BY <1>0 DEF CallType, RecordInv
<1> HIDE DEF arrived
<1>5. RecordInv(arrived)
  BY <1>3, <1>4 DEF RecordInv
<1>6. Attempt(arrived) \in CallType
  BY <1>3, <1>4, AttemptType, Constants
<1>6a. /\ Attempt(arrived).work = "attempt" /\ Attempt(arrived).rest = 0
      /\ Attempt(arrived).context = arrived.context /\ Attempt(arrived).left = arrived.left
      /\ Attempt(arrived).conn = arrived.conn
  BY <1>3, <1>4, AttemptType, Constants
<1>7. InitialBackoff \in 0..MaxBackoff
  BY Constants
<1>8. first \in CallType
  <2>1. conn \in Connections \cup {NoConnection}
    OBVIOUS
  <2> DEFINE attempted == Attempt(arrived)
  <2>2. attempted \in CallType
    BY <1>6
  <2> HIDE DEF attempted
  <2>3. [attempted EXCEPT !.client = conn, !.interval = InitialBackoff] \in CallType
    BY <1>7, <2>1, <2>2 DEF CallType
  <2> QED
    BY <2>3 DEF attempted
<1>9. /\ first.work = "attempt" /\ first.rest = 0 /\ first.client = conn
      /\ first.context = context /\ first.left = record.left /\ first.conn = conn
  BY <1>4, <1>6, <1>6a DEF CallType
<1> HIDE DEF first
<1>10. RecordInv(first)
  BY <1>2, <1>8, <1>9 DEF RecordInv
<1> QED
  BY <1>5, <1>10 DEF first, arrived, context

LEMMA ArriveInv ==
  ASSUME CallsInv, NEW c \in Calls, Arrive(c)
  PROVE  CallsInv'
<1> DEFINE arrived == [call[c] EXCEPT !.context = Received(call[c].left)]
<1>1. RecordInv(call[c]) /\ call[c] \in CallType /\ call[c].work = "none"
  BY DEF CallsInv, Arrive
<1>2. call[c].conn \in Connections \cup {NoConnection}
  BY <1>1 DEF CallType
<1>3. CASE Complete(call[c].conn)
  <2>0. NoConnection.base = ""
    BY DEF NoConnection
  <2>1. call[c].conn \in Connections
    BY <1>2, <1>3, <2>0 DEF Complete
  <2>2. RecordInv([Attempt(arrived) EXCEPT !.client = call[c].conn, !.interval = InitialBackoff])
    BY <1>1, <2>1, ArrivedInv
  <2>3. call' = [call EXCEPT ![c] =
                   [Attempt(arrived) EXCEPT !.client = call[c].conn, !.interval = InitialBackoff]]
    BY <1>3 DEF Arrive
  <2> HIDE DEF arrived
  <2> QED
    BY <2>2, <2>3, CallsStep
<1>4. CASE ~Complete(call[c].conn)
  <2>0. call[c] \in CallType
    BY <1>1
  <2>1. arrived \in CallType
    <3> DEFINE context == Received(call[c].left)
    <3>1. context \in {"live", "canceled", "expired"}
      BY ReceivedIs
    <3> HIDE DEF context
    <3>2. [call[c] EXCEPT !.context = context] \in CallType
      BY <2>0, <3>1 DEF CallType
    <3> QED
      BY <3>2 DEF context
  <2>2. /\ arrived.work = "none" /\ arrived.attempt = call[c].attempt
        /\ arrived.rest = call[c].rest /\ arrived.sent = call[c].sent
    BY <1>1 DEF CallType
  <2>3. call' = [call EXCEPT ![c] =
                   Concluded([arrived EXCEPT !.fault = "config"], "unavailable", <<>>)]
    BY <1>4 DEF Arrive
  <2> HIDE DEF arrived
  <2>4. RecordInv(arrived)
    BY <1>1, <2>1, <2>2 DEF RecordInv
  <2>5. RecordInv([arrived EXCEPT !.fault = "config"])
    BY <2>4, FaultInv
  <2>6. RecordInv(Concluded([arrived EXCEPT !.fault = "config"], "unavailable", <<>>))
    BY <2>5, ConcludedInv
  <2> QED
    BY <2>3, <2>6, CallsStep
<1> QED
  BY <1>3, <1>4

LEMMA AttemptFailsInv ==
  ASSUME CallsInv, NEW c \in Calls,
         NEW err \in {"connection", "decode", "timeout", "context"},
         err = "context" => ~Live(c), AttemptFails(c, err)
  PROVE  CallsInv'
<1>1. RecordInv(call[c]) /\ call[c].work = "attempt"
  BY DEF CallsInv, AttemptFails
<1>2. CASE Live(c) /\ err # "decode" /\ MayRetry(call[c])
  <2> PICK wait \in Delays(call[c], NoRetryAfter) :
        call' = [call EXCEPT ![c] = Retry(call[c], NoRetryAfter, wait)]
    BY <1>2 DEF AttemptFails
  <2>1. RecordInv(Retry(call[c], NoRetryAfter, wait))
    BY <1>1, <1>2, RetryInv
  <2> QED
    BY <2>1, CallsStep
<1>3. CASE ~(Live(c) /\ err # "decode" /\ MayRetry(call[c]))
  <2> DEFINE fault == IF Live(c) THEN err ELSE call[c].fault
  <2>1. call' = [call EXCEPT ![c] = Failed([call[c] EXCEPT !.fault = fault], err)]
    BY <1>3 DEF AttemptFails
  <2>2. fault \in {"none", "connection", "timeout", "status", "decode", "config"}
    BY <1>1 DEF RecordInv, CallType
  <2> HIDE DEF fault
  <2>3. RecordInv(Failed([call[c] EXCEPT !.fault = fault], err))
    BY <1>1, <2>2, FaultInv, FailedInv
  <2> QED
    BY <2>1, <2>3, CallsStep
<1> QED
  BY <1>2, <1>3

LEMMA ServiceBusyInv ==
  ASSUME CallsInv, NEW c \in Calls, ServiceBusy(c)
  PROVE  CallsInv'
<1>1. RecordInv(call[c]) /\ call[c].work = "attempt"
  BY DEF CallsInv, ServiceBusy
<1> PICK after \in RetryAfters :
      IF MayRetry(call[c])
      THEN \E wait \in Delays(call[c], after) :
             call' = [call EXCEPT ![c] = Retry(call[c], after, wait)]
      ELSE call' = [call EXCEPT ![c] = Failed([call[c] EXCEPT !.fault = "status"], "status")]
  BY DEF ServiceBusy
<1>2. CASE MayRetry(call[c])
  <2> PICK wait \in Delays(call[c], after) :
        call' = [call EXCEPT ![c] = Retry(call[c], after, wait)]
    BY <1>2
  <2>1. RecordInv(Retry(call[c], after, wait))
    BY <1>1, <1>2, RetryInv
  <2> QED
    BY <2>1, CallsStep
<1>3. CASE ~MayRetry(call[c])
  <2>1. RecordInv(Failed([call[c] EXCEPT !.fault = "status"], "status"))
    BY <1>1, FaultInv, FailedInv
  <2> QED
    BY <1>3, <2>1, CallsStep
<1> QED
  BY <1>2, <1>3

LEMMA ServiceAnswersInv ==
  ASSUME CallsInv, NEW c \in Calls, ServiceAnswers(c)
  PROVE  CallsInv'
<1> PICK body \in Bodies :
      LET asked == call[c].asked
          seen == [call[c] EXCEPT !.fault =
                     IF Broken(body) \/ ~Matches(body, asked) THEN "decode" ELSE "none"]
      IN call' = [call EXCEPT ![c] =
                    IF Broken(body) THEN Failed(seen, "decode")
                    ELSE Concluded(seen, IF Matches(body, asked) THEN ""
                                         ELSE "invalid_response", body)]
  BY DEF ServiceAnswers
<1> DEFINE fault == IF Broken(body) \/ ~Matches(body, call[c].asked) THEN "decode" ELSE "none"
           seen == [call[c] EXCEPT !.fault = fault]
           category == IF Matches(body, call[c].asked) THEN "" ELSE "invalid_response"
<1>1. fault \in {"none", "connection", "timeout", "status", "decode", "config"}
  OBVIOUS
<1>2. category \in {"", "timeout", "canceled", "invalid_response", "unavailable"}
  OBVIOUS
<1>3. category = "" => Matches(body, call[c].asked)
  OBVIOUS
<1>4. call' = [call EXCEPT ![c] = IF Broken(body) THEN Failed(seen, "decode")
                                  ELSE Concluded(seen, category, body)]
  OBVIOUS
<1> HIDE DEF fault, category
<1>5. RecordInv(seen) /\ seen.asked = call[c].asked
  BY <1>1, FaultInv DEF CallsInv
<1> HIDE DEF seen
<1>6. RecordInv(Failed(seen, "decode"))
  BY <1>5, FailedInv
<1>7. RecordInv(Concluded(seen, category, body))
  BY <1>2, <1>3, <1>5, ConcludedInv
<1> QED
  BY <1>4, <1>6, <1>7, CallsStep

LEMMA WorkInv ==
  ASSUME CallsInv, NEW c \in Calls, Work(c)
  PROVE  CallsInv'
<1>1. CASE Arrive(c)
  BY <1>1, ArriveInv
<1>2. CASE ServiceAnswers(c)
  BY <1>2, ServiceAnswersInv
<1>3. CASE ServiceBusy(c)
  BY <1>3, ServiceBusyInv
<1>4. CASE ServiceRefuses(c)
  <2>1. RecordInv(Failed([call[c] EXCEPT !.fault = "status"], "status"))
    BY FaultInv, FailedInv DEF CallsInv
  <2> QED
    BY <1>4, <2>1, CallsStep DEF ServiceRefuses
<1>5. CASE Oversized(c)
  BY <1>5, AttemptFailsInv DEF Oversized
<1>6. CASE Unreachable(c)
  BY <1>6, AttemptFailsInv DEF Unreachable
<1>7. CASE AttemptExpires(c)
  BY <1>7, AttemptFailsInv DEF AttemptExpires
<1>8. CASE AttemptCut(c)
  BY <1>8, AttemptFailsInv DEF AttemptCut
<1>9. CASE Wake(c)
  <2>1. RecordInv(Attempt(call[c]))
    BY <1>9, AttemptInv DEF CallsInv, Wake
  <2> QED
    BY <1>9, <2>1, CallsStep DEF Wake
<1>10. CASE WaitCut(c)
  <2>1. RecordInv(Failed(call[c], "context"))
    BY FailedInv DEF CallsInv
  <2> QED
    BY <1>10, <2>1, CallsStep DEF WaitCut
<1>11. CASE ConnectionClosed(c)
  <2>1. RecordInv([call[c] EXCEPT !.context = "canceled"])
    BY CanceledInv DEF CallsInv
  <2>2. call' = [call EXCEPT ![c] = [call[c] EXCEPT !.context = "canceled"]]
    BY <1>11 DEF ConnectionClosed
  <2> QED
    BY <2>1, <2>2, CallsStep
<1> QED
  BY <1>1, <1>2, <1>3, <1>4, <1>5, <1>6, <1>7, <1>8, <1>9, <1>10, <1>11 DEF Work, Respond

-----------------------------------------------------------------------------
(***************************************************************************)
(* The actions of the process, of its owner and of time.                   *)
(***************************************************************************)

\* What is left of a call whose process has gone.
LEMMA DeadInv ==
  ASSUME NEW record, RecordInv(record)
  PROVE  RecordInv(Settled(Dead(record)))
<1> DEFINE failed == Failed(record, "status")
           dead == [failed EXCEPT !.work = "dead",
                                  !.reply = IF record.work = "reply" THEN "broken" ELSE @]
<1>1. RecordInv(failed) /\ failed.work = "reply"
  BY FailedInv
<1> HIDE DEF failed
<1>2. failed \in CallType
  BY <1>1 DEF RecordInv
<1>3. dead \in CallType
  <2> DEFINE reply == IF record.work = "reply" THEN "broken" ELSE failed.reply
  <2>1. reply \in {"", "timeout", "canceled", "invalid_response", "unavailable", "broken"}
    BY <1>2 DEF CallType
  <2>2. dead = [failed EXCEPT !.work = "dead", !.reply = reply]
    BY <1>2 DEF CallType
  <2> HIDE DEF reply, dead
  <2> QED BY <1>2, <2>1, <2>2 DEF CallType
<1>4. dead.work = "dead" /\ dead.rest = 0 /\ dead.attempt = 0 /\ dead.sent = FALSE
  BY <1>1, <1>2 DEF CallType, RecordInv
<1> HIDE DEF dead
<1>5. RecordInv(dead)
  BY <1>3, <1>4 DEF RecordInv
<1>6. RecordInv(Settled(dead))
  BY <1>5, SettledInv
<1> QED
  BY <1>6 DEF Dead, dead, failed

LEMMA VanishInv ==
  ASSUME CallsInv, call' = Vanish
  PROVE  CallsInv'
<1>1. ASSUME NEW c \in Calls PROVE RecordInv(Vanish[c])
  <2>1. RecordInv(Settled(Dead(call[c])))
    BY DeadInv DEF CallsInv
  <2> QED
    BY <2>1 DEF Vanish, CallsInv
<1>2. Vanish \in [Calls -> CallType]
  <2>1. \A c \in Calls : Vanish[c] \in CallType
    BY <1>1 DEF RecordInv
  <2> QED
    BY <2>1 DEF Vanish
<1> QED
  BY <1>1, <1>2 DEF CallsInv, RecordInv

LEMMA OwnerStep ==
  ASSUME OwnerType, CallsInv, Owner
  PROVE  OwnerType' /\ CallsInv'
<1>1. CASE Started
  BY <1>1 DEF Started, OwnerType, CallsInv, RecordInv
<1>2. CASE StartFails
  BY <1>2 DEF StartFails, OwnerType, CallsInv, RecordInv
<1>3. CASE Leave
  <2> DEFINE left == [c \in Calls |-> IF call[c].work \in {"attempt", "wait"} /\ Live(c)
                                      THEN [call[c] EXCEPT !.context = "canceled"] ELSE call[c]]
  <2>1. call' = left
    BY <1>3 DEF Leave
  <2>2. ASSUME NEW c \in Calls PROVE RecordInv(left[c])
    <3>1. RecordInv(call[c]) /\ RecordInv([call[c] EXCEPT !.context = "canceled"])
      BY CanceledInv DEF CallsInv
    <3> QED
      BY <3>1
  <2>3. left \in [Calls -> CallType]
    <3>1. \A c \in Calls : left[c] \in CallType
      BY <2>2 DEF RecordInv
    <3> QED
      BY <3>1
  <2>4. OwnerType'
    BY <1>3 DEF Leave, OwnerType
  <2> HIDE DEF left
  <2> QED
    BY <2>1, <2>2, <2>3, <2>4 DEF CallsInv, RecordInv
<1>4. CASE Exit
  BY <1>4, VanishInv DEF Exit, OwnerType
<1>5. CASE Crash
  BY <1>5, VanishInv DEF Crash, OwnerType
<1>6. CASE Notice
  BY <1>6 DEF Notice, OwnerType, CallsInv, RecordInv
<1>7. CASE Stop
  BY <1>7 DEF Stop, OwnerType, CallsInv, RecordInv
<1>8. CASE CloseBegin
  <2>1. CloseGrace \in 0..CloseGrace
    BY Constants
  <2> QED
    BY <1>8, <2>1 DEF CloseBegin, OwnerType, CallsInv, RecordInv
<1>9. CASE CloseKills
  BY <1>9, VanishInv DEF CloseKills, OwnerType
<1>10. CASE CloseEnds
  <2>1. 0 \in 0..CloseGrace
    BY Constants
  <2> QED
    BY <1>10, <2>1 DEF CloseEnds, OwnerType, CallsInv, RecordInv
<1> QED
  BY <1>1, <1>2, <1>3, <1>4, <1>5, <1>6, <1>7, <1>8, <1>9, <1>10 DEF Owner

LEMMA TickStep ==
  ASSUME OwnerType, CallsInv, Tick
  PROVE  OwnerType' /\ CallsInv'
<1>1. Down(grace) \in 0..CloseGrace
  BY Constants DEF OwnerType, Down
<1>2. OwnerType'
  BY <1>1 DEF Tick, OwnerType
<1>3. \A c \in Calls : RecordInv(Elapse(call[c]))
  BY ElapseInv DEF CallsInv
<1>4. \A c \in Calls : Elapse(call[c]) \in CallType
  BY <1>3 DEF RecordInv
<1>5. call' = [c \in Calls |-> Elapse(call[c])]
  BY DEF Tick
<1>6. CallsInv'
  BY <1>3, <1>4, <1>5 DEF CallsInv, RecordInv
<1> QED
  BY <1>2, <1>6

\* The actions of a call leave the owner's part alone, but for the cached client.
LEMMA CallOwner ==
  ASSUME OwnerType, CallsInv, NEW c \in Calls, Ask(c) \/ Wait(c) \/ Work(c)
  PROVE  OwnerType'
<1>1. call[c].conn \in Connections \cup {NoConnection}
  BY DEF CallsInv, CallType
<1>2. UNCHANGED owned /\ cached' \in {cached, call[c].conn}
  <2>1. CASE Ask(c)
    BY <2>1 DEF Ask
  <2>2. CASE Wait(c)
    BY <2>2 DEF Wait, GatewayExpires, ClientLeaves, ConnectionLost, TakeReply
  <2>3. CASE Work(c)
    <3>1. CASE Arrive(c)
      BY <3>1 DEF Arrive
    <3>2. CASE Respond(c)
      BY <3>2 DEF Respond, ServiceAnswers, ServiceBusy, ServiceRefuses, Oversized, AttemptFails
    <3>3. CASE Unreachable(c) \/ AttemptExpires(c) \/ AttemptCut(c)
      BY <3>3 DEF Unreachable, AttemptExpires, AttemptCut, AttemptFails
    <3>4. CASE Wake(c) \/ WaitCut(c) \/ ConnectionClosed(c)
      BY <3>4 DEF Wake, WaitCut, ConnectionClosed
    <3> QED
      BY <2>3, <3>1, <3>2, <3>3, <3>4 DEF Work
  <2> QED
    BY <2>1, <2>2, <2>3
<1> QED
  BY <1>1, <1>2 DEF owned, OwnerType

-----------------------------------------------------------------------------
(***************************************************************************)
(* The invariant and what follows from it.                                 *)
(***************************************************************************)

LEMMA InitInv == Init => IInv
<1> SUFFICES ASSUME Init PROVE IInv
  OBVIOUS
<1>0. 0 \in 0..CloseGrace
  BY Constants
<1>1. OwnerType
  BY <1>0 DEF Init, OwnerType
<1>2. Idle \in CallType /\ RecordInv(Idle)
  BY IdleInv DEF RecordInv
<1>3. CallsInv
  BY <1>2 DEF Init, CallsInv
<1> QED
  BY <1>1, <1>3 DEF IInv

LEMMA NextInv == IInv /\ [Next]_vars => IInv'
<1> SUFFICES ASSUME IInv, [Next]_vars PROVE IInv'
  OBVIOUS
<1> USE DEF IInv
<1>1. CASE Tick
  BY <1>1, TickStep
<1>2. CASE Owner
  BY <1>2, OwnerStep
<1>3. CASE \E c \in Calls : Ask(c) \/ Wait(c) \/ Work(c)
  BY <1>3, AskInv, WaitInv, WorkInv, CallOwner
<1>4. CASE UNCHANGED vars
  BY <1>4 DEF vars, OwnerType, CallsInv, RecordInv
<1> QED
  BY <1>1, <1>2, <1>3, <1>4 DEF Next

LEMMA Invariant == Spec => []IInv
  BY InitInv, NextInv, PTL DEF Spec

\* The types of TypeOK: in particular no call ever makes more than MaxRetries
\* attempts after its first, whatever the service, the network and the deadlines do.
THEOREM TypeCorrect == Spec => []TypeOK
<1>1. IInv => TypeOK
  BY DEF IInv, OwnerType, CallsInv, TypeOK
<1> QED
  BY <1>1, Invariant, PTL

\* Every request goes out with the client of the connection its own call carried,
\* however many calls with other connections share the one cached client.
THEOREM ConnectionCorrect == Spec => []OwnConnection
<1>1. IInv => OwnConnection
  BY DEF IInv, CallsInv, RecordInv, OwnConnection
<1> QED
  BY <1>1, Invariant, PTL

-----------------------------------------------------------------------------
(***************************************************************************)
(* What a step may do to a call.                                           *)
(***************************************************************************)

\* A request is sent before the deadline, a retry after the rest it was told to
\* take, and answers are taken that answer exactly what was asked.
MayBecome(old, new) ==
  /\ ~old.sent /\ new.sent => old.left > 0
  /\ old.work = "wait" /\ new.work = "attempt" => old.rest = 0
  /\ old.gateway = "sent" /\ new.gateway = "answers" =>
       /\ Decoded(old.body) = old.asked
       /\ \A q \in old.asked : old.body[q] = Type[q]

\* Nothing is sent, tried again or returned.
Quiet(old, new) ==
  /\ new.gateway = old.gateway
  /\ new.sent => old.sent
  /\ new.work = "attempt" => old.work = "attempt"

CallsMayBecome == \A c \in Calls : MayBecome(call[c], call'[c])

LEMMA QuietMay ==
  ASSUME NEW old, NEW new, Quiet(old, new)
  PROVE  MayBecome(old, new)
  BY DEF Quiet, MayBecome

LEMMA OneMay ==
  ASSUME CallsInv, NEW c \in Calls, NEW record, MayBecome(call[c], record),
         call' = [call EXCEPT ![c] = record]
  PROVE  CallsMayBecome
<1>1. \A d \in Calls : call'[d] = IF d = c THEN record ELSE call[d]
  BY DEF CallsInv
<1>2. ASSUME NEW d \in Calls PROVE MayBecome(call[d], call'[d])
  BY <1>1 DEF MayBecome
<1> QED
  BY <1>2 DEF CallsMayBecome

LEMMA SettledQuiet ==
  ASSUME NEW record
  PROVE  /\ Settled(record).gateway = record.gateway
         /\ Settled(record).work = record.work
         /\ Settled(record).sent => record.sent
  BY DEF Settled, Idle

LEMMA FailedQuiet ==
  ASSUME NEW record \in CallType, NEW err
  PROVE  Quiet(record, Failed(record, err))
  BY DEF Quiet, Failed, Concluded, CallType

LEMMA FaultQuiet ==
  ASSUME NEW record \in CallType, NEW fault, NEW err
  PROVE  Quiet(record, Failed([record EXCEPT !.fault = fault], err))
  BY DEF Quiet, Failed, Concluded, CallType

LEMMA ConcludedQuiet ==
  ASSUME NEW record \in CallType, NEW fault, NEW category, NEW body
  PROVE  Quiet(record, Concluded([record EXCEPT !.fault = fault], category, body))
  BY DEF Quiet, Concluded, CallType

LEMMA RetryQuiet ==
  ASSUME NEW record \in CallType, NEW after, NEW wait
  PROVE  Quiet(record, Retry(record, after, wait))
  BY DEF Quiet, Retry, CallType

LEMMA CanceledQuiet ==
  ASSUME NEW record \in CallType
  PROVE  Quiet(record, [record EXCEPT !.context = "canceled"])
  BY DEF Quiet, CallType

LEMMA ElapseQuiet ==
  ASSUME NEW record \in CallType
  PROVE  Quiet(record, Elapse(record))
  BY DEF Quiet, Elapse, CallType

LEMMA AskMay ==
  ASSUME CallsInv, NEW c \in Calls, Ask(c)
  PROVE  CallsMayBecome
<1> PICK conn \in Connections, asked \in Asks :
      call' = [call EXCEPT ![c] = Settled(
                 [Idle EXCEPT !.gateway = IF noticed THEN "unavailable" ELSE "sent",
                              !.conn = conn, !.asked = asked, !.left = CallTimeout])]
  BY DEF Ask
<1> DEFINE result == IF noticed THEN "unavailable" ELSE "sent"
           asking == [Idle EXCEPT !.gateway = result, !.conn = conn, !.asked = asked,
                                  !.left = CallTimeout]
<1>1. asking.work = "none" /\ asking.sent = FALSE
  BY DEF Idle
<1>2. call[c].gateway = "idle"
  BY DEF Ask
<1> HIDE DEF asking
<1>3. MayBecome(call[c], Settled(asking))
  BY <1>1, <1>2, SettledQuiet DEF MayBecome
<1> QED
  BY <1>3, OneMay DEF asking, result

LEMMA ReturnMay ==
  ASSUME CallsInv, NEW c \in Calls, NEW result, result # "answers", Return(c, result)
  PROVE  CallsMayBecome
<1> DEFINE returned == [call[c] EXCEPT !.gateway = result]
<1>1. call[c] \in CallType /\ call' = [call EXCEPT ![c] = Settled(returned)]
  BY DEF CallsInv, Return
<1>2. returned.gateway = result /\ returned.work = call[c].work /\ returned.sent = call[c].sent
  BY <1>1 DEF CallType
<1> HIDE DEF returned
<1>3. MayBecome(call[c], Settled(returned))
  BY <1>2, SettledQuiet DEF MayBecome
<1> QED
  BY <1>1, <1>3, OneMay

\* The gateway checks what the process leaves it: the two checks together are exact.
LEMMA TakeReplyMay ==
  ASSUME CallsInv, NEW c \in Calls, TakeReply(c)
  PROVE  CallsMayBecome
<1> DEFINE asked == call[c].asked
           body == call[c].body
           answers == [q \in asked \cap DOMAIN body |-> body[q]]
           result == IF Waiting(c) THEN Outcome(call[c].reply, answers, asked)
                     ELSE call[c].gateway
           taken == [call[c] EXCEPT !.work = "done", !.gateway = result]
<1>1. RecordInv(call[c]) /\ call[c] \in CallType /\ call[c].work = "reply"
  BY DEF CallsInv, TakeReply
<1>2. call' = [call EXCEPT ![c] = Settled(taken)]
  BY DEF TakeReply
<1>3. taken.gateway = result /\ taken.work = "done" /\ taken.sent = call[c].sent
  BY <1>1 DEF CallType
<1>4. ASSUME Waiting(c), result = "answers"
      PROVE  /\ Decoded(body) = asked
             /\ \A q \in asked : body[q] = Type[q]
  <2>1. call[c].reply = "" /\ ValidAnswers(answers, asked)
    BY <1>4 DEF Outcome
  <2>2. Decoded(body) = asked /\ DOMAIN body = asked
    BY <1>1, <1>4, <2>1 DEF RecordInv, Waiting
  <2>3. ASSUME NEW q \in asked PROVE body[q] = Type[q]
    <3>1. answers[q] = body[q]
      BY <2>2
    <3> QED
      BY <2>1, <3>1 DEF ValidAnswers, RightType
  <2> QED
    BY <2>2, <2>3
<1> HIDE DEF taken, result, answers
<1>5. MayBecome(call[c], Settled(taken))
  BY <1>3, <1>4, SettledQuiet DEF MayBecome, Waiting
<1> QED
  BY <1>2, <1>5, OneMay

LEMMA WaitMay ==
  ASSUME CallsInv, NEW c \in Calls, Wait(c)
  PROVE  CallsMayBecome
<1>1. CASE GatewayExpires(c)
  BY <1>1, ReturnMay DEF GatewayExpires
<1>2. CASE ClientLeaves(c)
  BY <1>2, ReturnMay DEF ClientLeaves
<1>3. CASE ConnectionLost(c)
  <2>1. PICK result \in {"timeout", "unavailable", "invalid"} : Return(c, result)
    BY <1>3 DEF ConnectionLost
  <2> QED BY <2>1, ReturnMay
<1>4. CASE TakeReply(c)
  BY <1>4, TakeReplyMay
<1> QED
  BY <1>1, <1>2, <1>3, <1>4 DEF Wait

LEMMA AttemptSends ==
  ASSUME NEW record \in CallType
  PROVE  /\ Attempt(record).sent => record.context = "live"
         /\ Attempt(record).gateway = record.gateway
  BY DEF Attempt, CallType

LEMMA ArriveMay ==
  ASSUME CallsInv, NEW c \in Calls, Arrive(c)
  PROVE  CallsMayBecome
<1> DEFINE context == Received(call[c].left)
           arrived == [call[c] EXCEPT !.context = context]
<1>1. call[c] \in CallType /\ call[c].work = "none"
  BY DEF CallsInv, Arrive
<1>2. context \in {"live", "canceled", "expired"}
  BY ReceivedIs
<1>3. context = "live" => call[c].left > 0
  BY <1>1, ReceivedIs, Fields, Constants
<1> HIDE DEF context
<1>4. arrived \in CallType
  BY <1>1, <1>2 DEF CallType
<1>5. /\ arrived.context = context /\ arrived.gateway = call[c].gateway
      /\ arrived.sent = call[c].sent
  BY <1>1 DEF CallType
<1>6. CASE Complete(call[c].conn)
  <2> DEFINE attempted == Attempt(arrived)
             first == [attempted EXCEPT !.client = call[c].conn, !.interval = InitialBackoff]
  <2>1. call' = [call EXCEPT ![c] = first]
    BY <1>6 DEF Arrive, context
  <2> HIDE DEF arrived
  <2>2. /\ attempted.gateway = call[c].gateway
        /\ attempted.sent => call[c].left > 0
    BY <1>3, <1>4, <1>5, AttemptSends
  <2>3. first.gateway = attempted.gateway /\ first.sent = attempted.sent
    BY <1>4 DEF Attempt, CallType
  <2> HIDE DEF attempted, first
  <2>4. MayBecome(call[c], first)
    BY <1>1, <2>2, <2>3 DEF MayBecome
  <2> QED
    BY <2>1, <2>4, OneMay
<1>7. CASE ~Complete(call[c].conn)
  <2> DEFINE concluded == Concluded([arrived EXCEPT !.fault = "config"], "unavailable", <<>>)
  <2>1. call' = [call EXCEPT ![c] = concluded]
    BY <1>7 DEF Arrive, context
  <2> HIDE DEF arrived
  <2>2. Quiet(arrived, concluded)
    BY <1>4, ConcludedQuiet
  <2>3. concluded.work = "reply"
    BY <1>4 DEF Concluded, CallType
  <2> HIDE DEF concluded
  <2>4. MayBecome(call[c], concluded)
    BY <1>1, <1>5, <2>2, <2>3 DEF MayBecome, Quiet
  <2> QED
    BY <2>1, <2>4, OneMay
<1> QED
  BY <1>6, <1>7

LEMMA WakeMay ==
  ASSUME CallsInv, NEW c \in Calls, Wake(c)
  PROVE  CallsMayBecome
<1>1. RecordInv(call[c]) /\ call[c].work = "wait" /\ call[c].wait = 0
  BY DEF CallsInv, Wake
<1>2. call[c] \in CallType
  BY <1>1 DEF RecordInv
<1>3. call[c].rest = 0
  BY <1>1, <1>2, Fields, Constants DEF RecordInv
<1>4. MayBecome(call[c], Attempt(call[c]))
  BY <1>1, <1>2, <1>3, AttemptSends DEF MayBecome, RecordInv
<1> QED
  BY <1>4, OneMay DEF Wake

LEMMA AttemptFailsMay ==
  ASSUME CallsInv, NEW c \in Calls, NEW err, AttemptFails(c, err)
  PROVE  CallsMayBecome
<1>1. call[c] \in CallType
  BY DEF CallsInv
<1> DEFINE fault == IF Live(c) THEN err ELSE call[c].fault
<1>2. \/ \E wait : call' = [call EXCEPT ![c] = Retry(call[c], NoRetryAfter, wait)]
      \/ call' = [call EXCEPT ![c] = Failed([call[c] EXCEPT !.fault = fault], err)]
  BY DEF AttemptFails
<1> HIDE DEF fault
<1> QED
  BY <1>1, <1>2, RetryQuiet, FaultQuiet, QuietMay, OneMay

LEMMA RespondMay ==
  ASSUME CallsInv, NEW c \in Calls, Respond(c)
  PROVE  CallsMayBecome
<1>1. call[c] \in CallType
  BY DEF CallsInv
<1>2. CASE ServiceAnswers(c)
  <2> PICK body \in Bodies :
        LET asked == call[c].asked
            seen == [call[c] EXCEPT !.fault =
                       IF Broken(body) \/ ~Matches(body, asked) THEN "decode" ELSE "none"]
        IN call' = [call EXCEPT ![c] =
                      IF Broken(body) THEN Failed(seen, "decode")
                      ELSE Concluded(seen, IF Matches(body, asked) THEN ""
                                           ELSE "invalid_response", body)]
    BY <1>2 DEF ServiceAnswers
  <2> DEFINE fault == IF Broken(body) \/ ~Matches(body, call[c].asked) THEN "decode" ELSE "none"
             category == IF Matches(body, call[c].asked) THEN "" ELSE "invalid_response"
  <2>1. \/ call' = [call EXCEPT ![c] = Failed([call[c] EXCEPT !.fault = fault], "decode")]
        \/ call' = [call EXCEPT ![c] =
                      Concluded([call[c] EXCEPT !.fault = fault], category, body)]
    OBVIOUS
  <2> HIDE DEF fault, category
  <2>2. MayBecome(call[c], Failed([call[c] EXCEPT !.fault = fault], "decode"))
    BY <1>1, FaultQuiet, QuietMay
  <2>3. MayBecome(call[c], Concluded([call[c] EXCEPT !.fault = fault], category, body))
    BY <1>1, ConcludedQuiet, QuietMay
  <2> QED
    BY <2>1, <2>2, <2>3, OneMay
<1>3. CASE ServiceBusy(c)
  <2>1. \/ \E after, wait : call' = [call EXCEPT ![c] = Retry(call[c], after, wait)]
        \/ call' = [call EXCEPT ![c] = Failed([call[c] EXCEPT !.fault = "status"], "status")]
    BY <1>3 DEF ServiceBusy
  <2> QED
    BY <1>1, <2>1, RetryQuiet, FaultQuiet, QuietMay, OneMay
<1>4. CASE ServiceRefuses(c)
  BY <1>1, <1>4, FaultQuiet, QuietMay, OneMay DEF ServiceRefuses
<1>5. CASE Oversized(c)
  BY <1>5, AttemptFailsMay DEF Oversized
<1> QED
  BY <1>2, <1>3, <1>4, <1>5 DEF Respond

LEMMA WorkMay ==
  ASSUME CallsInv, NEW c \in Calls, Work(c)
  PROVE  CallsMayBecome
<1>1. call[c] \in CallType
  BY DEF CallsInv
<1>2. CASE Unreachable(c) \/ AttemptExpires(c) \/ AttemptCut(c)
  BY <1>2, AttemptFailsMay DEF Unreachable, AttemptExpires, AttemptCut
<1>3. CASE WaitCut(c)
  BY <1>1, <1>3, FailedQuiet, QuietMay, OneMay DEF WaitCut
<1>4. CASE ConnectionClosed(c)
  <2>1. call' = [call EXCEPT ![c] = [call[c] EXCEPT !.context = "canceled"]]
    BY <1>4 DEF ConnectionClosed
  <2> QED
    BY <1>1, <2>1, CanceledQuiet, QuietMay, OneMay
<1> QED
  BY <1>2, <1>3, <1>4, ArriveMay, RespondMay, WakeMay DEF Work

LEMMA VanishMay ==
  ASSUME CallsInv, call' = Vanish
  PROVE  CallsMayBecome
<1>1. ASSUME NEW c \in Calls PROVE MayBecome(call[c], call'[c])
  <2> DEFINE failed == Failed(call[c], "status")
             dead == [failed EXCEPT !.work = "dead",
                        !.reply = IF call[c].work = "reply" THEN "broken" ELSE @]
  <2>1. call[c] \in CallType
    BY DEF CallsInv
  <2>2. Quiet(call[c], failed)
    BY <2>1, FailedQuiet
  <2>3. dead.gateway = failed.gateway /\ dead.sent = failed.sent /\ dead.work = "dead"
    BY <2>1 DEF Failed, Concluded, CallType
  <2>4. call'[c] = call[c] \/ call'[c] = Settled(dead)
    BY DEF Vanish, Dead
  <2> HIDE DEF failed, dead
  <2>5. MayBecome(call[c], Settled(dead))
    BY <2>2, <2>3, SettledQuiet DEF MayBecome, Quiet
  <2> QED
    BY <2>4, <2>5 DEF MayBecome
<1> QED
  BY <1>1 DEF CallsMayBecome

LEMMA NextMay ==
  ASSUME IInv, Next
  PROVE  CallsMayBecome
<1>0. CallsInv
  BY DEF IInv
<1>1. CASE Tick
  <2>1. \A c \in Calls : call'[c] = Elapse(call[c])
    BY <1>1 DEF Tick
  <2> QED
    BY <1>0, <2>1, ElapseQuiet, QuietMay DEF CallsInv, CallsMayBecome
<1>2. CASE Owner
  <2>1. CASE UNCHANGED call
    BY <2>1 DEF CallsMayBecome, MayBecome
  <2>2. CASE call' = Vanish
    BY <1>0, <2>2, VanishMay
  <2>3. CASE Leave
    <3>1. \A c \in Calls : \/ call'[c] = call[c]
                           \/ call'[c] = [call[c] EXCEPT !.context = "canceled"]
      BY <2>3 DEF Leave
    <3>2. ASSUME NEW c \in Calls PROVE MayBecome(call[c], call'[c])
      <4>1. MayBecome(call[c], [call[c] EXCEPT !.context = "canceled"])
        BY <1>0, CanceledQuiet, QuietMay DEF CallsInv
      <4>2. MayBecome(call[c], call[c])
        BY DEF MayBecome
      <4> QED
        BY <3>1, <4>1, <4>2
    <3> QED
      BY <3>2 DEF CallsMayBecome
  <2> QED
    BY <1>2, <2>1, <2>2, <2>3
       DEF Owner, Started, StartFails, Exit, Crash, Notice, Stop, CloseBegin, CloseKills, CloseEnds
<1>3. CASE \E c \in Calls : Ask(c) \/ Wait(c) \/ Work(c)
  BY <1>0, <1>3, AskMay, WaitMay, WorkMay
<1> QED
  BY <1>1, <1>2, <1>3 DEF Next

\* No request reaches the service once the deadline its call carried has passed.
THEOREM DeadlineCorrect == Spec => DeadlineHeld
<1>1. IInv /\ [Next]_vars =>
        [\A c \in Calls : ~call[c].sent /\ call'[c].sent => call[c].left > 0]_vars
  BY NextMay DEF CallsMayBecome, MayBecome
<1> QED
  BY <1>1, Invariant, PTL DEF Spec, DeadlineHeld

\* A Retry-After the policy allows is waited out before the next attempt.
THEOREM RetryAfterCorrect == Spec => RetryAfterHonoured
<1>1. IInv /\ [Next]_vars =>
        [\A c \in Calls :
           call[c].work = "wait" /\ call'[c].work = "attempt" => call[c].rest = 0]_vars
  BY NextMay DEF CallsMayBecome, MayBecome
<1> QED
  BY <1>1, Invariant, PTL DEF Spec, RetryAfterHonoured

\* Answers the gateway takes are those of a body that answered each question it
\* asked, in its type and range, and nothing else it could read.
THEOREM AnswersCorrect == Spec => AnswersAreExact
<1>1. IInv /\ [Next]_vars =>
        [\A c \in Calls :
           Waiting(c) /\ call'[c].gateway = "answers" =>
             LET body == call[c].body
             IN /\ Decoded(body) = call[c].asked
                /\ \A q \in call[c].asked : body[q] = Type[q]]_vars
  BY NextMay DEF CallsMayBecome, MayBecome, Waiting
<1> QED
  BY <1>1, Invariant, PTL DEF Spec, AnswersAreExact

-----------------------------------------------------------------------------
(***************************************************************************)
(* What the gateway is told.                                               *)
(***************************************************************************)

\* What a reply says went wrong is what the leg met; an expired context has met the
\* deadline of its call.
Truthful(record) ==
  /\ record.context = "expired" => record.left = 0
  /\ record.work = "reply" =>
       /\ record.reply # "broken"
       /\ record.reply = "timeout" => record.left = 0 \/ record.fault = "timeout"
       /\ record.reply = "canceled" => record.context = "canceled"
       /\ record.reply = "invalid_response" => record.fault = "decode"
       /\ record.reply = "unavailable" => record.fault \in {"connection", "status", "config"}

\* The leg of a gateway that waits was told to stop.
Forsaken(record) == record.gateway = "sent" /\ record.context = "canceled"

Dying == process \in {"leaving", "gone"}

HonestInv == \A c \in Calls : Truthful(call[c]) /\ (Forsaken(call[c]) => Dying)

\* A step of the process or of time: the gateway's leg stays where it is.
Same(old, new) ==
  /\ new.gateway = old.gateway
  /\ new.context = "canceled" => old.context = "canceled"

\* What a step does to a call.
Honest(c) ==
  /\ Truthful(call'[c])
  /\ Forsaken(call'[c]) => Forsaken(call[c]) \/ Dying'
  /\ Waiting(c) /\ call'[c].gateway # "sent" => Justified(c, call'[c].gateway)

AllHonest == \A c \in Calls : Honest(c)

LEMMA SameHonest ==
  ASSUME NEW c, Truthful(call'[c]), Same(call[c], call'[c])
  PROVE  Honest(c)
BY DEF Honest, Same, Forsaken, Waiting

LEMMA OneHonest ==
  ASSUME CallsInv, HonestInv, NEW c \in Calls, NEW record,
         call' = [call EXCEPT ![c] = record], Truthful(record),
         Forsaken(record) => Forsaken(call[c]) \/ Dying',
         Waiting(c) /\ record.gateway # "sent" => Justified(c, record.gateway)
  PROVE  AllHonest
<1>1. \A d \in Calls : call'[d] = IF d = c THEN record ELSE call[d]
  BY DEF CallsInv
<1>2. ASSUME NEW d \in Calls PROVE Honest(d)
  <2>1. CASE d = c
    BY <1>1, <2>1 DEF Honest
  <2>2. CASE d # c
    <3>1. call'[d] = call[d] /\ Truthful(call[d])
      BY <1>1, <2>2 DEF HonestInv
    <3> QED BY <3>1, SameHonest DEF Same
  <2> QED BY <2>1, <2>2
<1> QED BY <1>2 DEF AllHonest

LEMMA OneSame ==
  ASSUME CallsInv, HonestInv, NEW c \in Calls, NEW record,
         call' = [call EXCEPT ![c] = record], Truthful(record), Same(call[c], record)
  PROVE  AllHonest
BY OneHonest DEF Same, Forsaken, Waiting

LEMMA SettledTruthful ==
  ASSUME NEW record, Truthful(record)
  PROVE  /\ Truthful(Settled(record))
         /\ Settled(record).gateway = record.gateway /\ Settled(record).work = record.work
         /\ Settled(record).context = "canceled" => record.context = "canceled"
<1>1. CASE record.gateway # "sent" /\ record.work \in {"none", "done", "dead"}
  <2>1. Settled(record) = [Idle EXCEPT !.gateway = record.gateway, !.work = record.work]
    BY <1>1 DEF Settled
  <2>2. /\ Settled(record).gateway = record.gateway /\ Settled(record).work = record.work
        /\ Settled(record).context = "live"
    BY <2>1 DEF Idle
  <2> QED BY <1>1, <2>2 DEF Truthful
<1>2. CASE ~(record.gateway # "sent" /\ record.work \in {"none", "done", "dead"})
  BY <1>2 DEF Settled
<1> QED BY <1>1, <1>2

\* A record that is not a reply has only its context to answer for.
LEMMA WorkingTruthful ==
  ASSUME NEW old, NEW new, Truthful(old), new.work # "reply",
         new.context \in {old.context, "live", "canceled"}, new.left = old.left
  PROVE  Truthful(new)
BY DEF Truthful

LEMMA ElapsedTruthful ==
  ASSUME NEW record \in CallType, Truthful(record)
  PROVE  Truthful(Elapse(record)) /\ Same(record, Elapse(record))
<1>1. PICK e : e = Elapse(record)
  OBVIOUS
<1>2. /\ e.left = Down(record.left) /\ e.gateway = record.gateway /\ e.work = record.work
      /\ e.reply = record.reply /\ e.fault = record.fault
      /\ e.context = IF record.left = 1 /\ record.context = "live" /\ record.work \in {"attempt", "wait"}
                     THEN "expired" ELSE record.context
  BY <1>1 DEF Elapse, CallType
<1>3. (record.left \in {0, 1}) => e.left = 0
  BY <1>2 DEF Down
<1> QED BY <1>1, <1>2, <1>3 DEF Truthful, Same

LEMMA ConcludedTruthful ==
  ASSUME NEW record \in CallType, Truthful(record), NEW category, NEW body,
         category # "broken",
         category = "timeout" => record.left = 0 \/ record.fault = "timeout",
         category = "canceled" => record.context = "canceled",
         category = "invalid_response" => record.fault = "decode",
         category = "unavailable" => record.fault \in {"connection", "status", "config"}
  PROVE  Truthful(Concluded(record, category, body)) /\ Same(record, Concluded(record, category, body))
<1>1. PICK e : e = Concluded(record, category, body)
  OBVIOUS
<1>2. /\ e.left = record.left /\ e.gateway = record.gateway /\ e.work = "reply"
      /\ e.reply = category /\ e.fault = record.fault /\ e.context = record.context
  BY <1>1 DEF Concluded, CallType
<1> QED BY <1>1, <1>2 DEF Truthful, Same

\* The error the leg ends with, in a live context, is the one that was noted.
LEMMA FailedTruthful ==
  ASSUME NEW record \in CallType, Truthful(record), NEW err,
         record.context = "live" => /\ err = "timeout" => record.fault = "timeout"
                                    /\ err = "decode" => record.fault = "decode"
                                    /\ err \notin {"timeout", "decode"} =>
                                         record.fault \in {"connection", "status", "config"}
  PROVE  Truthful(Failed(record, err)) /\ Same(record, Failed(record, err))
<1>1. PICK category : category = Category(record.context, err)
  OBVIOUS
<1>2. record.context \in {"live", "canceled", "expired"}
  BY DEF CallType
<1>3. /\ category # "broken"
      /\ category = "timeout" => record.left = 0 \/ record.fault = "timeout"
      /\ category = "canceled" => record.context = "canceled"
      /\ category = "invalid_response" => record.fault = "decode"
      /\ category = "unavailable" => record.fault \in {"connection", "status", "config"}
  BY <1>1, <1>2 DEF Category, Truthful
<1> QED BY <1>1, <1>3, ConcludedTruthful DEF Failed

LEMMA FaultTruthful ==
  ASSUME NEW record \in CallType, Truthful(record), record.work # "reply",
         NEW fault \in {"none", "connection", "timeout", "status", "decode", "config"}
  PROVE  LET seen == [record EXCEPT !.fault = fault]
         IN /\ Truthful(seen) /\ seen \in CallType
            /\ seen.fault = fault /\ seen.context = record.context /\ seen.gateway = record.gateway
            /\ seen.asked = record.asked /\ seen.left = record.left
<1>1. PICK e : e = [record EXCEPT !.fault = fault]
  OBVIOUS
<1>2. /\ e.fault = fault /\ e.left = record.left /\ e.context = record.context
      /\ e.work = record.work /\ e.gateway = record.gateway /\ e.asked = record.asked
  BY <1>1 DEF CallType
<1>3. Truthful(e)
  BY <1>2 DEF Truthful
<1>4. e \in CallType
  BY <1>1 DEF CallType
<1> QED BY <1>1, <1>2, <1>3, <1>4

-----------------------------------------------------------------------------
(***************************************************************************)
(* The gateway's leg.                                                      *)
(***************************************************************************)

LEMMA ReturnHonest ==
  ASSUME CallsInv, HonestInv, NEW c \in Calls, NEW result, result # "sent", Return(c, result),
         Waiting(c) => Justified(c, result)
  PROVE  AllHonest
<1>1. PICK returned : returned = [call[c] EXCEPT !.gateway = result]
  OBVIOUS
<1>2. call[c] \in CallType /\ call' = [call EXCEPT ![c] = Settled(returned)]
  BY <1>1 DEF CallsInv, Return
<1>3. /\ returned.gateway = result /\ returned.work = call[c].work /\ returned.reply = call[c].reply
      /\ returned.left = call[c].left /\ returned.context = call[c].context
      /\ returned.fault = call[c].fault
  BY <1>1, <1>2 DEF CallType
<1>4. Truthful(returned)
  BY <1>3 DEF Truthful, HonestInv
<1>5. Truthful(Settled(returned)) /\ Settled(returned).gateway = result
  BY <1>3, <1>4, SettledTruthful
<1> QED BY <1>2, <1>5, OneHonest DEF Forsaken

\* A client that leaves changes nothing but the gateway's leg.
LEMMA LeavesWork ==
  ASSUME CallsInv, NEW c \in Calls, NEW result, Return(c, result)
  PROVE  call'[c].work = call[c].work
<1>1. PICK returned : returned = [call[c] EXCEPT !.gateway = result]
  OBVIOUS
<1>2. call[c] \in CallType /\ call'[c] = Settled(returned)
  BY <1>1 DEF CallsInv, Return
<1>3. returned.work = call[c].work
  BY <1>1, <1>2 DEF CallType
<1> QED BY <1>2, <1>3, SettledQuiet

LEMMA AskHonest ==
  ASSUME CallsInv, HonestInv, NEW c \in Calls, Ask(c)
  PROVE  AllHonest
<1>1. PICK conn \in Connections, asked \in Asks :
        call' = [call EXCEPT ![c] = Settled(
                   [Idle EXCEPT !.gateway = IF noticed THEN "unavailable" ELSE "sent",
                                !.conn = conn, !.asked = asked, !.left = CallTimeout])]
  BY DEF Ask
<1>2. PICK asking : asking = [Idle EXCEPT !.gateway = IF noticed THEN "unavailable" ELSE "sent",
                                !.conn = conn, !.asked = asked, !.left = CallTimeout]
  OBVIOUS
<1>3. asking.context = "live" /\ asking.work = "none"
  BY <1>2 DEF Idle
<1>4. Truthful(asking)
  BY <1>3 DEF Truthful
<1>5. Truthful(Settled(asking)) /\ ~Forsaken(Settled(asking))
  BY <1>3, <1>4, SettledTruthful DEF Forsaken
<1>6. ~Waiting(c)
  BY DEF Ask, Waiting
<1> QED BY <1>1, <1>2, <1>5, <1>6, OneHonest

LEMMA TakeReplyHonest ==
  ASSUME CallsInv, HonestInv, NEW c \in Calls, TakeReply(c)
  PROVE  AllHonest
<1>1. /\ RecordInv(call[c]) /\ call[c] \in CallType /\ call[c].work = "reply"
      /\ Truthful(call[c]) /\ (Forsaken(call[c]) => Dying) /\ process \in {"up", "leaving"}
  BY DEF CallsInv, HonestInv, TakeReply
<1>2. PICK asked, answers, result, taken :
        /\ asked = call[c].asked
        /\ answers = [q \in asked \cap DOMAIN call[c].body |-> call[c].body[q]]
        /\ result = IF Waiting(c) THEN Outcome(call[c].reply, answers, asked) ELSE call[c].gateway
        /\ taken = [call[c] EXCEPT !.work = "done", !.gateway = result]
  OBVIOUS
<1>3. call' = [call EXCEPT ![c] = Settled(taken)]
  BY <1>2 DEF TakeReply
<1>4. /\ taken.gateway = result /\ taken.work = "done"
      /\ taken.left = call[c].left /\ taken.context = call[c].context
  BY <1>1, <1>2 DEF CallType
<1>5. Truthful(taken)
  BY <1>1, <1>4 DEF Truthful
<1>6. /\ Truthful(Settled(taken)) /\ Settled(taken).gateway = result
      /\ Settled(taken).context = "canceled" => call[c].context = "canceled"
  BY <1>4, <1>5, SettledTruthful
<1>7. ASSUME Waiting(c) PROVE result # "sent" /\ Justified(c, result)
  <2>1. result = Outcome(call[c].reply, answers, asked) /\ call[c].gateway = "sent"
    BY <1>2, <1>7 DEF Waiting
  <2>2. call[c].reply \in {"", "timeout", "canceled", "invalid_response", "unavailable", "broken"}
    BY <1>1 DEF CallType
  <2>3. CASE call[c].reply = "" /\ ValidAnswers(answers, asked)
    <3>1. result = "answers"
      BY <2>1, <2>3 DEF Outcome
    <3> QED BY <3>1 DEF Justified
  <2>4. CASE call[c].reply = "" /\ ~ValidAnswers(answers, asked)
    <3>1. result = "invalid"
      BY <2>1, <2>4 DEF Outcome
    <3>2. DOMAIN call[c].body = asked /\ \A q \in asked : RightType(q, call[c].body[q])
      BY <1>1, <1>2, <2>1, <2>4 DEF RecordInv
    <3>3. DOMAIN answers = asked /\ \A q \in asked : answers[q] = call[c].body[q]
      BY <1>2, <3>2
    <3>4. \E q \in DOMAIN call[c].body : call[c].body[q] = "wild"
      BY <2>4, <3>2, <3>3 DEF ValidAnswers
    <3> QED BY <3>1, <3>4 DEF Justified
  <2>5. CASE call[c].reply = "timeout"
    <3>1. result = "timeout"
      BY <2>1, <2>5 DEF Outcome
    <3> QED BY <1>1, <2>5, <3>1 DEF Justified, Truthful
  <2>6. CASE call[c].reply = "canceled"
    <3>1. result = "canceled"
      BY <2>1, <2>6 DEF Outcome
    <3>2. process = "leaving"
      BY <1>1, <2>1, <2>6 DEF Truthful, Forsaken, Dying
    <3> QED BY <3>1, <3>2 DEF Justified
  <2>7. CASE call[c].reply = "invalid_response"
    <3>1. result = "invalid"
      BY <2>1, <2>7 DEF Outcome
    <3> QED BY <1>1, <2>7, <3>1 DEF Justified, Truthful
  <2>8. CASE call[c].reply = "unavailable"
    <3>1. result = "unavailable"
      BY <2>1, <2>8 DEF Outcome
    <3> QED BY <1>1, <2>8, <3>1 DEF Justified, Truthful
  <2>9. call[c].reply # "broken"
    BY <1>1 DEF Truthful
  <2> QED BY <2>2, <2>3, <2>4, <2>5, <2>6, <2>7, <2>8, <2>9
<1>8. result = "sent" => call[c].gateway = "sent"
  BY <1>2, <1>7 DEF Waiting
<1> QED BY <1>3, <1>6, <1>7, <1>8, OneHonest DEF Forsaken

LEMMA WaitHonest ==
  ASSUME CallsInv, HonestInv, NEW c \in Calls, Wait(c)
  PROVE  AllHonest
<1>1. CASE GatewayExpires(c)
  <2>1. Justified(c, "timeout")
    BY <1>1 DEF Justified, GatewayExpires
  <2> QED BY <1>1, <2>1, ReturnHonest DEF GatewayExpires
<1>2. CASE ClientLeaves(c)
  <2>1. Justified(c, "canceled")
    BY <1>2, LeavesWork DEF Justified, ClientLeaves
  <2> QED BY <1>2, <2>1, ReturnHonest DEF ClientLeaves
<1>3. CASE ConnectionLost(c)
  <2>1. PICK result \in {"timeout", "unavailable", "invalid"} :
          /\ Return(c, result) /\ (result = "timeout" => call[c].left = 0)
          /\ result = "invalid" => Answering(c)
    BY <1>3 DEF ConnectionLost
  <2>2. Justified(c, result)
    BY <1>3, <2>1 DEF Justified, ConnectionLost
  <2> QED BY <2>1, <2>2, ReturnHonest
<1> QED BY <1>1, <1>2, <1>3, TakeReplyHonest DEF Wait

-----------------------------------------------------------------------------
(***************************************************************************)
(* The process's leg, the process and time.                                *)
(***************************************************************************)

FaultNames == {"none", "connection", "timeout", "status", "decode", "config"}

\* The leg fails with what was noted as the fault.
FailsWith(c, fault, err) ==
  call' = [call EXCEPT ![c] = Failed([call[c] EXCEPT !.fault = fault], err)]

LEMMA FailedHonest ==
  ASSUME CallsInv, HonestInv, NEW c \in Calls, NEW fault \in FaultNames, NEW err,
         call[c].work # "reply", FailsWith(c, fault, err),
         call[c].context = "live" => /\ err = "timeout" => fault = "timeout"
                                     /\ err = "decode" => fault = "decode"
                                     /\ err \notin {"timeout", "decode"} =>
                                          fault \in {"connection", "status", "config"}
  PROVE  AllHonest
<1>1. PICK seen : seen = [call[c] EXCEPT !.fault = fault]
  OBVIOUS
<1>2. call[c] \in CallType /\ Truthful(call[c])
  BY DEF CallsInv, HonestInv
<1>3. /\ Truthful(seen) /\ seen \in CallType /\ seen.fault = fault
      /\ seen.context = call[c].context /\ seen.gateway = call[c].gateway
  BY <1>1, <1>2, FaultTruthful DEF FaultNames
<1>4. Truthful(Failed(seen, err)) /\ Same(seen, Failed(seen, err))
  BY <1>3, FailedTruthful
<1>5. Same(call[c], Failed(seen, err))
  BY <1>3, <1>4 DEF Same
<1> QED BY <1>1, <1>4, <1>5, OneSame DEF FailsWith

LEMMA RetriedHonest ==
  ASSUME CallsInv, HonestInv, NEW c \in Calls, NEW after, NEW wait,
         call' = [call EXCEPT ![c] = Retry(call[c], after, wait)]
  PROVE  AllHonest
<1>1. PICK e : e = Retry(call[c], after, wait)
  OBVIOUS
<1>2. call[c] \in CallType /\ Truthful(call[c])
  BY DEF CallsInv, HonestInv
<1>3. /\ e.work = "wait" /\ e.context = call[c].context /\ e.left = call[c].left
      /\ e.gateway = call[c].gateway
  BY <1>1, <1>2 DEF Retry, CallType
<1>4. Truthful(e) /\ Same(call[c], e)
  BY <1>2, <1>3, WorkingTruthful DEF Same
<1> QED BY <1>1, <1>4, OneSame

LEMMA AttemptFailsHonest ==
  ASSUME CallsInv, HonestInv, NEW c \in Calls,
         NEW err \in {"connection", "decode", "timeout", "context"}, AttemptFails(c, err),
         err = "context" => ~Live(c)
  PROVE  AllHonest
<1>1. call[c] \in CallType /\ call[c].work = "attempt"
  BY DEF CallsInv, AttemptFails
<1>2. CASE Live(c) /\ err # "decode" /\ MayRetry(call[c])
  <2>1. PICK wait : call' = [call EXCEPT ![c] = Retry(call[c], NoRetryAfter, wait)]
    BY <1>2 DEF AttemptFails
  <2> QED BY <2>1, RetriedHonest
<1>3. CASE ~(Live(c) /\ err # "decode" /\ MayRetry(call[c]))
  <2>1. PICK fault : fault = IF Live(c) THEN err ELSE call[c].fault
    OBVIOUS
  <2>2. FailsWith(c, fault, err)
    BY <1>3, <2>1 DEF AttemptFails, FailsWith
  <2>3. fault \in FaultNames
    BY <1>1, <2>1 DEF FaultNames, CallType
  <2>4. call[c].context = "live" => fault = err /\ err # "context"
    BY <2>1 DEF Live
  <2> QED BY <1>1, <2>2, <2>3, <2>4, FailedHonest
<1> QED BY <1>2, <1>3

LEMMA RespondHonest ==
  ASSUME CallsInv, HonestInv, NEW c \in Calls, Respond(c)
  PROVE  AllHonest
<1>1. call[c] \in CallType /\ Truthful(call[c])
  BY DEF CallsInv, HonestInv
<1>2. CASE ServiceAnswers(c)
  <2>1. PICK body \in Bodies :
          LET asked == call[c].asked
              seen == [call[c] EXCEPT !.fault =
                         IF Broken(body) \/ ~Matches(body, asked) THEN "decode" ELSE "none"]
          IN call' = [call EXCEPT ![c] =
                        IF Broken(body) THEN Failed(seen, "decode")
                        ELSE Concluded(seen, IF Matches(body, asked) THEN ""
                                             ELSE "invalid_response", body)]
    BY <1>2 DEF ServiceAnswers
  <2>2. PICK fault, category, seen :
          /\ fault = IF Broken(body) \/ ~Matches(body, call[c].asked) THEN "decode" ELSE "none"
          /\ category = IF Matches(body, call[c].asked) THEN "" ELSE "invalid_response"
          /\ seen = [call[c] EXCEPT !.fault = fault]
    OBVIOUS
  <2>3. fault \in FaultNames /\ call[c].work = "attempt"
    BY <1>2, <2>2 DEF FaultNames, ServiceAnswers
  <2>4. /\ Truthful(seen) /\ seen \in CallType /\ seen.fault = fault
        /\ seen.context = call[c].context /\ seen.gateway = call[c].gateway
    BY <1>1, <2>2, <2>3, FaultTruthful DEF FaultNames
  <2>5. CASE Broken(body)
    <3>1. FailsWith(c, fault, "decode") /\ fault = "decode"
      BY <2>1, <2>2, <2>5 DEF FailsWith
    <3> QED BY <2>3, <3>1, FailedHonest
  <2>6. CASE ~Broken(body)
    <3>1. call' = [call EXCEPT ![c] = Concluded(seen, category, body)]
      BY <2>1, <2>2, <2>6
    <3>2. category \in {"", "invalid_response"} /\ (category = "invalid_response" => seen.fault = "decode")
      BY <2>2, <2>4
    <3>3. Truthful(Concluded(seen, category, body)) /\ Same(seen, Concluded(seen, category, body))
      BY <2>4, <3>2, ConcludedTruthful
    <3>4. Same(call[c], Concluded(seen, category, body))
      BY <2>4, <3>3 DEF Same
    <3> QED BY <3>1, <3>3, <3>4, OneSame
  <2> QED BY <2>5, <2>6
<1>3. CASE ServiceBusy(c)
  <2>1. \/ \E after, wait : call' = [call EXCEPT ![c] = Retry(call[c], after, wait)]
        \/ FailsWith(c, "status", "status")
    BY <1>3 DEF ServiceBusy, FailsWith
  <2> QED BY <1>3, <2>1, RetriedHonest, FailedHonest DEF ServiceBusy, FaultNames
<1>4. CASE ServiceRefuses(c)
  BY <1>4, FailedHonest DEF ServiceRefuses, FailsWith, FaultNames
<1>5. CASE Oversized(c)
  BY <1>5, AttemptFailsHonest DEF Oversized
<1> QED BY <1>2, <1>3, <1>4, <1>5 DEF Respond

LEMMA AttemptTruthful ==
  ASSUME NEW record \in CallType, Truthful(record)
  PROVE  Truthful(Attempt(record)) /\ Same(record, Attempt(record)) /\ Attempt(record).work = "attempt"
<1>1. PICK e : e = Attempt(record)
  OBVIOUS
<1>2. /\ e.work = "attempt" /\ e.context = record.context /\ e.left = record.left
      /\ e.gateway = record.gateway
  BY <1>1 DEF Attempt, CallType
<1> QED BY <1>1, <1>2, WorkingTruthful DEF Same

LEMMA ArriveHonest ==
  ASSUME CallsInv, HonestInv, NEW c \in Calls, Arrive(c)
  PROVE  AllHonest
<1>1. call[c] \in CallType /\ Truthful(call[c]) /\ call[c].work = "none"
  BY DEF CallsInv, HonestInv, Arrive
<1>2. PICK arrived : arrived = [call[c] EXCEPT !.context = Received(call[c].left)]
  OBVIOUS
<1>3. /\ arrived.context = Received(call[c].left)
      /\ arrived.gateway = call[c].gateway /\ arrived.left = call[c].left /\ arrived.work = "none"
  BY <1>1, <1>2 DEF CallType
<1>4. arrived \in CallType
  <2>1. PICK context : context = Received(call[c].left)
    OBVIOUS
  <2>2. context \in {"live", "canceled", "expired"}
    BY <2>1, ReceivedIs
  <2> QED BY <1>1, <1>2, <2>1, <2>2 DEF CallType
<1>5. /\ Truthful(arrived) /\ arrived.gateway = call[c].gateway
      /\ arrived.context = "canceled" => Dying'
  <2>1. process' = process
    BY DEF Arrive, owned
  <2> QED BY <1>3, <2>1, ReceivedIs DEF Truthful, Dying
<1>5a. ASSUME NEW record, call' = [call EXCEPT ![c] = record], Truthful(record),
              Same(arrived, record)
       PROVE  AllHonest
  <2>1. Forsaken(record) => Dying'
    BY <1>5, <1>5a DEF Same, Forsaken
  <2>2. Waiting(c) => record.gateway = "sent"
    BY <1>5, <1>5a DEF Same, Waiting
  <2> QED BY <1>5a, <2>1, <2>2, OneHonest
<1>6. CASE Complete(call[c].conn)
  <2>1. PICK first, client : /\ call' = [call EXCEPT ![c] = first]
                             /\ first = [Attempt(arrived) EXCEPT !.client = client, !.interval = InitialBackoff]
    BY <1>2, <1>6 DEF Arrive
  <2>2. Truthful(Attempt(arrived)) /\ Same(arrived, Attempt(arrived)) /\ Attempt(arrived).work = "attempt"
    BY <1>4, <1>5, AttemptTruthful
  <2>3. /\ first.work = "attempt" /\ first.context = Attempt(arrived).context
        /\ first.left = Attempt(arrived).left /\ first.gateway = Attempt(arrived).gateway
    BY <1>4, <2>1 DEF Attempt, CallType
  <2>4. Truthful(first) /\ Same(arrived, first)
    BY <2>2, <2>3 DEF Truthful, Same
  <2> QED BY <1>5a, <2>1, <2>4
<1>7. CASE ~Complete(call[c].conn)
  <2>1. PICK seen : seen = [arrived EXCEPT !.fault = "config"]
    OBVIOUS
  <2>2. call' = [call EXCEPT ![c] = Concluded(seen, "unavailable", <<>>)]
    BY <1>2, <1>7, <2>1 DEF Arrive
  <2>3. /\ Truthful(seen) /\ seen \in CallType /\ seen.fault = "config"
        /\ seen.context = arrived.context /\ seen.gateway = arrived.gateway
    BY <1>3, <1>4, <1>5, <2>1, FaultTruthful
  <2>4. /\ Truthful(Concluded(seen, "unavailable", <<>>))
        /\ Same(seen, Concluded(seen, "unavailable", <<>>))
    BY <2>3, ConcludedTruthful
  <2>5. Same(arrived, Concluded(seen, "unavailable", <<>>))
    BY <2>3, <2>4 DEF Same
  <2> QED BY <1>5a, <2>2, <2>4, <2>5
<1> QED BY <1>6, <1>7

LEMMA WorkHonest ==
  ASSUME CallsInv, HonestInv, NEW c \in Calls, Work(c)
  PROVE  AllHonest
<1>1. call[c] \in CallType /\ Truthful(call[c])
  BY DEF CallsInv, HonestInv
<1>2. CASE Unreachable(c) \/ AttemptExpires(c) \/ AttemptCut(c)
  BY <1>2, AttemptFailsHonest DEF Unreachable, AttemptExpires, AttemptCut
<1>3. CASE Wake(c)
  BY <1>1, <1>3, AttemptTruthful, OneSame DEF Wake
<1>4. CASE WaitCut(c)
  <2>1. call' = [call EXCEPT ![c] = Failed(call[c], "context")] /\ call[c].context # "live"
    BY <1>4 DEF WaitCut, Live
  <2>2. Truthful(Failed(call[c], "context")) /\ Same(call[c], Failed(call[c], "context"))
    BY <1>1, <2>1, FailedTruthful
  <2> QED BY <2>1, <2>2, OneSame
<1>5. CASE ConnectionClosed(c)
  <2>1. PICK e : e = [call[c] EXCEPT !.context = "canceled"]
    OBVIOUS
  <2>2. /\ call' = [call EXCEPT ![c] = e] /\ call[c].work \in {"attempt", "wait"}
        /\ call[c].gateway \notin {"idle", "sent"}
    BY <1>5, <2>1 DEF ConnectionClosed
  <2>3. e.work = call[c].work /\ e.gateway = call[c].gateway /\ e.left = call[c].left /\ e.context = "canceled"
    BY <1>1, <2>1 DEF CallType
  <2>4. Truthful(e) /\ ~Forsaken(e) /\ ~Waiting(c)
    BY <2>2, <2>3 DEF Truthful, Forsaken, Waiting
  <2> QED BY <2>2, <2>4, OneHonest
<1> QED BY <1>2, <1>3, <1>4, <1>5, ArriveHonest, RespondHonest DEF Work

LEMMA VanishHonest ==
  ASSUME CallsInv, HonestInv, call' = Vanish
  PROVE  AllHonest
<1>1. ASSUME NEW c \in Calls PROVE Honest(c)
  <2>1. call[c] \in CallType /\ Truthful(call[c])
    BY DEF CallsInv, HonestInv
  <2>2. PICK dead : dead = Dead(call[c])
    OBVIOUS
  <2>3. /\ dead.work = "dead" /\ dead.gateway = call[c].gateway /\ dead.left = call[c].left
        /\ dead.context = call[c].context
    BY <2>1, <2>2 DEF Dead, Failed, Concluded, CallType
  <2>4. Truthful(dead)
    BY <2>1, <2>3, WorkingTruthful
  <2>5. Truthful(Settled(dead)) /\ Same(call[c], Settled(dead))
    BY <2>3, <2>4, SettledTruthful DEF Same
  <2>6. call'[c] = call[c] \/ call'[c] = Settled(dead)
    BY <2>2 DEF Vanish
  <2> QED BY <2>1, <2>5, <2>6, SameHonest DEF Same
<1> QED BY <1>1 DEF AllHonest

LEMMA LeaveHonest ==
  ASSUME CallsInv, HonestInv, Leave
  PROVE  AllHonest
<1>1. ASSUME NEW c \in Calls PROVE Honest(c)
  <2>1. call[c] \in CallType /\ Truthful(call[c]) /\ Dying'
    BY DEF CallsInv, HonestInv, Leave, Dying
  <2>2. \/ call'[c] = call[c]
        \/ call[c].work \in {"attempt", "wait"} /\ call'[c] = [call[c] EXCEPT !.context = "canceled"]
    BY DEF Leave
  <2>3. CASE call'[c] = call[c]
    BY <2>1, <2>3, SameHonest DEF Same
  <2>4. CASE call[c].work \in {"attempt", "wait"} /\ call'[c] = [call[c] EXCEPT !.context = "canceled"]
    <3>1. /\ call'[c].work = call[c].work /\ call'[c].gateway = call[c].gateway
          /\ call'[c].left = call[c].left /\ call'[c].context = "canceled"
      BY <2>1, <2>4 DEF CallType
    <3>2. Truthful(call'[c])
      BY <2>4, <3>1 DEF Truthful
    <3> QED BY <2>1, <3>1, <3>2 DEF Honest, Waiting
  <2> QED BY <2>2, <2>3, <2>4
<1> QED BY <1>1 DEF AllHonest

LEMMA HonestSteps ==
  ASSUME IInv, HonestInv, [Next]_vars
  PROVE  AllHonest
<1>0. CallsInv
  BY DEF IInv
<1>1. CASE UNCHANGED call
  BY <1>1, SameHonest DEF HonestInv, AllHonest, Same
<1>2. CASE Tick
  <2>1. \A c \in Calls : call'[c] = Elapse(call[c])
    BY <1>2 DEF Tick
  <2>2. ASSUME NEW c \in Calls PROVE Honest(c)
    <3>1. call[c] \in CallType /\ Truthful(call[c])
      BY <1>0 DEF CallsInv, HonestInv
    <3> QED BY <2>1, <3>1, ElapsedTruthful, SameHonest
  <2> QED BY <2>2 DEF AllHonest
<1>3. CASE Owner
  BY <1>0, <1>1, <1>3, VanishHonest, LeaveHonest
     DEF Owner, Started, StartFails, Exit, Crash, Notice, Stop, CloseBegin, CloseKills, CloseEnds
<1>4. CASE \E c \in Calls : Ask(c) \/ Wait(c) \/ Work(c)
  BY <1>0, <1>4, AskHonest, WaitHonest, WorkHonest
<1> QED BY <1>1, <1>2, <1>3, <1>4 DEF Next, vars

\* A process that is told to leave does not come back.
LEMMA DyingStays ==
  ASSUME [Next]_vars, Dying
  PROVE  Dying'
<1>1. ASSUME NEW c \in Calls, Ask(c) \/ Wait(c) \/ Work(c) PROVE process' = process
  BY <1>1 DEF Ask, Wait, Work, GatewayExpires, ClientLeaves, ConnectionLost, TakeReply,
     Arrive, Respond, ServiceAnswers, ServiceBusy, ServiceRefuses, Oversized, Unreachable,
     AttemptExpires, AttemptCut, AttemptFails, Wake, WaitCut, ConnectionClosed, owned
<1>2. CASE Owner
  BY <1>2 DEF Owner, Started, StartFails, Leave, Exit, Crash, Notice, Stop, CloseBegin,
     CloseKills, CloseEnds, Dying
<1>3. CASE Tick \/ UNCHANGED vars
  BY <1>3 DEF Tick, vars, Dying
<1> QED BY <1>1, <1>2, <1>3 DEF Next, Dying

LEMMA HonestAlways == Spec => []HonestInv
<1>1. Init => HonestInv
  <2>1. Idle.context = "live" /\ Idle.work = "none"
    BY DEF Idle
  <2> QED BY <2>1 DEF Init, HonestInv, Truthful, Forsaken
<1>2. IInv /\ HonestInv /\ [Next]_vars => HonestInv'
  <2> SUFFICES ASSUME IInv, HonestInv, [Next]_vars, NEW c \in Calls
               PROVE  Truthful(call'[c]) /\ (Forsaken(call'[c]) => Dying')
    BY DEF HonestInv, Truthful, Forsaken
  <2>1. Honest(c)
    BY HonestSteps DEF AllHonest
  <2> QED BY <2>1, DyingStays DEF Honest, HonestInv
<1> QED BY <1>1, <1>2, Invariant, PTL DEF Spec

\* What the gateway is told went wrong did go wrong: a timeout had a deadline that
\* passed, a cancellation somebody who left, an invalid response an answer that was
\* one (classifyTransportError, serve.go, cli.go).
THEOREM ErrorCorrect == Spec => ErrorIsTrue
<1>1. IInv /\ HonestInv /\ [Next]_vars =>
        [\A c \in Calls :
           Waiting(c) /\ call'[c].gateway # "sent" => Justified(c, call'[c].gateway)]_vars
  BY HonestSteps DEF AllHonest, Honest
<1> QED BY <1>1, Invariant, HonestAlways, PTL DEF Spec, ErrorIsTrue

=============================================================================
