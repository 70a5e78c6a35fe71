------------------------------ MODULE Classifier ------------------------------
(***************************************************************************)
(* The classifier: the gateway asks a process it owns, over a loopback     *)
(* connection, and the process asks the Jev service through the SDK, which *)
(* retries.  A call has two legs that can outlive each other: the gateway  *)
(* leaves at its deadline or when its client leaves, and the process works *)
(* on until it sees the connection closed.  Time is counted in ticks, and  *)
(* every timer is what is left of it.                                      *)
(***************************************************************************)
EXTENDS Integers, FiniteSets

CONSTANTS
  Calls,           \* calls that will be made: the bound on activity
  Connections,     \* saved connections: records of base, key and model
  Type,            \* the catalogue: the type of each question
  Asks,            \* sets of questions the policy may need
  Bodies,          \* bodies of a 2xx answer: the kind of each answer in it
  RetryAfters,     \* Retry-After values the service may send
  MaxRetries, InitialBackoff, MaxBackoff, Jitter, MaxRetryAfter,
  AttemptTimeout,  \* the SDK's limit on one attempt
  CallTimeout,     \* the gateway's limit on a call
  CloseGrace,      \* how long the gateway waits for the process to leave
  Faults           \* subset of {"net", "kill", "hang", "start"}

Questions == DOMAIN Type

NoConnection == [base |-> "", key |-> "", model |-> ""]

\* The header of a response without a usable Retry-After.
NoRetryAfter == -1

ASSUME ClassifierAssumption ==
  /\ NoConnection \notin Connections
  /\ \A asked \in Asks : asked # {} /\ asked \subseteq Questions
  /\ \A body \in Bodies : IsFiniteSet(DOMAIN body)
  /\ RetryAfters \subseteq Nat \cup {NoRetryAfter}
  /\ {MaxRetries, InitialBackoff, MaxBackoff, MaxRetryAfter} \subseteq Nat
  /\ {AttemptTimeout, CallTimeout, CloseGrace} \subseteq Nat \ {0}
  /\ InitialBackoff <= MaxBackoff
  /\ Jitter \in 0..100

VARIABLES
  process,  \* "starting", "up", "leaving" (its context is cancelled) or "gone"
  noticed,  \* the gateway has seen the process end: done is closed
  serving,  \* the gateway accepts requests
  owner,    \* the pipe that owns the process: "open", "closing" or "closed"
  grace,    \* ticks until a closing gateway kills the process
  cached,   \* the connection of the evaluator's one cached client
  call      \* both legs of each call

vars == <<process, noticed, serving, owner, grace, cached, call>>

\* gateway: "idle", "sent", then how CheckConfigured returned.
\* work: "none", "attempt", "wait", "reply", "done" or "dead" in the process.
\* context: of the process's leg, "live", "canceled" or "expired".
Idle ==
  [gateway |-> "idle", conn |-> NoConnection, asked |-> {}, left |-> 0,
   work |-> "none", context |-> "live", client |-> NoConnection, sent |-> FALSE,
   attempt |-> 0, limit |-> 0, wait |-> 0, interval |-> 0, reply |-> "", body |-> <<>>,
   rest |-> 0, fault |-> "none"]

Init ==
  /\ process = "starting"
  /\ noticed = FALSE
  /\ serving = FALSE
  /\ owner = "open"
  /\ grace = 0
  /\ cached = NoConnection
  /\ call = [c \in Calls |-> Idle]

owned == <<process, noticed, serving, owner, grace>>

Smaller(a, b) == IF a < b THEN a ELSE b

-----------------------------------------------------------------------------
(***************************************************************************)
(* The gateway's leg: CheckConfigured.                                     *)
(***************************************************************************)

Waiting(c) == call[c].gateway = "sent"

\* Once both legs have ended only how they ended is kept.
Settled(record) ==
  IF record.gateway # "sent" /\ record.work \in {"none", "done", "dead"}
  THEN [Idle EXCEPT !.gateway = record.gateway, !.work = record.work]
  ELSE record

Return(c, result) == call' = [call EXCEPT ![c] = Settled([@ EXCEPT !.gateway = result])]

\* The check of done and the request; the process may be dying between them.
Ask(c) ==
  /\ process # "starting"
  /\ call[c].gateway = "idle"
  /\ \E conn \in Connections, asked \in Asks :
       call' = [call EXCEPT ![c] = Settled(
                  [Idle EXCEPT !.gateway = IF noticed THEN "unavailable" ELSE "sent",
                               !.conn = conn, !.asked = asked, !.left = CallTimeout])]
  /\ UNCHANGED <<owned, cached>>

\* Variant: only the process is told of the deadline.
GatewayExpiresAfterReply(c) ==
  /\ Waiting(c)
  /\ call[c].left = 0
  /\ call[c].work = "reply"
  /\ Return(c, "timeout")
  /\ UNCHANGED <<owned, cached>>

GatewayExpires(c) ==
  /\ Waiting(c)
  /\ call[c].left = 0
  /\ Return(c, "timeout")
  /\ UNCHANGED <<owned, cached>>

ClientLeaves(c) ==
  /\ Waiting(c)
  /\ Return(c, "canceled")
  /\ UNCHANGED <<owned, cached>>

\* The process was answering when it left.
Answering(c) ==
  process \in {"leaving", "gone"} /\ (call[c].work = "reply" \/ call[c].reply = "broken")

\* Nobody listens, or the connection breaks under the request or in the reply's body.
ConnectionLost(c) ==
  /\ Waiting(c)
  /\ process \in {"leaving", "gone"}
  /\ \E result \in {"timeout", "unavailable", "invalid"} :
       /\ result = "timeout" <=> call[c].left = 0
       /\ result = "invalid" => Answering(c)
       /\ Return(c, result)
  /\ UNCHANGED <<owned, cached>>

RightType(q, kind) == IF kind = "wild" THEN Type[q] = "noul" ELSE Type[q] = kind

\* ValidateAnswersFor: exactly the questions asked, of their type and in range.
ValidAnswers(answers, asked) ==
  /\ DOMAIN answers = asked
  /\ \A q \in asked : RightType(q, answers[q]) /\ answers[q] # "wild"

\* What CheckConfigured makes of the process's reply.
Outcome(reply, answers, asked) ==
  CASE reply = "" -> IF ValidAnswers(answers, asked) THEN "answers" ELSE "invalid"
    [] reply = "invalid_response" -> "invalid"
    [] reply \in {"timeout", "canceled"} -> reply
    [] OTHER -> "unavailable"

\* A reply to a gateway that has left goes nowhere.
TakeReply(c) ==
  /\ call[c].work = "reply"
  /\ process \in {"up", "leaving"}
  /\ LET asked == call[c].asked
         answers == [q \in asked \cap DOMAIN call[c].body |-> call[c].body[q]]
         result == IF Waiting(c) THEN Outcome(call[c].reply, answers, asked)
                   ELSE call[c].gateway
     IN call' = [call EXCEPT ![c] = Settled([@ EXCEPT !.work = "done", !.gateway = result])]
  /\ UNCHANGED <<owned, cached>>

-----------------------------------------------------------------------------
(***************************************************************************)
(* The process's leg: the handler, the evaluator and the SDK's loop.       *)
(***************************************************************************)

Live(c) == call[c].context = "live"

\* Variant: every finished context is taken for a deadline.
CategoryOfAnyContext(context, err) ==
  CASE context # "live" \/ err = "timeout" -> "timeout"
    [] err = "decode" -> "invalid_response"
    [] OTHER -> "unavailable"

\* How Evaluate failed, in the words of the reply: the context speaks first.
Category(context, err) ==
  CASE context = "expired" \/ (context = "live" /\ err = "timeout") -> "timeout"
    [] context = "canceled" -> "canceled"
    [] context = "live" /\ err = "decode" -> "invalid_response"
    [] OTHER -> "unavailable"

\* decodeResult leaves out the answers of a type it does not know.
Decoded(body) == {q \in DOMAIN body : body[q] # "new"}

Broken(body) == \E q \in DOMAIN body : body[q] = "broken"

\* Variant: the answers are not counted.
MatchesAtLeast(body, asked) == \A q \in asked : q \in Decoded(body) /\ RightType(q, body[q])

\* One answer of the right type to every question asked, and no other.
Matches(body, asked) ==
  /\ Cardinality(Decoded(body)) = Cardinality(asked)
  /\ \A q \in asked : q \in Decoded(body) /\ RightType(q, body[q])

\* The leg ends: what it kept of its attempts is dropped.
Concluded(record, category, body) ==
  [record EXCEPT !.work = "reply", !.reply = category,
     !.body = IF category = "" THEN [q \in Decoded(body) |-> body[q]] ELSE <<>>,
     !.conn = NoConnection, !.client = NoConnection,
     !.sent = FALSE, !.limit = 0, !.wait = 0, !.interval = 0, !.attempt = 0,
     !.rest = 0]

Failed(record, err) == Concluded(record, Category(record.context, err), <<>>)

\* Variant: the request is made without its context.
AttemptAnyway(record) ==
  [record EXCEPT !.work = "attempt", !.attempt = @ + 1, !.wait = 0, !.rest = 0,
                 !.sent = TRUE, !.limit = AttemptTimeout]

\* The top of the loop; a request on a finished context is not sent.
Attempt(record) ==
  LET live == record.context = "live"
  IN [record EXCEPT !.work = "attempt", !.attempt = @ + 1, !.wait = 0, !.rest = 0,
                    !.sent = live, !.limit = IF live THEN AttemptTimeout ELSE 0]

Complete(conn) == conn.base # "" /\ conn.key # "" /\ conn.model # ""

\* A request's context: the server's own has ended in a process that leaves.
Received(left) ==
  CASE process = "leaving" -> "canceled"
    [] process # "leaving" /\ left = 0 -> "expired"
    [] OTHER -> "live"

\* Variant: the cached client serves any key of its address and model.
ArriveByAddress(c) ==
  /\ Waiting(c)
  /\ call[c].work = "none"
  /\ process \in {"up", "leaving"}
  /\ LET conn == call[c].conn
         client == IF cached.base = conn.base /\ cached.model = conn.model THEN cached ELSE conn
     IN /\ Complete(conn)
        /\ cached' = client
        /\ call' = [call EXCEPT ![c] =
                      [Attempt([@ EXCEPT !.context = Received(call[c].left)])
                         EXCEPT !.client = client, !.interval = InitialBackoff]]
  /\ UNCHANGED owned

\* The evaluator keeps one client, for the last connection it was asked to use.  A
\* process that leaves accepts requests until its server is closed.
Arrive(c) ==
  /\ Waiting(c)
  /\ call[c].work = "none"
  /\ process \in {"up", "leaving"}
  /\ LET conn == call[c].conn
         arrived == [call[c] EXCEPT !.context = Received(call[c].left)]
     IN IF Complete(conn)
        THEN /\ cached' = conn
             /\ call' = [call EXCEPT ![c] =
                           [Attempt(arrived) EXCEPT !.client = IF cached = conn THEN cached ELSE conn,
                                                    !.interval = InitialBackoff]]
        ELSE /\ call' = [call EXCEPT ![c] = Concluded([arrived EXCEPT !.fault = "config"],
                                                           "unavailable", <<>>)]
             /\ UNCHANGED cached
  /\ UNCHANGED owned

\* What a computed backoff may be after the jitter.
Jittered(interval) == (interval * (100 - Jitter)) \div 100 .. interval

Honoured(after) == after # NoRetryAfter /\ after <= MaxRetryAfter

\* The loop goes round: Retry-After, or the next interval of the sequence.
Retry(record, after, wait) ==
  LET backed == [record EXCEPT !.work = "wait", !.sent = FALSE, !.limit = 0, !.wait = wait]
  IN IF Honoured(after)
     THEN [backed EXCEPT !.rest = after]
     ELSE [backed EXCEPT !.interval = Smaller(2 * @, MaxBackoff)]

\* Variant: the header is ignored.
DelaysComputed(record, after) == Jittered(Smaller(record.interval, MaxBackoff))

Delays(record, after) ==
  IF Honoured(after) THEN {after} ELSE Jittered(Smaller(record.interval, MaxBackoff))

\* Variant: one too many.
MayRetryInclusive(record) == record.attempt <= MaxRetries + 1

MayRetry(record) == record.attempt < MaxRetries + 1

\* One round trip fails without a response; the caller's context speaks first.
AttemptFails(c, err) ==
  /\ call[c].work = "attempt"
  /\ IF Live(c) /\ err # "decode" /\ MayRetry(call[c])
     THEN \E wait \in Delays(call[c], NoRetryAfter) :
            call' = [call EXCEPT ![c] = Retry(@, NoRetryAfter, wait)]
     ELSE LET fault == IF Live(c) THEN err ELSE call[c].fault
          IN call' = [call EXCEPT ![c] = Failed([@ EXCEPT !.fault = fault], err)]
  /\ UNCHANGED <<owned, cached>>

Unreachable(c) == "net" \in Faults /\ call[c].sent /\ AttemptFails(c, "connection")

Oversized(c) == call[c].sent /\ AttemptFails(c, "decode")

AttemptExpires(c) == call[c].sent /\ call[c].limit = 0 /\ AttemptFails(c, "timeout")

AttemptCut(c) == ~Live(c) /\ AttemptFails(c, "context")

\* 408, 429 or 5xx.
ServiceBusy(c) ==
  /\ call[c].work = "attempt"
  /\ call[c].sent
  /\ \E after \in RetryAfters :
       IF MayRetry(call[c])
       THEN \E wait \in Delays(call[c], after) :
              call' = [call EXCEPT ![c] = Retry(@, after, wait)]
       ELSE call' = [call EXCEPT ![c] = Failed([@ EXCEPT !.fault = "status"], "status")]
  /\ UNCHANGED <<owned, cached>>

\* Any other status that is not 2xx.
ServiceRefuses(c) ==
  /\ call[c].work = "attempt"
  /\ call[c].sent
  /\ call' = [call EXCEPT ![c] = Failed([@ EXCEPT !.fault = "status"], "status")]
  /\ UNCHANGED <<owned, cached>>

\* A response that was read is a response, whatever the context has become.
ServiceAnswers(c) ==
  /\ call[c].work = "attempt"
  /\ call[c].sent
  /\ \E body \in Bodies :
       LET asked == call[c].asked
           seen == [call[c] EXCEPT !.fault =
                      IF Broken(body) \/ ~Matches(body, asked) THEN "decode" ELSE "none"]
       IN call' = [call EXCEPT ![c] =
                     IF Broken(body) THEN Failed(seen, "decode")
                     ELSE Concluded(seen, IF Matches(body, asked) THEN ""
                                          ELSE "invalid_response", body)]
  /\ UNCHANGED <<owned, cached>>

\* waitForRetry: the timer, or the end of the context.
Wake(c) ==
  /\ call[c].work = "wait"
  /\ call[c].wait = 0
  /\ call' = [call EXCEPT ![c] = Attempt(@)]
  /\ UNCHANGED <<owned, cached>>

WaitCut(c) ==
  /\ call[c].work = "wait"
  /\ ~Live(c)
  /\ call' = [call EXCEPT ![c] = Failed(@, "context")]
  /\ UNCHANGED <<owned, cached>>

\* The server sees the connection closed and cancels the request's context.
ConnectionClosed(c) ==
  /\ call[c].work \in {"attempt", "wait"}
  /\ Live(c)
  /\ call[c].gateway \notin {"idle", "sent"}
  /\ call' = [call EXCEPT ![c].context = "canceled"]
  /\ UNCHANGED <<owned, cached>>

-----------------------------------------------------------------------------
(***************************************************************************)
(* The process and the gateway that owns it.                               *)
(***************************************************************************)

\* The handshake on stdout; any other first line, or none in ten seconds, is a failure.
Started ==
  /\ process = "starting"
  /\ process' = "up"
  /\ serving' = TRUE
  /\ UNCHANGED <<noticed, owner, grace, cached, call>>

StartFails ==
  /\ process = "starting"
  /\ "start" \in Faults
  /\ process' = "gone"
  /\ noticed' = TRUE
  /\ owner' = "closed"
  /\ UNCHANGED <<serving, grace, cached, call>>

\* The handlers of a process that has gone are gone with it, in the middle of a reply too.
Dead(record) ==
  [Failed(record, "status") EXCEPT !.work = "dead",
                                   !.reply = IF record.work = "reply" THEN "broken" ELSE @]

Vanish == [c \in Calls |-> IF call[c].work \in {"none", "done"} THEN call[c]
                           ELSE Settled(Dead(call[c]))]

\* A signal to the process, or the end of the pipe that owns it.
Leave ==
  /\ process = "up"
  /\ \/ owner # "open" /\ "hang" \notin Faults
     \/ "kill" \in Faults
  /\ process' = "leaving"
  /\ call' = [c \in Calls |-> IF call[c].work \in {"attempt", "wait"} /\ Live(c)
                              THEN [call[c] EXCEPT !.context = "canceled"] ELSE call[c]]
  /\ UNCHANGED <<noticed, serving, owner, grace, cached>>

Exit ==
  /\ process = "leaving"
  /\ process' = "gone"
  /\ call' = Vanish
  /\ UNCHANGED <<noticed, serving, owner, grace, cached>>

Crash ==
  /\ "kill" \in Faults
  /\ process = "up"
  /\ process' = "gone"
  /\ call' = Vanish
  /\ UNCHANGED <<noticed, serving, owner, grace, cached>>

\* cmd.Wait returns: done is closed, and serve() stops the gateway.
Notice ==
  /\ process = "gone"
  /\ ~noticed
  /\ noticed' = TRUE
  /\ serving' = FALSE
  /\ UNCHANGED <<process, owner, grace, cached, call>>

\* The gateway is told to stop.
Stop ==
  /\ serving
  /\ serving' = FALSE
  /\ UNCHANGED <<process, noticed, owner, grace, cached, call>>

\* Close: the pipe, then four seconds.
CloseBegin ==
  /\ ~serving
  /\ process # "starting"
  /\ owner = "open"
  /\ owner' = "closing"
  /\ grace' = CloseGrace
  /\ UNCHANGED <<process, noticed, serving, cached, call>>

\* Variant: a signal that the process may leave unanswered.
CloseAsks ==
  /\ owner = "closing"
  /\ grace = 0
  /\ process = "up"
  /\ "hang" \notin Faults
  /\ process' = "leaving"
  /\ UNCHANGED <<noticed, serving, owner, grace, cached, call>>

CloseKills ==
  /\ owner = "closing"
  /\ grace = 0
  /\ process # "gone"
  /\ process' = "gone"
  /\ call' = Vanish
  /\ UNCHANGED <<noticed, serving, owner, grace, cached>>

CloseEnds ==
  /\ owner = "closing"
  /\ noticed
  /\ owner' = "closed"
  /\ grace' = 0
  /\ UNCHANGED <<process, noticed, serving, cached, call>>

-----------------------------------------------------------------------------
(***************************************************************************)
(* Time.  A context expires with the deadline the request carried.         *)
(***************************************************************************)

Down(n) == IF n = 0 THEN 0 ELSE n - 1

Elapse(record) ==
  [record EXCEPT !.left = Down(@), !.limit = Down(@), !.wait = Down(@), !.rest = Down(@),
                 !.context = IF record.left = 1 /\ @ = "live" /\ record.work \in {"attempt", "wait"}
                             THEN "expired" ELSE @]

Tick ==
  /\ call' = [c \in Calls |-> Elapse(call[c])]
  /\ grace' = Down(grace)
  /\ UNCHANGED <<process, noticed, serving, owner, cached>>

Respond(c) == ServiceAnswers(c) \/ ServiceBusy(c) \/ ServiceRefuses(c) \/ Oversized(c)

Work(c) ==
  \/ Arrive(c) \/ Respond(c) \/ Unreachable(c) \/ AttemptExpires(c) \/ AttemptCut(c)
  \/ Wake(c) \/ WaitCut(c) \/ ConnectionClosed(c)

Wait(c) == GatewayExpires(c) \/ ClientLeaves(c) \/ ConnectionLost(c) \/ TakeReply(c)

\* What must happen to a call without anybody's answer.
Returns(c) == GatewayExpires(c) \/ ConnectionLost(c) \/ TakeReply(c)

Ends(c) == AttemptExpires(c) \/ AttemptCut(c) \/ WaitCut(c) \/ Wake(c)

Owner ==
  \/ Started \/ StartFails \/ Leave \/ Exit \/ Crash \/ Notice \/ Stop
  \/ CloseBegin \/ CloseKills \/ CloseEnds

Next == Tick \/ Owner \/ \E c \in Calls : Ask(c) \/ Wait(c) \/ Work(c)

Spec == Init /\ [][Next]_vars

\* Timers run, handlers take their steps and connections that break are noticed;
\* nobody has to answer, to call, to leave or to stop.
Fairness ==
  /\ WF_vars(Tick)
  /\ WF_vars(Exit) /\ WF_vars(Notice) /\ WF_vars(CloseBegin)
  /\ WF_vars(CloseKills) /\ WF_vars(CloseEnds)
  /\ \A c \in Calls :
       /\ WF_vars(Returns(c))
       /\ WF_vars(Ends(c))
       /\ WF_vars(ConnectionClosed(c))

FairSpec == Spec /\ Fairness

-----------------------------------------------------------------------------
(***************************************************************************)
(* Properties.                                                             *)
(***************************************************************************)

Results == {"answers", "invalid", "timeout", "canceled", "unavailable"}

Kept == {[q \in Decoded(b) |-> b[q]] : b \in Bodies} \cup {<<>>}

CallType ==
  [gateway : {"idle", "sent"} \cup Results, conn : Connections \cup {NoConnection},
   asked : Asks \cup {{}}, left : 0..CallTimeout,
   work : {"none", "attempt", "wait", "reply", "done", "dead"},
   context : {"live", "canceled", "expired"}, client : Connections \cup {NoConnection},
   sent : BOOLEAN, attempt : 0..(MaxRetries + 1), limit : 0..AttemptTimeout,
   wait : Nat, interval : 0..MaxBackoff,
   reply : {"", "timeout", "canceled", "invalid_response", "unavailable", "broken"},
   body : Kept, rest : 0..MaxRetryAfter,
   fault : {"none", "connection", "timeout", "status", "decode", "config"}]

\* Types; a call makes at most MaxRetries attempts after the first.
TypeOK ==
  /\ process \in {"starting", "up", "leaving", "gone"}
  /\ {noticed, serving} \subseteq BOOLEAN
  /\ owner \in {"open", "closing", "closed"}
  /\ grace \in 0..CloseGrace
  /\ cached \in Connections \cup {NoConnection}
  /\ call \in [Calls -> CallType]

\* Calls with different saved connections share one evaluator and one cached
\* client; each request goes out with the address, key and model its own call
\* carried (serviceEvaluator.check).
OwnConnection == \A c \in Calls : call[c].sent => call[c].client = call[c].conn

\* The gateway takes answers only from a body that answered every question it
\* asked once, in its type and range, and nothing else it could read; whichever
\* of the three layers is to notice (decodeResult, serviceEvaluator.check,
\* ValidateAnswersFor).
AnswersAreExact ==
  [][\A c \in Calls :
       Waiting(c) /\ call'[c].gateway = "answers" =>
         LET body == call[c].body
         IN /\ Decoded(body) = call[c].asked
            /\ \A q \in call[c].asked : body[q] = Type[q]]_vars

Justified(c, result) ==
  CASE result = "timeout" -> call[c].left = 0 \/ call[c].fault = "timeout"
    [] result = "canceled" -> call'[c].work = call[c].work \/ process = "leaving"
    [] result = "invalid" -> \/ call[c].fault = "decode"
                             \/ \E q \in DOMAIN call[c].body : call[c].body[q] = "wild"
                             \/ Answering(c)
    [] result = "unavailable" -> \/ call[c].fault \in {"connection", "status", "config"}
                                 \/ process \in {"leaving", "gone"}
    [] OTHER -> TRUE

\* What the gateway is told went wrong did go wrong: across the SDK's errors, the
\* reply's category and the gateway's mapping a timeout means that a deadline had
\* passed, a cancellation that someone left, an invalid response that the service
\* answered with one or that the process left in the middle of its own
\* (classifyTransportError, serve.go, cli.go).
ErrorIsTrue ==
  [][\A c \in Calls :
       Waiting(c) /\ call'[c].gateway # "sent" => Justified(c, call'[c].gateway)]_vars

\* A service that asked to be left alone, for no longer than the policy allows,
\* is left alone that long (retryDelay, waitForRetry).
RetryAfterHonoured ==
  [][\A c \in Calls :
       call[c].work = "wait" /\ call'[c].work = "attempt" => call[c].rest = 0]_vars

\* No request reaches the service after the deadline its call carried, however
\* many attempts are left and whatever they wait for.
DeadlineHeld ==
  [][\A c \in Calls : ~call[c].sent /\ call'[c].sent => call[c].left > 0]_vars

\* A call that was made returns, and the process stops working on it.
WorkEnds ==
  \A c \in Calls :
    call[c].gateway # "idle" ~>
      call[c].gateway # "sent" /\ call[c].work \in {"none", "done", "dead", "reply"}

\* Close ends, also when the process does not listen to the end of its pipe.
CloseReturns == owner = "closing" ~> owner = "closed"

=============================================================================
