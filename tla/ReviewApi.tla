------------------------------ MODULE ReviewApi ------------------------------
(***************************************************************************)
(* POST /v1/moderations: a review for those who hold a key of its own.  A  *)
(* request is authenticated by PostgreSQL, takes one of a fixed number of  *)
(* places, is reviewed, and leaves an audit event when it was flagged and  *)
(* a statistic in any case.  Its client may leave at any time, which ends  *)
(* the context of every call but the statistic's; and the telemetry store, *)
(* which both go to, may close first.                                      *)
(***************************************************************************)
EXTENDS Integers, Sequences, FiniteSets

CONSTANTS
  Requests,  \* requests that will be made: the bound on activity
  ApiKeys,   \* keys that will be created
  Cap,       \* reviewAPIMaxConcurrent
  Failing    \* does PostgreSQL fail, or the telemetry queue stay full?

ASSUME ReviewApiAssumption ==
  /\ IsFiniteSet(Requests)
  /\ Cap \in Nat

\* No bearer token, or another method than POST.
NoSecret == "no secret"

NoKey == "no key"

VARIABLES
  keys,     \* "none", "valid" or "revoked"
  active,   \* reviewAPIActive
  request,  \* each request
  events,   \* how many audit events of each request were taken
  stats,    \* the statistics of each request that were taken
  closed    \* the telemetry store takes nothing any more

apiVars == <<keys, active, request, events, stats, closed>>

\* late: the key was not valid when the request came in.
NoRequest ==
  [pc |-> "idle", secret |-> NoSecret, late |-> FALSE, connected |-> TRUE,
   key |-> NoKey, outcome |-> "error", answer |-> 0]

ApiInit ==
  /\ keys = [k \in ApiKeys |-> "none"]
  /\ active = 0
  /\ request = [r \in Requests |-> NoRequest]
  /\ events = [r \in Requests |-> 0]
  /\ stats = [r \in Requests |-> <<>>]
  /\ closed = FALSE

-----------------------------------------------------------------------------
(***************************************************************************)
(* The administrator.                                                      *)
(***************************************************************************)

\* A key whose creation was not answered has a secret that nobody knows.
Create(k) ==
  /\ keys[k] = "none"
  /\ keys' = [keys EXCEPT ![k] = "valid"]
  /\ UNCHANGED <<active, request, events, stats, closed>>

\* Whether or not the reply arrives; once more it changes nothing.
Revoke(k) ==
  /\ keys[k] = "valid"
  /\ keys' = [keys EXCEPT ![k] = "revoked"]
  /\ UNCHANGED <<active, request, events, stats, closed>>

-----------------------------------------------------------------------------
(***************************************************************************)
(* One request: reviewAPI.                                                 *)
(***************************************************************************)

At(r, pc) == request[r].pc = pc

Goto(r, pc) == request' = [request EXCEPT ![r].pc = pc]

Answer(r, status, pc) == request' = [request EXCEPT ![r].pc = pc, ![r].answer = status]

\* A call on the request's context fails, or its client has left.
MayFail(r) == Failing \/ ~request[r].connected

\* The policy: without it, or while it has the interface switched off, the request
\* leaves no statistic.
Receive(r) ==
  /\ At(r, "idle")
  /\ \/ \E status \in {404, 503} : Answer(r, status, "done")
     \/ \E secret \in {NoSecret} \cup {k \in ApiKeys : keys[k] # "none"} :
          request' = [request EXCEPT ![r].pc = "auth", ![r].secret = secret,
                        ![r].late = secret # NoSecret /\ keys[secret] # "valid"]
  /\ UNCHANGED <<keys, active, events, stats, closed>>

\* Variant: the row of a revoked key is found as well.
FoundRevoked(secret) == secret # NoSecret

Found(secret) == secret # NoSecret /\ keys[secret] = "valid"

\* AuthenticateReviewAPIKey asks, then notes the use of what it found.
Authenticate(r) ==
  /\ At(r, "auth")
  /\ \/ Found(request[r].secret) /\ Goto(r, "use")
     \/ ~Found(request[r].secret) /\ Answer(r, 401, "stat")
     \/ MayFail(r) /\ request[r].secret # NoSecret /\ Answer(r, 503, "stat")
  /\ UNCHANGED <<keys, active, events, stats, closed>>

NoteUse(r) ==
  /\ At(r, "use")
  /\ \/ request' = [request EXCEPT ![r].pc = "admit", ![r].key = request[r].secret]
     \/ MayFail(r) /\ Answer(r, 503, "stat")
  /\ UNCHANGED <<keys, active, events, stats, closed>>

\* The place is taken first, also by a request that will not keep it.
Admit(r) ==
  /\ At(r, "admit")
  /\ active' = active + 1
  /\ Goto(r, IF active + 1 > Cap THEN "over" ELSE "body")
  /\ UNCHANGED <<keys, events, stats, closed>>

\* Variant: only a request that was let in gives its place back.
TurnAwayInPlace(r) ==
  /\ At(r, "over")
  /\ Answer(r, 429, "stat")
  /\ UNCHANGED <<keys, active, events, stats, closed>>

TurnAway(r) ==
  /\ At(r, "over")
  /\ active' = active - 1
  /\ Answer(r, 429, "stat")
  /\ UNCHANGED <<keys, events, stats, closed>>

Decode(r) ==
  /\ At(r, "body")
  /\ \/ Goto(r, "review")
     \/ Answer(r, 400, "leave")
  /\ UNCHANGED <<keys, active, events, stats, closed>>

\* Variant: a review that was not made leaves an event as well.
FlaggedOrFailed(outcome) == outcome # "allowed"

Flagged(outcome) == outcome \in {"hit", "blocked"}

\* evaluateReviewAPI: a review that was not made is no statistic but "error"; a text
\* that is too long to be reviewed is allowed.
Review(r) ==
  /\ At(r, "review")
  /\ \E outcome \in {"allowed", "hit", "blocked", "error"} :
       request' = [request EXCEPT ![r].outcome = outcome,
                                  ![r].answer = IF outcome = "error" THEN 503 ELSE 200,
                                  ![r].pc = IF Flagged(outcome) THEN "write" ELSE "leave"]
  /\ UNCHANGED <<keys, active, events, stats, closed>>

\* The event waits for room in the telemetry queue; the client waits for the event.
\* What a close overtakes in its wait counts as taken before, or is refused.
Write(r) ==
  /\ At(r, "write")
  /\ \/ ~closed /\ events' = [events EXCEPT ![r] = @ + 1]
     \/ (closed \/ ~request[r].connected) /\ UNCHANGED events
  /\ Goto(r, "leave")
  /\ UNCHANGED <<keys, active, stats, closed>>

\* The deferred calls: the place, then the statistic.
GiveBack(r) ==
  /\ At(r, "leave")
  /\ active' = active - 1
  /\ Goto(r, "stat")
  /\ UNCHANGED <<keys, events, stats, closed>>

\* Three seconds, whatever has become of the client.
Record(r) ==
  /\ At(r, "stat")
  /\ \/ /\ ~closed
        /\ stats' = [stats EXCEPT ![r] =
                       Append(@, [key |-> request[r].key, outcome |-> request[r].outcome])]
     \/ (closed \/ Failing) /\ UNCHANGED stats
  /\ Goto(r, "done")
  /\ UNCHANGED <<keys, active, events, closed>>

\* Where it shows: in the calls that its context ends.
Disconnect(r) ==
  /\ request[r].pc \in {"auth", "use", "write"}
  /\ request[r].connected
  /\ request' = [request EXCEPT ![r].connected = FALSE]
  /\ UNCHANGED <<keys, active, events, stats, closed>>

\* The gateway shuts down while handlers still run.
StoreCloses ==
  /\ ~closed
  /\ closed' = TRUE
  /\ UNCHANGED <<keys, active, request, events, stats>>

Step(r) ==
  \/ Receive(r) \/ Authenticate(r) \/ NoteUse(r) \/ Admit(r) \/ TurnAway(r) \/ Decode(r)
  \/ Review(r) \/ Write(r) \/ GiveBack(r) \/ Record(r) \/ Disconnect(r)

ApiNext ==
  \/ \E k \in ApiKeys : Create(k) \/ Revoke(k)
  \/ \E r \in Requests : Step(r)
  \/ StoreCloses

ApiSpec == ApiInit /\ [][ApiNext]_apiVars

-----------------------------------------------------------------------------
(***************************************************************************)
(* Properties.                                                             *)
(***************************************************************************)

Inside == {r \in Requests : request[r].pc \in {"body", "review", "write", "leave"}}

TurnedAway == {r \in Requests : At(r, "over")}

\* However requests come, fail, are turned away and lose their clients, no more
\* than the limit are inside, and the counter returns every place that was taken:
\* it never shuts the interface (reviewAPI).
GateExact ==
  /\ Cardinality(Inside) <= Cap
  /\ active = Cardinality(Inside) + Cardinality(TurnedAway)

\* A request that came in after its key was revoked gets neither a place nor a
\* decision, at whatever gateway (AuthenticateReviewAPIKey, RevokeReviewAPIKey).
RevokedIsRefused ==
  \A r \in Requests :
    request[r].late => r \notin Inside \cup TurnedAway /\ request[r].answer \notin {200, 429}

\* The audit log and the statistics agree on every request: at most one entry in
\* each, an event only for a request that was flagged under its own key, and a
\* statistic of a flagged one without its event only when the client had left, also
\* if the telemetry store closes in between (reviewAPI).
AuditAgrees ==
  \A r \in Requests :
    /\ events[r] <= 1 /\ Len(stats[r]) <= 1
    /\ \A i \in DOMAIN stats[r] :
         LET stat == stats[r][i] IN
         /\ stat.outcome = "error" <=> request[r].answer # 200
         /\ events[r] = 1 => /\ stat.outcome \in {"hit", "blocked"}
                             /\ stat.key = request[r].secret
         /\ stat.outcome \in {"hit", "blocked"} /\ request[r].connected => events[r] = 1

=============================================================================
