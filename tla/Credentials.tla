----------------------------- MODULE Credentials -----------------------------
(***************************************************************************)
(* Trusted keys and stored credentials.  A calling key is trusted, for one *)
(* upstream, once that upstream has answered it; trust lives in a Redis    *)
(* sorted set, the encrypted credential in PostgreSQL next to the audit    *)
(* events that name it, and a Redis marker says that it is stored.  A      *)
(* cleanup in every gateway deletes credentials nobody needs.              *)
(***************************************************************************)
EXTENDS Integers, FiniteSets, Sequences

CONSTANTS
  Nodes,      \* gateways
  Requests,   \* business requests that will be made: the bound on activity
  Upstreams,  \* destinations an administrator may configure
  Faults      \* subset of {"redis", "postgres"}: a call fails

\* A request without a credential has no key; with the one credential modelled
\* its key is the fingerprint of the credential and the destination.
NoKey == "no key"

Keys == Upstreams

ASSUME CredentialsAssumption ==
  /\ NoKey \notin Upstreams
  /\ Faults \subseteq {"redis", "postgres"}

VARIABLES
  upstream,   \* the configured destination
  trusted,    \* members of the sorted set sael:trusted_keys
  lapsed,     \* those whose idle time has passed
  marked,     \* keys with a sael:credential marker
  stored,     \* gateway_credentials: "none", "recent" or "old" (retained_at)
  request,    \* each request's gateway, key and progress
  event,      \* where the audit event of each request is
  spooling,   \* of each gateway: the producer spools
  prune,      \* of each gateway: how far PruneCredentials is
  verified,   \* history: keys whose upstream answered 2xx
  counted     \* history: keys with a stored credential when their event was accepted

vars == <<upstream, trusted, lapsed, marked, stored, request, event, spooling,
          prune, verified, counted>>

trust == <<trusted, lapsed>>

Unsent == [pc |-> "unsent", node |-> "", key |-> NoKey, trusted |-> FALSE]

NoPrune == [pc |-> "idle", ids |-> {}]

Init ==
  /\ upstream \in Upstreams
  /\ trusted = {}
  /\ lapsed = {}
  /\ marked = {}
  /\ stored = [k \in Keys |-> "none"]
  /\ request = [r \in Requests |-> Unsent]
  /\ event = [r \in Requests |-> "none"]
  /\ spooling = [n \in Nodes |-> FALSE]
  /\ prune = [n \in Nodes |-> NoPrune]
  /\ verified = {}
  /\ counted = {}

At(r, pc) == request[r].pc = pc

Goto(r, pc) == request' = [request EXCEPT ![r].pc = pc]

-----------------------------------------------------------------------------
(***************************************************************************)
(* trustedKeyScript: expire, then touch, learn or nothing (prune).         *)
(***************************************************************************)

Alive == trusted \ lapsed

\* The other members that have lapsed are removed with it.
Touch(k) ==
  /\ trusted' = Alive
  /\ lapsed' = {}

Learn(k) ==
  /\ trusted' = Alive \cup {k}
  /\ lapsed' = {}

-----------------------------------------------------------------------------
(***************************************************************************)
(* A request: prepareForward, CaptureCredential, the upstream's answer and *)
(* observeCredential.                                                      *)
(***************************************************************************)

Prepare(r, n, k) ==
  /\ At(r, "unsent")
  /\ k \in {upstream, NoKey}
  /\ LET known == k \in Alive IN
     request' = [request EXCEPT ![r] =
       [pc |-> IF known THEN "capture" ELSE "forward", node |-> n, key |-> k,
        trusted |-> known]]
  /\ \/ k # NoKey /\ Touch(k)
     \/ k = NoKey /\ UNCHANGED trust
  /\ UNCHANGED <<upstream, marked, stored, event, spooling, prune, verified, counted>>

Stored(k) == stored' = [stored EXCEPT ![k] = "recent"]

\* A call that was executed may still fail, which ends the request or the learning.
Onward(r, pc) == Goto(r, pc) \/ (Faults # {} /\ Goto(r, "done"))

\* The marker answers for the database; without it the credential is stored, then
\* marked.
Capture(r) ==
  /\ At(r, "capture")
  /\ \/ /\ request[r].key \in marked
        /\ Goto(r, "review")
        /\ UNCHANGED stored
     \/ /\ request[r].key \notin marked
        /\ Stored(request[r].key)
        /\ Onward(r, "mark")
  /\ UNCHANGED <<upstream, trust, marked, event, spooling, prune, verified, counted>>

Mark(r) ==
  /\ \/ At(r, "mark") /\ Onward(r, "review")
     \/ At(r, "register mark") /\ Onward(r, "remember")
  /\ marked' = marked \cup {request[r].key}
  /\ UNCHANGED <<upstream, trust, stored, event, spooling, prune, verified, counted>>

\* A call to Redis or PostgreSQL fails before it took effect: the request is refused, or the key not learned.
CredentialFail(r) ==
  /\ Faults # {}
  /\ request[r].pc \in {"capture", "mark", "register", "register mark", "remember"}
  /\ Goto(r, "done")
  /\ UNCHANGED <<upstream, trust, marked, stored, event, spooling, prune, verified,
                 counted>>

\* A trusted request is reviewed and may leave an event naming its key, which is
\* accepted when it is in the queue.
Review(r) ==
  /\ At(r, "review")
  /\ Goto(r, "forward")
  /\ \/ UNCHANGED <<event, counted>>
     \/ /\ event' = [event EXCEPT ![r] = "queue"]
        /\ counted' = IF stored[request[r].key] # "none"
                        THEN counted \cup {r} ELSE counted
  /\ UNCHANGED <<upstream, trust, marked, stored, spooling, prune, verified>>

\* Variant: the answer counts for the destination configured now.
VerifiedNow(r) == upstream

\* The destination the request was sent to is the one it was prepared for.
VerifiedKey(r) == request[r].key

\* Variant: a request without a credential teaches one as well.
Teaches(r) == ~request[r].trusted

HasNewKey(r) == ~request[r].trusted /\ request[r].key # NoKey

\* The upstream answers: 2xx with JSON or an event stream, 401, or anything else.
Answer(r) ==
  /\ At(r, "forward")
  /\ \/ /\ verified' = verified \cup ({request[r].key} \ {NoKey})
        /\ \/ /\ HasNewKey(r)
              /\ request' = [request EXCEPT ![r].pc = "register",
                                            ![r].key = VerifiedKey(r)]
           \/ /\ ~HasNewKey(r)
              /\ Goto(r, "done")
        /\ UNCHANGED trust
     \/ /\ request[r].key # NoKey
        /\ trusted' = trusted \ {request[r].key}
        /\ lapsed' = lapsed \ {request[r].key}
        /\ Goto(r, "done")
        /\ UNCHANGED verified
     \/ Goto(r, "done") /\ UNCHANGED <<trust, verified>>
  /\ UNCHANGED <<upstream, marked, stored, event, spooling, prune, counted>>

\* Variant: the marker stands for the row, as in CaptureCredential.
RegisterMarked(r) ==
  /\ At(r, "register")
  /\ IF request[r].key \in marked
       THEN UNCHANGED stored ELSE Stored(request[r].key)
  /\ Onward(r, "register mark")
  /\ UNCHANGED <<upstream, trust, marked, event, spooling, prune, verified, counted>>

\* RegisterCredential always writes the row.
Register(r) ==
  /\ At(r, "register")
  /\ Stored(request[r].key)
  /\ Onward(r, "register mark")
  /\ UNCHANGED <<upstream, trust, marked, event, spooling, prune, verified, counted>>

Remember(r) ==
  /\ At(r, "remember")
  /\ Learn(request[r].key)
  /\ Goto(r, "done")
  /\ UNCHANGED <<upstream, marked, stored, event, spooling, prune, verified, counted>>

-----------------------------------------------------------------------------
(***************************************************************************)
(* What happens to an event (module Telemetry has the detail), and time.   *)
(***************************************************************************)

Moves ==
  {<<"queue", "batch">>, <<"batch", "stream">>, <<"batch", "spool">>,
   <<"spool", "stream">>, <<"stream", "audit">>, <<"audit", "expired">>}

\* Collect, publish, append, replay, apply, and Prune of old events.
MoveEvent(r) ==
  /\ \E to \in {m[2] : m \in {x \in Moves : x[1] = event[r]}} :
       /\ event' = [event EXCEPT ![r] = to]
       /\ LET n == request[r].node IN
          spooling' = [spooling EXCEPT ![n] =
            to = "spool" \/ \E q \in Requests : event'[q] = "spool" /\ request[q].node = n]
  /\ UNCHANGED <<upstream, trust, marked, stored, request, prune, verified, counted>>

\* An administrator saves another destination.
Switch(u) ==
  /\ u # upstream
  /\ upstream' = u
  /\ UNCHANGED <<trust, marked, stored, request, event, spooling, prune, verified,
                 counted>>

\* The idle time passes without a request of the key; its marker goes at about the
\* same time, sooner or later.
Lapse(k) ==
  /\ k \in Alive
  /\ lapsed' = lapsed \cup {k}
  /\ UNCHANGED <<upstream, trusted, marked, stored, request, event, spooling, prune,
                 verified, counted>>

ExpireMarker(k) ==
  /\ k \in marked
  /\ marked' = marked \ {k}
  /\ UNCHANGED <<upstream, trust, stored, request, event, spooling, prune, verified,
                 counted>>

\* A day passes: not while an observeCredential (one second) is under way, nor between
\* the last reads of a cleanup (ten seconds) and its DELETE.
GrowOld(k) ==
  /\ stored[k] = "recent"
  /\ \A r \in Requests :
       request[r].key = k => request[r].pc \notin {"register", "register mark", "remember"}
  /\ \A n \in Nodes : prune[n].pc # "delete"
  /\ stored' = [stored EXCEPT ![k] = "old"]
  /\ UNCHANGED <<upstream, trust, marked, request, event, spooling, prune, verified,
                 counted>>

\* PruneTrustedKeys, every thirty seconds.
PruneTrusted ==
  /\ lapsed # {}
  /\ trusted' = Alive
  /\ lapsed' = {}
  /\ UNCHANGED <<upstream, marked, stored, request, event, spooling, prune, verified,
                 counted>>

-----------------------------------------------------------------------------
(***************************************************************************)
(* PruneCredentials: each check is a call of its own.                      *)
(***************************************************************************)

Of(n) == {r \in Requests : request[r].node = n}

PruneStep(n, from, to) ==
  /\ prune[n].pc = from
  /\ prune' = [prune EXCEPT ![n].pc = to]
  /\ UNCHANGED <<upstream, trust, marked, stored, request, event, spooling, verified,
                 counted>>

PruneQueue(n) ==
  /\ \A r \in Of(n) : event[r] # "queue"
  /\ PruneStep(n, "idle", "stream")

PruneStream(n) ==
  \/ (\A r \in Requests : event[r] # "stream") /\ PruneStep(n, "stream", "spool")
  \/ (\E r \in Requests : event[r] = "stream") /\ PruneStep(n, "stream", "idle")

PruneSpool(n) ==
  \/ ~spooling[n] /\ PruneStep(n, "spool", "ids")
  \/ spooling[n] /\ PruneStep(n, "spool", "idle")

PruneIds(n) ==
  /\ prune[n].pc = "ids"
  /\ prune' = [prune EXCEPT ![n] = [pc |-> "delete", ids |-> trusted]]
  /\ UNCHANGED <<upstream, trust, marked, stored, request, event, spooling, verified,
                 counted>>

Audited(k) == \E r \in Requests : request[r].key = k /\ event[r] = "audit"

Deletable(n) == {k \in Keys \ prune[n].ids : stored[k] = "old" /\ ~Audited(k)}

PruneDelete(n) ==
  /\ prune[n].pc = "delete"
  /\ stored' = [k \in Keys |-> IF k \in Deletable(n) THEN "none" ELSE stored[k]]
  /\ prune' = [prune EXCEPT ![n] = [pc |-> "markers", ids |-> Deletable(n)]]
  /\ UNCHANGED <<upstream, trust, marked, request, event, spooling, verified, counted>>

PruneMarkers(n) ==
  /\ prune[n].pc = "markers"
  /\ \/ marked' = marked \ prune[n].ids
     \/ "redis" \in Faults /\ UNCHANGED marked
  /\ prune' = [prune EXCEPT ![n] = NoPrune]
  /\ UNCHANGED <<upstream, trust, stored, request, event, spooling, verified, counted>>

\* A call fails, or the gateway is restarted.
PruneFail(n) ==
  /\ Faults # {}
  /\ prune[n].pc # "idle"
  /\ prune' = [prune EXCEPT ![n] = NoPrune]
  /\ UNCHANGED <<upstream, trust, marked, stored, request, event, spooling, verified,
                 counted>>

-----------------------------------------------------------------------------

Handle(r) ==
  \/ Capture(r) \/ Mark(r) \/ CredentialFail(r) \/ Review(r) \/ Answer(r)
  \/ Register(r) \/ Remember(r)

Prune(n) ==
  \/ PruneQueue(n) \/ PruneStream(n) \/ PruneSpool(n) \/ PruneIds(n)
  \/ PruneDelete(n) \/ PruneMarkers(n) \/ PruneFail(n)

Next ==
  \/ \E r \in Requests, n \in Nodes, k \in Keys \cup {NoKey} : Prepare(r, n, k)
  \/ \E r \in Requests : Handle(r) \/ MoveEvent(r)
  \/ \E u \in Upstreams : Switch(u)
  \/ \E k \in Keys : Lapse(k) \/ ExpireMarker(k) \/ GrowOld(k)
  \/ PruneTrusted
  \/ \E n \in Nodes : Prune(n)

Spec == Init /\ [][Next]_vars

-----------------------------------------------------------------------------

\* The state of every variable; no entry stands for requests without a credential.
TypeOK ==
  /\ upstream \in Upstreams
  /\ trusted \subseteq Keys
  /\ lapsed \subseteq trusted
  /\ marked \subseteq Keys
  /\ stored \in [Keys -> {"none", "recent", "old"}]
  /\ request \in [Requests ->
       [pc: {"unsent", "capture", "mark", "review", "forward", "register",
             "register mark", "remember", "done"},
        node: Nodes \cup {""}, key: Keys \cup {NoKey}, trusted: BOOLEAN]]
  /\ event \in [Requests ->
       {"none", "queue", "batch", "spool", "stream", "audit", "expired"}]
  /\ spooling \in [Nodes -> BOOLEAN]
  /\ prune \in [Nodes -> [pc: {"idle", "stream", "spool", "ids", "delete", "markers"},
                          ids: SUBSET Keys]]
  /\ verified \subseteq Keys
  /\ counted \subseteq Requests

\* A key is trusted for a destination only when that destination has answered it,
\* whichever destinations were configured while the answer was on its way.
TrustIsEarned == trusted \subseteq verified

\* A trusted key's credential is stored, through expiry, revocation, relearning and
\* every order of a cleanup's calls with those of a request; "an old Redis marker
\* cannot substitute for this durable write".
TrustedIsStored == \A k \in Alive : stored[k] # "none"

\* "Retain credentials while accepted telemetry is still awaiting persistence"
\* (PruneCredentials): an event accepted with its credential stored keeps it.
AcceptedKeepsCredential ==
  \A r \in counted :
    event[r] \in {"queue", "batch", "spool", "stream", "audit"} =>
      stored[request[r].key] # "none"

=============================================================================
