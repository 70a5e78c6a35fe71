--------------------------- MODULE ReviewApiProofs ---------------------------
(***************************************************************************)
(* Theorems about ReviewApi, for any number of requests and keys and any   *)
(* limit, whatever fails.                                                  *)
(*                                                                         *)
(* The gate: the counter is the number of requests inside and of those     *)
(* about to be turned away, so a request enters only where the others      *)
(* inside leave a place.  The key: one that is revoked stays so, hence a   *)
(* request that came late never gets past its authentication.  The audit:  *)
(* what the deferred calls record is what the review has left, because     *)
(* outcome, key and event no longer change once the review is over.        *)
(***************************************************************************)
EXTENDS ReviewApi, FiniteSetTheorems, TLAPS

\* Before a place is asked for and after it is given back; and inside.
Outside == {"idle", "auth", "use", "admit", "stat", "done"}

Inner == {"body", "review", "write", "leave"}

Fields == DOMAIN NoRequest

Shape ==
  /\ keys \in [ApiKeys -> {"none", "valid", "revoked"}]
  /\ DOMAIN request = Requests /\ \A r \in Requests : DOMAIN request[r] = Fields
  /\ DOMAIN events = Requests
  /\ DOMAIN stats = Requests

\* Who came late came with a key that is revoked.
LEMMA ReceiveIs ==
  ASSUME NEW r \in Requests, Receive(r)
  PROVE  \/ \E status \in {404, 503} : Answer(r, status, "done")
         \/ \E late : \E secret \in {NoSecret} \cup ApiKeys :
              /\ request' = [request EXCEPT ![r].pc = "auth", ![r].secret = secret, ![r].late = late]
              /\ late => secret # NoSecret /\ keys[secret] # "none" /\ keys[secret] # "valid"
<1>1. CASE \E status \in {404, 503} : Answer(r, status, "done")
  BY <1>1
<1>2. CASE \E secret \in {NoSecret} \cup {k \in ApiKeys : keys[k] # "none"} :
             request' = [request EXCEPT ![r].pc = "auth", ![r].secret = secret,
                           ![r].late = secret # NoSecret /\ keys[secret] # "valid"]
  <2>1. PICK secret \in {NoSecret} \cup {k \in ApiKeys : keys[k] # "none"} :
             request' = [request EXCEPT ![r].pc = "auth", ![r].secret = secret,
                           ![r].late = secret # NoSecret /\ keys[secret] # "valid"]
    BY <1>2
  <2> DEFINE late == secret # NoSecret /\ keys[secret] # "valid"
  <2>2. request' = [request EXCEPT ![r].pc = "auth", ![r].secret = secret, ![r].late = late]
    BY <2>1, Zenon
  <2>3. /\ late => secret # NoSecret /\ keys[secret] # "none" /\ keys[secret] # "valid"
        /\ secret \in {NoSecret} \cup ApiKeys
    BY <2>1
  <2> HIDE DEF late
  <2> QED BY <2>2, <2>3
<1> QED BY <1>1, <1>2, Zenon DEF Receive

LEMMA InitShape == ApiInit => Shape
  BY DEF ApiInit, Shape, Fields

LEMMA NextShape == Shape /\ [ApiNext]_apiVars => Shape'
<1> SUFFICES ASSUME Shape, [ApiNext]_apiVars PROVE Shape'
  OBVIOUS
<1>1. ASSUME NEW k \in ApiKeys, Create(k) \/ Revoke(k) PROVE Shape'
  BY <1>1 DEF Shape, Create, Revoke
<1>2. ASSUME NEW r \in Requests, Step(r) PROVE Shape'
  <2>1. /\ UNCHANGED keys /\ DOMAIN events' = Requests /\ DOMAIN stats' = Requests
    BY <1>2 DEF Shape, Step, Receive, Authenticate, NoteUse, Admit, TurnAway, Decode, Review, Write,
                GiveBack, Record, Disconnect
  <2>2. CASE Authenticate(r) \/ NoteUse(r)
    BY <2>1, <2>2 DEF Shape, Authenticate, NoteUse, Answer, Goto
  <2>5. CASE Receive(r)
    <3>1. CASE \E status \in {404, 503} : Answer(r, status, "done")
      BY <2>1, <3>1 DEF Shape, Answer
    <3>2. CASE \E secret, late :
                 request' = [request EXCEPT ![r].pc = "auth", ![r].secret = secret, ![r].late = late]
      BY <2>1, <3>2 DEF Shape
    <3> QED BY <2>5, <3>1, <3>2, ReceiveIs
  <2>3. CASE Admit(r) \/ TurnAway(r) \/ Decode(r) \/ Review(r)
    BY <2>1, <2>3 DEF Shape, Admit, TurnAway, Decode, Review, Answer, Goto
  <2>4. CASE Write(r) \/ GiveBack(r) \/ Record(r) \/ Disconnect(r)
    BY <2>1, <2>4 DEF Shape, Write, GiveBack, Record, Disconnect, Goto
  <2> QED BY <1>2, <2>2, <2>3, <2>4, <2>5 DEF Step
<1>3. CASE UNCHANGED apiVars \/ StoreCloses
  BY <1>3 DEF apiVars, StoreCloses, Shape
<1> QED BY <1>1, <1>2, <1>3 DEF ApiNext

-----------------------------------------------------------------------------
(***************************************************************************)
(* The gate.                                                               *)
(***************************************************************************)

LEMMA SetsFinite == IsFiniteSet(Inside) /\ IsFiniteSet(TurnedAway)
  BY ReviewApiAssumption, FS_Subset DEF Inside, TurnedAway

\* r goes from a place to a place.
Walks(r, pc) ==
  /\ request[r].pc # pc
  /\ request'[r].pc = pc
  /\ \A q \in Requests \ {r} : request'[q].pc = request[q].pc

LEMMA WalkSets ==
  ASSUME NEW r \in Requests, NEW pc, Walks(r, pc)
  PROVE  /\ Inside' = IF pc \in Inner THEN Inside \cup {r} ELSE Inside \ {r}
         /\ TurnedAway' = IF pc = "over" THEN TurnedAway \cup {r} ELSE TurnedAway \ {r}
  BY DEF Walks, Inside, TurnedAway, At, Inner

LEMMA StepWalks ==
  ASSUME Shape, NEW r \in Requests, Step(r)
  PROVE  \/ /\ UNCHANGED active /\ \A q \in Requests : request'[q].pc = request[q].pc
         \/ /\ UNCHANGED active /\ request[r].pc \in Outside \ {"admit"}
            /\ \E pc \in Outside : Walks(r, pc)
         \/ /\ request[r].pc = "admit" /\ active' = active + 1
            /\ Walks(r, IF active + 1 > Cap THEN "over" ELSE "body")
         \/ /\ request[r].pc = "over" /\ active' = active - 1 /\ Walks(r, "stat")
         \/ /\ UNCHANGED active /\ request[r].pc \in Inner
            /\ \E pc \in Inner : Walks(r, pc)
         \/ /\ request[r].pc = "leave" /\ active' = active - 1 /\ Walks(r, "stat")
<1>1. CASE Receive(r)
  <2>1. UNCHANGED active /\ request[r].pc = "idle"
    BY <1>1 DEF Receive, At
  <2>2. \E pc \in {"auth", "done"} : Walks(r, pc)
    <3>1. CASE \E status \in {404, 503} : Answer(r, status, "done")
      BY <2>1, <3>1 DEF Shape, Fields, NoRequest, Answer, Walks
    <3>2. CASE \E secret, late :
                 request' = [request EXCEPT ![r].pc = "auth", ![r].secret = secret, ![r].late = late]
      BY <2>1, <3>2 DEF Shape, Fields, NoRequest, Walks
    <3> QED BY <1>1, <3>1, <3>2, ReceiveIs
  <2> QED BY <2>1, <2>2 DEF Outside
<1>2. CASE Authenticate(r)
  BY <1>2 DEF Shape, Fields, NoRequest, Authenticate, Answer, Goto, At, Walks, Outside
<1>3. CASE NoteUse(r)
  BY <1>3 DEF Shape, Fields, NoRequest, NoteUse, Answer, At, Walks, Outside
<1>4. CASE Admit(r)
  BY <1>4 DEF Shape, Fields, NoRequest, Admit, Goto, At, Walks
<1>5. CASE TurnAway(r)
  BY <1>5 DEF Shape, Fields, NoRequest, TurnAway, Answer, At, Walks
<1>6. CASE Decode(r)
  BY <1>6 DEF Shape, Fields, NoRequest, Decode, Answer, Goto, At, Walks, Inner
<1>7. CASE Review(r)
  BY <1>7 DEF Shape, Fields, NoRequest, Review, At, Walks, Inner
<1>8. CASE Write(r) \/ GiveBack(r)
  BY <1>8 DEF Shape, Fields, NoRequest, Write, GiveBack, Goto, At, Walks, Inner
<1>9. CASE Record(r) \/ Disconnect(r)
  BY <1>9 DEF Shape, Fields, NoRequest, Record, Disconnect, Goto, At, Walks, Outside
<1> QED BY <1>1, <1>2, <1>3, <1>4, <1>5, <1>6, <1>7, <1>8, <1>9 DEF Step

LEMMA StepGate ==
  ASSUME Shape, GateExact, NEW r \in Requests, Step(r)
  PROVE  GateExact'
<1> DEFINE I == Cardinality(Inside)
           O == Cardinality(TurnedAway)
<1>1. I \in Nat /\ O \in Nat /\ I <= Cap /\ active = I + O /\ Cap \in Nat
  BY SetsFinite, FS_CardinalityType, ReviewApiAssumption DEF GateExact
<1>2. /\ r \in Inside <=> request[r].pc \in Inner
      /\ r \in TurnedAway <=> request[r].pc = "over"
  BY DEF Inside, TurnedAway, At, Inner
<1>3. /\ Cardinality(Inside \cup {r}) = IF r \in Inside THEN I ELSE I + 1
      /\ Cardinality(Inside \ {r}) = IF r \in Inside THEN I - 1 ELSE I
      /\ Cardinality(TurnedAway \cup {r}) = IF r \in TurnedAway THEN O ELSE O + 1
      /\ Cardinality(TurnedAway \ {r}) = IF r \in TurnedAway THEN O - 1 ELSE O
  BY SetsFinite, FS_AddElement, FS_RemoveElement
<1>4. CASE UNCHANGED active /\ \A q \in Requests : request'[q].pc = request[q].pc
  <2>1. Inside' = Inside /\ TurnedAway' = TurnedAway
    BY <1>4 DEF Inside, TurnedAway, At
  <2> QED BY <1>4, <2>1 DEF GateExact
<1> DEFINE Ends == Cardinality(Inside') <= Cap /\ active' = Cardinality(Inside') + Cardinality(TurnedAway')
<1>5. ASSUME NEW pc \in Outside, Walks(r, pc), UNCHANGED active, request[r].pc \in Outside
      PROVE  Ends
  BY <1>1, <1>2, <1>3, <1>5, WalkSets DEF Outside, Inner
<1>6. ASSUME request[r].pc = "admit", active' = active + 1,
             Walks(r, IF active + 1 > Cap THEN "over" ELSE "body")
      PROVE  Ends
  <2>0. r \notin Inside /\ r \notin TurnedAway
    BY <1>2, <1>6 DEF Inner
  <2>1. CASE active + 1 > Cap
    <3>1. Inside' = Inside \ {r} /\ TurnedAway' = TurnedAway \cup {r}
      BY <1>6, <2>1, WalkSets DEF Inner
    <3> QED BY <1>1, <1>3, <1>6, <2>0, <3>1
  <2>2. CASE ~(active + 1 > Cap)
    <3>1. Inside' = Inside \cup {r} /\ TurnedAway' = TurnedAway \ {r}
      BY <1>6, <2>2, WalkSets DEF Inner
    <3> QED BY <1>1, <1>3, <1>6, <2>0, <2>2, <3>1
  <2> QED BY <2>1, <2>2
<1>7. ASSUME request[r].pc = "over", active' = active - 1, Walks(r, "stat") PROVE Ends
  <2>1. r \notin Inside /\ r \in TurnedAway
    BY <1>2, <1>7 DEF Inner
  <2>2. Inside' = Inside \ {r} /\ TurnedAway' = TurnedAway \ {r}
    BY <1>7, WalkSets DEF Inner
  <2> QED BY <1>1, <1>3, <1>7, <2>1, <2>2
<1>8. ASSUME NEW pc \in Inner, Walks(r, pc), UNCHANGED active, request[r].pc \in Inner
      PROVE  Ends
  BY <1>1, <1>2, <1>3, <1>8, WalkSets DEF Inner
<1>9. ASSUME request[r].pc = "leave", active' = active - 1, Walks(r, "stat") PROVE Ends
  <2>1. r \in Inside /\ r \notin TurnedAway
    BY <1>2, <1>9 DEF Inner
  <2>2. Inside' = Inside \ {r} /\ TurnedAway' = TurnedAway \ {r}
    BY <1>9, WalkSets DEF Inner
  <2> QED BY <1>1, <1>3, <1>9, <2>1, <2>2
<1> QED BY <1>4, <1>5, <1>6, <1>7, <1>8, <1>9, StepWalks DEF GateExact

\* However requests come, fail, are turned away and lose their clients, no more than
\* the limit are inside, and every place that is taken is given back (reviewAPI).
THEOREM GateCorrect == ApiSpec => []GateExact
<1>1. ApiInit => GateExact
  <2> SUFFICES ASSUME ApiInit PROVE GateExact
    OBVIOUS
  <2>1. Inside = {} /\ TurnedAway = {} /\ active = 0
    BY DEF ApiInit, Inside, TurnedAway, At, NoRequest
  <2> QED BY <2>1, FS_EmptySet, ReviewApiAssumption DEF GateExact
<1>2. Shape /\ GateExact /\ [ApiNext]_apiVars => GateExact'
  <2> SUFFICES ASSUME Shape, GateExact, [ApiNext]_apiVars PROVE GateExact'
    OBVIOUS
  <2>1. ASSUME UNCHANGED <<request, active>> PROVE GateExact'
    BY <2>1 DEF GateExact, Inside, TurnedAway, At
  <2> QED BY <2>1, StepGate DEF ApiNext, Create, Revoke, StoreCloses, apiVars
<1> QED BY <1>1, <1>2, InitShape, NextShape, PTL DEF ApiSpec

-----------------------------------------------------------------------------
(***************************************************************************)
(* The key, and what is recorded.                                          *)
(***************************************************************************)

\* Nothing of a request that came late is let in.
Late(t) ==
  /\ t.pc = "idle" => t.answer = 0
  /\ t.late => /\ t.secret \in ApiKeys /\ keys[t.secret] = "revoked"
               /\ t.pc \in {"auth", "stat", "done"}
               /\ t.answer \notin {200, 429}

\* t and what was written about it: e events, s statistics; c: the store has closed.
Written(t, e, s, c) ==
  /\ t.outcome = "error" <=> t.answer # 200
  /\ t.pc \in {"idle", "auth", "use", "admit", "over", "body", "review"} => t.outcome = "error"
  /\ t.pc \in {"admit", "over"} \cup Inner => t.key = t.secret
  /\ t.pc = "write" => Flagged(t.outcome)
  /\ t.pc \in Outside \cup {"over"} \cup Inner
  /\ e \in {0, 1}
  /\ t.pc \notin {"leave", "stat", "done"} => e = 0
  /\ e = 1 => Flagged(t.outcome) /\ t.key = t.secret
  /\ t.pc \in {"leave", "stat", "done"} /\ Flagged(t.outcome) /\ t.connected =>
       e = 1 \/ (c /\ s = <<>>)
  /\ s = <<>> \/ (t.pc = "done" /\ s = <<[key |-> t.key, outcome |-> t.outcome]>>)

LateInv == \A r \in Requests : Late(request[r])

WrittenInv == \A r \in Requests : Written(request[r], events[r], stats[r], closed)

LEMMA StepAlone ==
  ASSUME Shape, NEW r \in Requests, Step(r)
  PROVE  /\ UNCHANGED <<keys, closed>>
         /\ \A q \in Requests \ {r} : /\ request'[q] = request[q] /\ events'[q] = events[q]
                                      /\ stats'[q] = stats[q]
<1>1. UNCHANGED <<keys, closed>>
  BY DEF Step, Receive, Authenticate, NoteUse, Admit, TurnAway, Decode, Review, Write, GiveBack, Record,
         Disconnect
<1>2. \A q \in Requests \ {r} : events'[q] = events[q] /\ stats'[q] = stats[q]
  BY DEF Step, Shape, Receive, Authenticate, NoteUse, Admit, TurnAway, Decode, Review, Write, GiveBack,
         Record, Disconnect
<1>3. \A q \in Requests \ {r} : request'[q] = request[q]
  <2>1. CASE Receive(r)
    <3>1. CASE \E status \in {404, 503} : Answer(r, status, "done")
      BY <3>1 DEF Shape, Answer
    <3>2. CASE \E secret, late :
                 request' = [request EXCEPT ![r].pc = "auth", ![r].secret = secret, ![r].late = late]
      BY <3>2 DEF Shape
    <3> QED BY <2>1, <3>1, <3>2, ReceiveIs
  <2>2. CASE Authenticate(r) \/ NoteUse(r) \/ Admit(r) \/ TurnAway(r) \/ Decode(r)
    BY <2>2 DEF Shape, Authenticate, NoteUse, Admit, TurnAway, Decode, Answer, Goto
  <2>3. CASE Review(r) \/ Write(r) \/ GiveBack(r) \/ Record(r) \/ Disconnect(r)
    BY <2>3 DEF Shape, Review, Write, GiveBack, Record, Disconnect, Goto
  <2> QED BY <2>1, <2>2, <2>3 DEF Step
<1> QED BY <1>1, <1>2, <1>3

\* Nothing but the place and the answer changes, or the place alone.
Others(t, u) == /\ u.secret = t.secret /\ u.late = t.late /\ u.connected = t.connected
                /\ u.key = t.key /\ u.outcome = t.outcome

Moves(t, u) == Others(t, u) /\ u.answer = t.answer

\* What the steps of reviewAPI make of a request t with e events and statistics s.
Answered(t, u) ==
  /\ Others(t, u)
  /\ \/ t.pc = "idle" /\ u.pc = "done" /\ u.answer \in {404, 503}
     \/ t.pc \in {"auth", "use"} /\ u.pc = "stat" /\ u.answer \in {401, 503}
     \/ t.pc = "over" /\ u.pc = "stat" /\ u.answer = 429
     \/ t.pc = "body" /\ u.pc = "leave" /\ u.answer = 400

Moved(t, u) ==
  /\ Moves(t, u)
  /\ \/ t.pc = "auth" /\ Found(t.secret) /\ u.pc = "use"
     \/ t.pc = "admit" /\ u.pc \in {"over", "body"}
     \/ t.pc = "body" /\ u.pc = "review"
     \/ t.pc = "leave" /\ u.pc = "stat"

Received(t, u) ==
  /\ t.pc = "idle" /\ u.pc = "auth"
  /\ u.connected = t.connected /\ u.key = t.key /\ u.outcome = t.outcome /\ u.answer = t.answer
  /\ u.late => u.secret \in ApiKeys /\ keys[u.secret] # "none" /\ keys[u.secret] # "valid"

Noted(t, u) ==
  /\ t.pc = "use" /\ u.pc = "admit" /\ u.key = t.secret
  /\ u.secret = t.secret /\ u.late = t.late /\ u.connected = t.connected
  /\ u.outcome = t.outcome /\ u.answer = t.answer

Reviewed(t, u) ==
  /\ t.pc = "review"
  /\ u.secret = t.secret /\ u.late = t.late /\ u.connected = t.connected /\ u.key = t.key
  /\ u.outcome \in {"allowed", "hit", "blocked", "error"}
  /\ u.answer = IF u.outcome = "error" THEN 503 ELSE 200
  /\ u.pc = IF Flagged(u.outcome) THEN "write" ELSE "leave"

Left(t, u) ==
  /\ u.pc = t.pc /\ t.pc \in {"auth", "use", "write"}
  /\ u.secret = t.secret /\ u.late = t.late /\ u.connected = FALSE
  /\ u.key = t.key /\ u.outcome = t.outcome /\ u.answer = t.answer

Wrote(t, u, e, f) ==
  /\ Moves(t, u) /\ t.pc = "write" /\ u.pc = "leave"
  /\ f = e + 1 \/ ((closed \/ ~t.connected) /\ f = e)

Recorded(t, u, s, v) ==
  /\ Moves(t, u) /\ t.pc = "stat" /\ u.pc = "done"
  /\ (~closed /\ v = Append(s, [key |-> t.key, outcome |-> t.outcome])) \/ v = s

Steps(t, u, e, f, s, v) ==
  \/ e = f /\ s = v /\ \/ Answered(t, u) \/ Moved(t, u) \/ Received(t, u) \/ Noted(t, u)
                       \/ Reviewed(t, u) \/ Left(t, u)
  \/ s = v /\ Wrote(t, u, e, f)
  \/ e = f /\ Recorded(t, u, s, v)

LEMMA StepSteps ==
  ASSUME Shape, NEW r \in Requests, Step(r)
  PROVE  Steps(request[r], request'[r], events[r], events'[r], stats[r], stats'[r])
<1> DEFINE t == request[r]
           u == request'[r]
<1>1. CASE Receive(r)
  <2>1. events' = events /\ stats' = stats /\ t.pc = "idle"
    BY <1>1 DEF Receive, At
  <2>2. CASE \E status \in {404, 503} : Answer(r, status, "done")
    BY <2>1, <2>2 DEF Shape, Fields, NoRequest, Answer, Steps, Answered, Others
  <2>3. ASSUME NEW secret \in {NoSecret} \cup ApiKeys, NEW late,
               request' = [request EXCEPT ![r].pc = "auth", ![r].secret = secret, ![r].late = late],
               late => secret # NoSecret /\ keys[secret] # "none" /\ keys[secret] # "valid"
        PROVE  Received(t, u)
    BY <2>1, <2>3 DEF Shape, Fields, NoRequest, Received
  <2>4. CASE \E late : \E secret \in {NoSecret} \cup ApiKeys :
              /\ request' = [request EXCEPT ![r].pc = "auth", ![r].secret = secret, ![r].late = late]
              /\ late => secret # NoSecret /\ keys[secret] # "none" /\ keys[secret] # "valid"
    BY <2>1, <2>3, <2>4, Zenon DEF Steps
  <2> QED BY <1>1, <2>2, <2>4, ReceiveIs
<1>2. CASE Authenticate(r) \/ NoteUse(r)
  BY <1>2 DEF Shape, Fields, NoRequest, Authenticate, NoteUse, At, Answer, Goto, Steps, Answered, Moved,
              Noted, Moves, Others
<1>3. CASE Admit(r) \/ TurnAway(r) \/ Decode(r) \/ GiveBack(r)
  BY <1>3 DEF Shape, Fields, NoRequest, Admit, TurnAway, Decode, GiveBack, At, Answer, Goto, Steps,
              Answered, Moved, Moves, Others
<1>4. CASE Review(r) \/ Disconnect(r)
  BY <1>4 DEF Shape, Fields, NoRequest, Review, Disconnect, At, Steps, Reviewed, Left
<1>5. CASE Write(r) \/ Record(r)
  BY <1>5 DEF Shape, Fields, NoRequest, Write, Record, At, Goto, Steps, Wrote, Recorded, Moves, Others
<1> QED BY <1>1, <1>2, <1>3, <1>4, <1>5 DEF Step

LEMMA StepsKeepLate ==
  ASSUME Shape, NEW t, NEW u, NEW e, NEW f, NEW s, NEW v, Late(t), Steps(t, u, e, f, s, v)
  PROVE  Late(u)
<1>1. CASE Answered(t, u)
  BY <1>1 DEF Late, Answered, Others
<1>2. CASE Moved(t, u)
  BY <1>2 DEF Late, Moved, Moves, Others, Found
<1>3. CASE Received(t, u)
  <2>1. u.late => u.secret \in ApiKeys /\ keys[u.secret] = "revoked"
    BY <1>3 DEF Shape, Received
  <2>2. u.pc = "auth" /\ t.pc = "idle" /\ u.answer = t.answer
    BY <1>3 DEF Received
  <2> QED BY <2>1, <2>2 DEF Late
<1>4. CASE Noted(t, u) \/ Reviewed(t, u) \/ Left(t, u)
  BY <1>4 DEF Late, Noted, Reviewed, Left
<1>5. CASE Wrote(t, u, e, f) \/ Recorded(t, u, s, v)
  BY <1>5 DEF Late, Wrote, Recorded, Moves, Others
<1> QED BY <1>1, <1>2, <1>3, <1>4, <1>5 DEF Steps

LEMMA StepsKeepWritten ==
  ASSUME NEW t, NEW u, NEW e, NEW f, NEW s, NEW v, Written(t, e, s, closed),
         Steps(t, u, e, f, s, v)
  PROVE  Written(u, f, v, closed)
<1> USE DEF Outside, Inner, Flagged
<1>1. CASE e = f /\ s = v /\ (Answered(t, u) \/ Moved(t, u) \/ Received(t, u))
  BY <1>1 DEF Written, Answered, Moved, Received, Moves, Others
<1>2. CASE e = f /\ s = v /\ (Noted(t, u) \/ Left(t, u))
  BY <1>2 DEF Written, Noted, Left
<1>3. CASE e = f /\ s = v /\ Reviewed(t, u)
  BY <1>3 DEF Written, Reviewed
<1>4. CASE s = v /\ Wrote(t, u, e, f)
  BY <1>4 DEF Written, Wrote, Moves, Others
<1>5. CASE e = f /\ Recorded(t, u, s, v)
  <2>1. s = <<>>
    BY <1>5 DEF Written, Recorded
  <2>2. v = <<>> \/ v = <<[key |-> u.key, outcome |-> u.outcome]>>
    BY <1>5, <2>1 DEF Recorded, Moves, Others
  <2> QED BY <1>5, <2>2 DEF Written, Recorded, Moves, Others
<1> QED BY <1>1, <1>2, <1>3, <1>4, <1>5 DEF Steps

\* A request that came in after its key was revoked gets neither a place nor a
\* decision, at whatever gateway (AuthenticateReviewAPIKey, RevokeReviewAPIKey).
THEOREM RevocationCorrect == ApiSpec => []RevokedIsRefused
<1>1. ApiInit => LateInv
  BY DEF ApiInit, LateInv, Late, NoRequest
<1>2. Shape /\ LateInv /\ [ApiNext]_apiVars => LateInv'
  <2> SUFFICES ASSUME Shape, LateInv, [ApiNext]_apiVars PROVE LateInv'
    OBVIOUS
  <2>1. ASSUME NEW k \in ApiKeys, Create(k) \/ Revoke(k) PROVE LateInv'
    BY <2>1 DEF Shape, LateInv, Late, Create, Revoke
  <2>2. ASSUME NEW r \in Requests, Step(r) PROVE LateInv'
    <3>1. ASSUME NEW q \in Requests PROVE Late(request'[q])
      <4>1. CASE q = r
        BY <2>2, <4>1, StepSteps, StepsKeepLate DEF LateInv
      <4>2. CASE q # r
        BY <2>2, <4>2, StepAlone DEF LateInv
      <4> QED BY <4>1, <4>2
    <3> QED BY <2>2, <3>1, StepAlone DEF LateInv, Late
  <2>3. CASE UNCHANGED apiVars \/ StoreCloses
    BY <2>3 DEF LateInv, Late, StoreCloses, apiVars
  <2> QED BY <2>1, <2>2, <2>3 DEF ApiNext
<1>3. LateInv => RevokedIsRefused
  BY DEF LateInv, Late, RevokedIsRefused, Inside, TurnedAway, At
<1> QED BY <1>1, <1>2, <1>3, InitShape, NextShape, PTL DEF ApiSpec

\* The audit log and the statistics agree on every request (reviewAPI): at most one
\* entry in each, an event for a flagged request under its own key, and no flagged
\* statistic lacks its event but where the client had left, also if the telemetry store
\* closes in between.
THEOREM AuditCorrect == ApiSpec => []AuditAgrees
<1>1. ApiInit => WrittenInv
  BY DEF ApiInit, WrittenInv, Written, NoRequest, Outside, Inner, Flagged
<1>2. Shape /\ WrittenInv /\ [ApiNext]_apiVars => WrittenInv'
  <2> SUFFICES ASSUME Shape, WrittenInv, [ApiNext]_apiVars PROVE WrittenInv'
    OBVIOUS
  <2>1. ASSUME UNCHANGED <<request, events, stats>>, closed' = closed \/ closed' = TRUE
        PROVE  WrittenInv'
    <3>1. \A q \in Requests : Written(request[q], events[q], stats[q], closed')
      BY <2>1 DEF WrittenInv, Written
    <3> QED BY <2>1, <3>1 DEF WrittenInv
  <2>2. ASSUME NEW r \in Requests, Step(r) PROVE WrittenInv'
    <3>1. ASSUME NEW q \in Requests PROVE Written(request'[q], events'[q], stats'[q], closed')
      <4>1. CASE q = r
        <5>1. Steps(request[r], request'[r], events[r], events'[r], stats[r], stats'[r])
          BY <2>2, StepSteps
        <5>2. Written(request'[r], events'[r], stats'[r], closed) /\ closed' = closed
          BY <2>2, <5>1, StepsKeepWritten, StepAlone DEF WrittenInv
        <5> QED BY <4>1, <5>2
      <4>2. CASE q # r
        BY <2>2, <4>2, StepAlone DEF WrittenInv
      <4> QED BY <4>1, <4>2
    <3> QED BY <3>1 DEF WrittenInv
  <2> QED BY <2>1, <2>2 DEF ApiNext, Create, Revoke, StoreCloses, apiVars
<1>3. WrittenInv => AuditAgrees
  <2> SUFFICES ASSUME WrittenInv, NEW r \in Requests
               PROVE  /\ events[r] <= 1 /\ Len(stats[r]) <= 1
                      /\ \A i \in DOMAIN stats[r] :
                           LET stat == stats[r][i] IN
                           /\ stat.outcome = "error" <=> request[r].answer # 200
                           /\ events[r] = 1 => /\ stat.outcome \in {"hit", "blocked"}
                                               /\ stat.key = request[r].secret
                           /\ stat.outcome \in {"hit", "blocked"} /\ request[r].connected => events[r] = 1
    BY DEF AuditAgrees
  <2>1. Written(request[r], events[r], stats[r], closed)
    BY DEF WrittenInv
  <2>2. events[r] <= 1
    BY <2>1 DEF Written
  <2>3. CASE stats[r] = <<>>
    BY <2>2, <2>3
  <2>4. CASE /\ request[r].pc = "done"
             /\ stats[r] = <<[key |-> request[r].key, outcome |-> request[r].outcome]>>
    <3>1. /\ Len(stats[r]) = 1 /\ DOMAIN stats[r] = {1}
          /\ stats[r][1].key = request[r].key /\ stats[r][1].outcome = request[r].outcome
      BY <2>4
    <3> QED BY <2>1, <2>2, <2>4, <3>1 DEF Written, Flagged
  <2> QED BY <2>1, <2>3, <2>4 DEF Written
<1> QED BY <1>1, <1>2, <1>3, InitShape, NextShape, PTL DEF ApiSpec

=============================================================================
