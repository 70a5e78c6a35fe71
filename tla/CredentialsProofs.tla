-------------------------- MODULE CredentialsProofs --------------------------
(***************************************************************************)
(* Theorems about Credentials, for every number of gateways, requests and  *)
(* destinations.                                                           *)
(***************************************************************************)
EXTENDS Credentials, TLAPS

USE DEF trust, Keys

\* A request that stores or learns a key has one.
KeyedPCs == {"capture", "mark", "review", "register", "register mark", "remember"}

KeyInv == \A r \in Requests : request[r].pc \in KeyedPCs => request[r].key \in Keys

TypeInv == TypeOK /\ KeyInv

-----------------------------------------------------------------------------
(***************************************************************************)
(* Types.                                                                  *)
(***************************************************************************)

Request ==
  [pc: {"unsent", "capture", "mark", "review", "forward", "register",
        "register mark", "remember", "done"},
   node: Nodes \cup {""}, key: Keys \cup {NoKey}, trusted: BOOLEAN]

Cleanup == [pc: {"idle", "stream", "spool", "ids", "delete", "markers"}, ids: SUBSET Keys]

LEMMA TypeInit == Init => TypeInv
<1> SUFFICES ASSUME Init PROVE TypeInv
  OBVIOUS
<1>1. Unsent \in Request /\ NoPrune \in Cleanup
  BY DEF Unsent, NoPrune, Request, Cleanup
<1>2. request \in [Requests -> Request] /\ prune \in [Nodes -> Cleanup]
  BY <1>1 DEF Init
<1>3. TypeOK
  BY <1>2 DEF Init, TypeOK, Request, Cleanup
<1>4. KeyInv
  BY DEF Init, KeyInv, KeyedPCs, Unsent
<1> QED
  BY <1>3, <1>4 DEF TypeInv

LEMMA GotoType ==
  ASSUME TypeInv, NEW r \in Requests, NEW pc, Goto(r, pc),
         pc \in {"mark", "review", "forward", "register", "register mark", "remember", "done"},
         pc \in KeyedPCs => request[r].key \in Keys
  PROVE  request' \in [Requests -> Request] /\ KeyInv'
<1>1. request \in [Requests -> Request]
  BY DEF TypeInv, TypeOK, Request
<1>2. [request[r] EXCEPT !.pc = pc] \in Request
  BY <1>1 DEF Request
<1>3. request' \in [Requests -> Request]
  BY <1>1, <1>2 DEF Goto
<1>4. ASSUME NEW q \in Requests, request'[q].pc \in KeyedPCs
      PROVE  request'[q].key \in Keys
  <2>1. CASE q = r
    BY <1>1, <1>4, <2>1 DEF Goto, Request
  <2>2. CASE q # r
    BY <1>1, <1>4, <2>2 DEF Goto, TypeInv, KeyInv
  <2> QED
    BY <2>1, <2>2
<1> QED
  BY <1>3, <1>4 DEF KeyInv

LEMMA TypeNext == TypeInv /\ [Next]_vars => TypeInv'
<1> SUFFICES ASSUME TypeInv, [Next]_vars PROVE TypeInv'
  OBVIOUS
<1>0. /\ request \in [Requests -> Request]
      /\ prune \in [Nodes -> Cleanup]
  BY DEF TypeInv, TypeOK, Request, Cleanup
<1> USE DEF TypeInv, At
<1>1. CASE UNCHANGED vars
  BY <1>1 DEF vars, TypeOK, KeyInv
<1>2. ASSUME NEW r \in Requests, NEW n \in Nodes, NEW k \in Keys \cup {NoKey},
             Prepare(r, n, k)
      PROVE  TypeInv'
  <2>1. [pc |-> IF k \in Alive THEN "capture" ELSE "forward", node |-> n, key |-> k,
         trusted |-> k \in Alive] \in Request
    <3>1. (k \in Alive) \in BOOLEAN
      OBVIOUS
    <3> QED
      BY <3>1 DEF Request
  <2>2. k \in Alive => k \in Keys
    BY DEF Alive, TypeOK
  <2>3. request' \in [Requests -> Request]
    BY <1>0, <1>2, <2>1 DEF Prepare
  <2>4. KeyInv'
    BY <1>0, <1>2, <2>2 DEF Prepare, KeyInv, KeyedPCs
  <2>5. trusted' \subseteq Keys /\ lapsed' \subseteq trusted'
    BY <1>2 DEF Prepare, Touch, Alive, TypeOK
  <2> QED
    BY <1>2, <2>3, <2>4, <2>5 DEF Prepare, TypeOK, Request
<1>3. ASSUME NEW r \in Requests, Capture(r) PROVE TypeInv'
  <2>1. request[r].key \in Keys
    BY <1>3 DEF Capture, KeyInv, KeyedPCs
  <2>2. request' \in [Requests -> Request] /\ KeyInv'
    BY <1>3, <2>1, GotoType DEF Capture, Onward
  <2>3. stored' \in [Keys -> {"none", "recent", "old"}]
    BY <1>3, <2>1 DEF Capture, Stored, TypeOK
  <2> QED
    BY <1>3, <2>2, <2>3 DEF Capture, TypeOK, Request
<1>4. ASSUME NEW r \in Requests, Mark(r) PROVE TypeInv'
  <2>1. request[r].key \in Keys
    BY <1>4 DEF Mark, KeyInv, KeyedPCs
  <2>2. request' \in [Requests -> Request] /\ KeyInv'
    BY <1>4, <2>1, GotoType DEF Mark, Onward
  <2> QED
    BY <1>4, <2>1, <2>2 DEF Mark, TypeOK, Request
<1>5. ASSUME NEW r \in Requests, CredentialFail(r) PROVE TypeInv'
  <2>1. request' \in [Requests -> Request] /\ KeyInv'
    BY <1>5, GotoType DEF CredentialFail, KeyedPCs
  <2> QED
    BY <1>5, <2>1 DEF CredentialFail, TypeOK, Request
<1>6. ASSUME NEW r \in Requests, Review(r) PROVE TypeInv'
  <2>1. request' \in [Requests -> Request] /\ KeyInv'
    BY <1>6, GotoType DEF Review, KeyedPCs
  <2> QED
    BY <1>6, <2>1 DEF Review, TypeOK, Request
<1>7. ASSUME NEW r \in Requests, Answer(r) PROVE TypeInv'
  <2>1. request' \in [Requests -> Request] /\ KeyInv'
    <3>1. CASE Goto(r, "done")
      BY <3>1, GotoType DEF KeyedPCs
    <3>2. CASE /\ HasNewKey(r)
               /\ request' = [request EXCEPT ![r].pc = "register",
                                             ![r].key = VerifiedKey(r)]
      BY <1>0, <3>2 DEF HasNewKey, VerifiedKey, Request, KeyInv, KeyedPCs
    <3> QED
      BY <1>7, <3>1, <3>2 DEF Answer
  <2>2. verified' \subseteq Keys
    <3>1. request[r].key \in Keys \cup {NoKey}
      BY <1>0 DEF Request
    <3>2. verified' \subseteq verified \cup ({request[r].key} \ {NoKey})
      BY <1>7 DEF Answer
    <3> QED
      BY <3>1, <3>2 DEF TypeOK
  <2>3. trusted' \subseteq Keys /\ lapsed' \subseteq trusted'
    BY <1>7 DEF Answer, TypeOK
  <2> QED
    BY <1>7, <2>1, <2>2, <2>3 DEF Answer, TypeOK, Request
<1>8. ASSUME NEW r \in Requests, Register(r) PROVE TypeInv'
  <2>1. request[r].key \in Keys
    BY <1>8 DEF Register, KeyInv, KeyedPCs
  <2>2. request' \in [Requests -> Request] /\ KeyInv'
    BY <1>8, <2>1, GotoType DEF Register, Onward
  <2> QED
    BY <1>8, <2>1, <2>2 DEF Register, Stored, TypeOK, Request
<1>9. ASSUME NEW r \in Requests, Remember(r) PROVE TypeInv'
  <2>1. request[r].key \in Keys
    BY <1>9 DEF Remember, KeyInv, KeyedPCs
  <2>2. request' \in [Requests -> Request] /\ KeyInv'
    BY <1>9, GotoType DEF Remember, KeyedPCs
  <2> QED
    BY <1>9, <2>1, <2>2 DEF Remember, Learn, Alive, TypeOK, Request
<1>10. ASSUME NEW r \in Requests, MoveEvent(r) PROVE TypeInv'
  <2>1. PICK to \in {m[2] : m \in {x \in Moves : x[1] = event[r]}} :
          /\ event' = [event EXCEPT ![r] = to]
          /\ spooling' = [spooling EXCEPT ![request[r].node] =
               to = "spool" \/ \E q \in Requests :
                                 event'[q] = "spool" /\ request[q].node = request[r].node]
    BY <1>10 DEF MoveEvent
  <2>2. to \in {"batch", "stream", "spool", "audit", "expired"}
    BY <2>1 DEF Moves
  <2>3. event' \in [Requests ->
          {"none", "queue", "batch", "spool", "stream", "audit", "expired"}]
    BY <2>1, <2>2 DEF TypeOK
  <2>4. spooling' \in [Nodes -> BOOLEAN]
    BY <2>1 DEF TypeOK
  <2> QED
    BY <1>10, <2>3, <2>4 DEF MoveEvent, TypeOK, KeyInv
<1>11. ASSUME NEW u \in Upstreams, Switch(u) PROVE TypeInv'
  BY <1>11 DEF Switch, TypeOK, KeyInv
<1>12. ASSUME NEW k \in Keys, Lapse(k) \/ ExpireMarker(k) \/ GrowOld(k) PROVE TypeInv'
  BY <1>12 DEF Lapse, ExpireMarker, GrowOld, Alive, TypeOK, KeyInv
<1>13. CASE PruneTrusted
  BY <1>13 DEF PruneTrusted, Alive, TypeOK, KeyInv
<1>14. ASSUME NEW n \in Nodes, NEW from, NEW to \in {"idle", "stream", "spool", "ids"},
              PruneStep(n, from, to)
       PROVE  TypeInv'
  BY <1>0, <1>14 DEF PruneStep, Cleanup, TypeOK, KeyInv
<1>15. ASSUME NEW n \in Nodes, PruneQueue(n) \/ PruneStream(n) \/ PruneSpool(n)
       PROVE  TypeInv'
  BY <1>14, <1>15 DEF PruneQueue, PruneStream, PruneSpool
<1>16. ASSUME NEW n \in Nodes, PruneIds(n) PROVE TypeInv'
  BY <1>0, <1>16 DEF PruneIds, Cleanup, TypeOK, KeyInv
<1>17. ASSUME NEW n \in Nodes, PruneDelete(n) PROVE TypeInv'
  <2>1. Deletable(n) \subseteq Keys
    BY DEF Deletable
  <2> QED
    BY <1>0, <1>17, <2>1 DEF PruneDelete, Cleanup, TypeOK, KeyInv
<1>18. ASSUME NEW n \in Nodes, PruneMarkers(n) \/ PruneFail(n) PROVE TypeInv'
  <2>1. NoPrune \in Cleanup
    BY DEF NoPrune, Cleanup
  <2> QED
    <3>1. prune' \in [Nodes -> Cleanup]
      BY <1>0, <1>18, <2>1 DEF PruneMarkers, PruneFail
    <3>2. marked' \subseteq Keys
      BY <1>18 DEF PruneMarkers, PruneFail, TypeOK
    <3>3. UNCHANGED <<upstream, trust, stored, request, event, spooling, verified, counted>>
      BY <1>18 DEF PruneMarkers, PruneFail
    <3> QED
      BY <3>1, <3>2, <3>3 DEF Cleanup, TypeOK, KeyInv
<1> QED
  BY <1>1, <1>2, <1>3, <1>4, <1>5, <1>6, <1>7, <1>8, <1>9, <1>10, <1>11, <1>12,
     <1>13, <1>15, <1>16, <1>17, <1>18
  DEF Next, Handle, Prune

\* The variables stay in their types; a request without a credential never learns,
\* marks or stores a key.
THEOREM TypeCorrect == Spec => []TypeOK
<1>1. TypeInv => TypeOK
  BY DEF TypeInv
<1> QED
  BY TypeInit, TypeNext, <1>1, PTL DEF Spec

-----------------------------------------------------------------------------
(***************************************************************************)
(* Trust is earned.  A key that is being learned has been answered, and it *)
(* is the key of the destination that answered, whatever is configured     *)
(* now.                                                                    *)
(***************************************************************************)

Learning == {"register", "register mark", "remember"}

EarnInv ==
  /\ TrustIsEarned
  /\ \A r \in Requests : request[r].pc \in Learning => request[r].key \in verified

LEMMA EarnInit == Init => EarnInv
<1> SUFFICES ASSUME Init PROVE EarnInv
  OBVIOUS
<1>1. \A r \in Requests : request[r].pc \notin Learning
  BY DEF Init, Unsent, Learning
<1> QED
  BY <1>1 DEF Init, EarnInv, TrustIsEarned

LEMMA EarnNext == TypeInv /\ EarnInv /\ [Next]_vars => EarnInv'
<1> SUFFICES ASSUME TypeInv, EarnInv, [Next]_vars PROVE EarnInv'
  OBVIOUS
<1>0. request \in [Requests -> Request]
  BY DEF TypeInv, TypeOK, Request
<1> USE DEF EarnInv, TrustIsEarned
<1>1. CASE UNCHANGED <<trusted, request, verified>>
  BY <1>1
<1>2. ASSUME NEW r \in Requests, NEW pc, Goto(r, pc),
             pc \in Learning => request[r].key \in verified',
             verified \subseteq verified', trusted' \subseteq verified'
      PROVE  EarnInv'
  <2>1. ASSUME NEW q \in Requests, request'[q].pc \in Learning
        PROVE  request'[q].key \in verified'
    BY <1>0, <1>2, <2>1 DEF Goto, Request
  <2> QED
    BY <1>2, <2>1
<1>3. ASSUME NEW r \in Requests, NEW n \in Nodes, NEW k \in Keys \cup {NoKey},
             Prepare(r, n, k)
      PROVE  EarnInv'
  BY <1>0, <1>3 DEF Prepare, Touch, Alive, Learning
<1>4. ASSUME NEW r \in Requests, Capture(r) PROVE EarnInv'
  BY <1>2, <1>4 DEF Capture, Onward, Learning
<1>5. ASSUME NEW r \in Requests, Mark(r) PROVE EarnInv'
  <2>1. CASE Goto(r, "review") \/ Goto(r, "done")
    BY <1>2, <1>5, <2>1 DEF Mark, Learning
  <2>2. CASE At(r, "register mark") /\ Goto(r, "remember")
    BY <1>2, <1>5, <2>2 DEF Mark, At, Learning
  <2> QED
    BY <1>5, <2>1, <2>2 DEF Mark, Onward
<1>6. ASSUME NEW r \in Requests, CredentialFail(r) \/ Review(r) PROVE EarnInv'
  <2>1. CASE CredentialFail(r)
    BY <1>2, <2>1 DEF CredentialFail, Learning
  <2>2. CASE Review(r)
    BY <1>2, <2>2 DEF Review, Learning
  <2> QED
    BY <1>6, <2>1, <2>2
<1>7. ASSUME NEW r \in Requests, Answer(r) PROVE EarnInv'
  <2>1. verified \subseteq verified' /\ trusted' \subseteq trusted
    BY <1>7 DEF Answer
  <2>2. CASE Goto(r, "done")
    BY <1>2, <2>1, <2>2 DEF Learning
  <2>3. CASE /\ HasNewKey(r)
             /\ verified' = verified \cup ({request[r].key} \ {NoKey})
             /\ request' = [request EXCEPT ![r].pc = "register",
                                           ![r].key = VerifiedKey(r)]
    <3>1. request[r].key \in verified'
      BY <2>3 DEF HasNewKey
    <3>2. ASSUME NEW q \in Requests, request'[q].pc \in Learning
          PROVE  request'[q].key \in verified'
      BY <1>0, <2>1, <2>3, <3>1, <3>2 DEF VerifiedKey, Request
    <3> QED
      BY <2>1, <3>2
  <2> QED
    BY <1>7, <2>2, <2>3 DEF Answer
<1>8. ASSUME NEW r \in Requests, Register(r) PROVE EarnInv'
  BY <1>2, <1>8 DEF Register, Onward, At, Learning
<1>9. ASSUME NEW r \in Requests, Remember(r) PROVE EarnInv'
  BY <1>2, <1>9 DEF Remember, Learn, Alive, At, Learning
<1>10. ASSUME NEW r \in Requests, MoveEvent(r) PROVE EarnInv'
  BY <1>10 DEF MoveEvent
<1>11. ASSUME NEW u \in Upstreams, Switch(u) PROVE EarnInv'
  BY <1>11 DEF Switch
<1>12. ASSUME NEW k \in Keys, Lapse(k) \/ ExpireMarker(k) \/ GrowOld(k) PROVE EarnInv'
  BY <1>12 DEF Lapse, ExpireMarker, GrowOld
<1>13. CASE PruneTrusted
  BY <1>13 DEF PruneTrusted, Alive
<1>14. ASSUME NEW n \in Nodes, Prune(n) PROVE EarnInv'
  BY <1>14 DEF Prune, PruneQueue, PruneStream, PruneSpool, PruneStep, PruneIds,
     PruneDelete, PruneMarkers, PruneFail
<1>15. CASE UNCHANGED vars
  BY <1>1, <1>15 DEF vars
<1> QED
  BY <1>3, <1>4, <1>5, <1>6, <1>7, <1>8, <1>9, <1>10, <1>11, <1>12, <1>13, <1>14, <1>15
  DEF Next, Handle

\* A key is trusted for a destination only when that destination has answered it,
\* whichever destinations are configured while answers are on their way.
THEOREM EarnCorrect == Spec => []TrustIsEarned
<1>1. EarnInv => TrustIsEarned
  BY DEF EarnInv
<1> QED
  BY TypeInit, TypeNext, EarnInit, EarnNext, <1>1, PTL DEF Spec

-----------------------------------------------------------------------------
(***************************************************************************)
(* What is trusted is stored.  The row of a key being learned is recent,   *)
(* because RegisterCredential writes it; the DELETE of a cleanup spares    *)
(* recent rows and those trusted when it asked, so a key learned since     *)
(* must have a recent row.                                                 *)
(***************************************************************************)

StoreInv ==
  /\ TrustedIsStored
  /\ \A r \in Requests :
       request[r].pc \in {"register mark", "remember"} => stored[request[r].key] = "recent"
  /\ \A n \in Nodes : prune[n].pc = "delete" =>
       \A k \in Alive \ prune[n].ids : stored[k] = "recent"

LEMMA StoreInit == Init => StoreInv
<1> SUFFICES ASSUME Init PROVE StoreInv
  OBVIOUS
<1>1. \A r \in Requests : request[r].pc \notin {"register mark", "remember"}
  BY DEF Init, Unsent
<1>2. Alive = {}
  BY DEF Init, Alive
<1> QED
  BY <1>1, <1>2 DEF StoreInv, TrustedIsStored

\* Enough for a step: no key becomes trusted, rows do not get worse, nobody comes to
\* be learning and no cleanup to its DELETE.
LEMMA StoreKept ==
  ASSUME StoreInv,
         Alive' \subseteq Alive,
         \A k \in Keys : stored'[k] = stored[k] \/ stored'[k] = "recent",
         \A r \in Requests : request'[r].pc \in {"register mark", "remember"} =>
           /\ request'[r].key \in Keys
           /\ \/ stored'[request'[r].key] = "recent"
              \/ /\ request[r].pc \in {"register mark", "remember"}
                 /\ request'[r].key = request[r].key,
         \A n \in Nodes : prune'[n].pc = "delete" => prune'[n] = prune[n],
         trusted \subseteq Keys
  PROVE  StoreInv'
<1>1. Alive \subseteq Keys
  BY DEF Alive
<1>2. TrustedIsStored'
  BY <1>1 DEF StoreInv, TrustedIsStored
<1>3. ASSUME NEW r \in Requests, request'[r].pc \in {"register mark", "remember"}
      PROVE  stored'[request'[r].key] = "recent"
  <2>1. CASE stored'[request'[r].key] = "recent"
    BY <2>1
  <2>2. CASE /\ request[r].pc \in {"register mark", "remember"}
             /\ request'[r].key = request[r].key
    <3>1. request[r].key \in Keys
      BY <1>3, <2>2
    <3>2. stored[request[r].key] = "recent"
      BY <2>2 DEF StoreInv
    <3>3. stored'[request[r].key] = "recent"
      BY <3>1, <3>2
    <3> QED
      BY <2>2, <3>3
  <2> QED
    BY <1>3, <2>1, <2>2
<1>4. ASSUME NEW n \in Nodes, prune'[n].pc = "delete", NEW k \in Alive' \ prune'[n].ids
      PROVE  stored'[k] = "recent"
  BY <1>1, <1>4 DEF StoreInv
<1> QED
  BY <1>2, <1>3, <1>4 DEF StoreInv

LEMMA StoreNext == TypeInv /\ StoreInv /\ [Next]_vars => StoreInv'
<1> SUFFICES ASSUME TypeInv, StoreInv, [Next]_vars PROVE StoreInv'
  OBVIOUS
<1>0. /\ request \in [Requests -> Request]
      /\ prune \in [Nodes -> Cleanup]
      /\ stored \in [Keys -> {"none", "recent", "old"}]
      /\ trusted \subseteq Keys
      /\ KeyInv
  BY DEF TypeInv, TypeOK, Request, Cleanup
<1>a. \A r \in Requests : request[r].pc \in {"register mark", "remember"} =>
        request[r].key \in Keys
  BY DEF TypeInv, KeyInv, KeyedPCs
<1>1. ASSUME UNCHANGED <<trusted, lapsed, stored, request, prune>> PROVE StoreInv'
  BY <1>0, <1>1, <1>a, StoreKept DEF Alive
<1>2. ASSUME NEW r \in Requests, NEW pc, Goto(r, pc),
             pc \in {"register mark", "remember"} =>
               request[r].key \in Keys /\ stored'[request[r].key] = "recent",
             Alive' \subseteq Alive,
             \A k \in Keys : stored'[k] = stored[k] \/ stored'[k] = "recent",
             UNCHANGED prune
      PROVE  StoreInv'
  <2>1. ASSUME NEW q \in Requests, request'[q].pc \in {"register mark", "remember"}
        PROVE  /\ request'[q].key \in Keys
               /\ \/ stored'[request'[q].key] = "recent"
                  \/ /\ request[q].pc \in {"register mark", "remember"}
                     /\ request'[q].key = request[q].key
    <3>1. CASE q = r
      <4>1. request'[r].pc = pc /\ request'[r].key = request[r].key
        BY <1>0, <1>2 DEF Goto, Request
      <4> QED
        BY <1>2, <2>1, <3>1, <4>1
    <3>2. CASE q # r
      BY <1>0, <1>a, <1>2, <2>1, <3>2 DEF Goto, Request
    <3> QED
      BY <3>1, <3>2
  <2> QED
    BY <1>0, <1>2, <2>1, StoreKept
<1>3. ASSUME NEW r \in Requests, NEW n \in Nodes, NEW k \in Keys \cup {NoKey},
             Prepare(r, n, k)
      PROVE  StoreInv'
  <2>1. Alive' \subseteq Alive
    BY <1>3 DEF Prepare, Touch, Alive
  <2>2. ASSUME NEW q \in Requests, request'[q].pc \in {"register mark", "remember"}
        PROVE  /\ request[q].pc \in {"register mark", "remember"}
               /\ request'[q].key = request[q].key
               /\ request'[q].key \in Keys
    BY <1>0, <1>a, <1>3, <2>2 DEF Prepare
  <2> QED
    BY <1>0, <1>3, <2>1, <2>2, StoreKept DEF Prepare
<1>4. ASSUME NEW r \in Requests, Capture(r) PROVE StoreInv'
  <2>1. \A k \in Keys : stored'[k] = stored[k] \/ stored'[k] = "recent"
    BY <1>0, <1>4 DEF Capture, Stored
  <2>2. CASE Goto(r, "review")
    BY <1>2, <1>4, <2>1, <2>2 DEF Capture, Alive
  <2>3. CASE Goto(r, "mark") \/ Goto(r, "done")
    BY <1>2, <1>4, <2>1, <2>3 DEF Capture, Alive
  <2> QED
    BY <1>4, <2>2, <2>3 DEF Capture, Onward
<1>5. ASSUME NEW r \in Requests, Mark(r) PROVE StoreInv'
  <2>1. CASE Goto(r, "review") \/ Goto(r, "done")
    BY <1>2, <1>5, <2>1 DEF Mark, Alive
  <2>2. CASE At(r, "register mark") /\ Goto(r, "remember")
    <3>1. request[r].key \in Keys /\ stored[request[r].key] = "recent"
      BY <1>a, <2>2 DEF At, StoreInv
    <3> QED
      BY <1>2, <1>5, <2>2, <3>1 DEF Mark, Alive
  <2> QED
    BY <1>5, <2>1, <2>2 DEF Mark, Onward
<1>6. ASSUME NEW r \in Requests, CredentialFail(r) PROVE StoreInv'
  BY <1>2, <1>6 DEF CredentialFail, Alive
<1>7. ASSUME NEW r \in Requests, Review(r) PROVE StoreInv'
  BY <1>2, <1>7 DEF Review, Alive
<1>8. ASSUME NEW r \in Requests, Answer(r) PROVE StoreInv'
  <2>1. Alive' \subseteq Alive /\ UNCHANGED <<stored, prune>>
    BY <1>8 DEF Answer, Alive
  <2>2. CASE Goto(r, "done")
    BY <1>2, <2>1, <2>2
  <2>3. CASE request' = [request EXCEPT ![r].pc = "register", ![r].key = VerifiedKey(r)]
    <3>1. ASSUME NEW q \in Requests, request'[q].pc \in {"register mark", "remember"}
          PROVE  /\ request[q].pc \in {"register mark", "remember"}
                 /\ request'[q].key = request[q].key
                 /\ request'[q].key \in Keys
      <4>1. CASE q = r
        <5>1. request'[r].pc = "register"
          BY <1>0, <2>3 DEF Request
        <5> QED
          BY <3>1, <4>1, <5>1
      <4>2. CASE q # r
        <5>1. request'[q] = request[q]
          BY <1>0, <2>3, <4>2
        <5> QED
          BY <1>a, <3>1, <5>1
      <4> QED
        BY <4>1, <4>2
    <3> QED
      BY <1>0, <2>1, <3>1, StoreKept
  <2> QED
    BY <1>8, <2>2, <2>3 DEF Answer
<1>9. ASSUME NEW r \in Requests, Register(r) PROVE StoreInv'
  <2>1. request[r].key \in Keys
    BY <1>9 DEF Register, At, TypeInv, KeyInv, KeyedPCs
  <2>2. /\ stored'[request[r].key] = "recent"
        /\ \A k \in Keys : stored'[k] = stored[k] \/ stored'[k] = "recent"
    BY <1>0, <1>9, <2>1 DEF Register, Stored
  <2> QED
    BY <1>2, <1>9, <2>1, <2>2 DEF Register, Onward, Alive
<1>10. ASSUME NEW r \in Requests, Remember(r) PROVE StoreInv'
  <2>1. /\ request[r].key \in Keys
        /\ stored[request[r].key] = "recent"
    BY <1>a, <1>10 DEF Remember, At, StoreInv
  <2>2. Alive' = Alive \cup {request[r].key}
    BY <1>10 DEF Remember, Learn, Alive
  <2>3. UNCHANGED <<stored, prune>>
    BY <1>10 DEF Remember
  <2>4. ASSUME NEW q \in Requests, request'[q].pc \in {"register mark", "remember"}
        PROVE  request[q].pc \in {"register mark", "remember"} /\ request'[q].key = request[q].key
    BY <1>0, <1>10, <2>4 DEF Remember, Goto, Request
  <2>5. TrustedIsStored'
    BY <2>1, <2>2, <2>3 DEF StoreInv, TrustedIsStored
  <2> QED
    BY <2>1, <2>2, <2>3, <2>4, <2>5 DEF StoreInv
<1>11. ASSUME NEW r \in Requests, MoveEvent(r) PROVE StoreInv'
  BY <1>1, <1>11 DEF MoveEvent
<1>12. ASSUME NEW u \in Upstreams, Switch(u) PROVE StoreInv'
  BY <1>1, <1>12 DEF Switch
<1>13. ASSUME NEW k \in Keys, Lapse(k) PROVE StoreInv'
  <2>1. Alive' \subseteq Alive
    BY <1>13 DEF Lapse, Alive
  <2> QED
    BY <1>0, <1>a, <1>13, <2>1, StoreKept DEF Lapse
<1>14. ASSUME NEW k \in Keys, ExpireMarker(k) PROVE StoreInv'
  BY <1>1, <1>14 DEF ExpireMarker
<1>15. ASSUME NEW k \in Keys, GrowOld(k) PROVE StoreInv'
  <2>1. UNCHANGED <<trusted, lapsed, request, prune>> /\ Alive' = Alive
    BY <1>15 DEF GrowOld, Alive
  <2>2. \A j \in Keys : /\ j # k => stored'[j] = stored[j]
                        /\ j = k => stored'[j] = "old"
    BY <1>0, <1>15 DEF GrowOld
  <2>3. Alive \subseteq Keys
    BY <1>0 DEF Alive
  <2>4. TrustedIsStored'
    BY <2>1, <2>2, <2>3 DEF StoreInv, TrustedIsStored
  <2>5. ASSUME NEW r \in Requests, request'[r].pc \in {"register mark", "remember"}
        PROVE  stored'[request'[r].key] = "recent"
    <3>1. request[r].key \in Keys /\ stored[request[r].key] = "recent"
      BY <1>a, <2>1, <2>5 DEF StoreInv
    <3>2. request[r].key # k
      BY <1>15, <2>1, <2>5 DEF GrowOld
    <3> QED
      BY <2>1, <2>2, <3>1, <3>2
  <2>6. \A n \in Nodes : prune'[n].pc # "delete"
    BY <1>15 DEF GrowOld
  <2> QED
    BY <2>4, <2>5, <2>6 DEF StoreInv
<1>16. CASE PruneTrusted
  <2>1. Alive' \subseteq Alive
    BY <1>16 DEF PruneTrusted, Alive
  <2> QED
    BY <1>0, <1>a, <1>16, <2>1, StoreKept DEF PruneTrusted
<1>17. ASSUME NEW n \in Nodes, NEW from, NEW to \in {"idle", "stream", "spool", "ids"},
              PruneStep(n, from, to)
       PROVE  StoreInv'
  <2>1. \A m \in Nodes : prune'[m].pc = "delete" => prune'[m] = prune[m]
    BY <1>0, <1>17 DEF PruneStep, Cleanup
  <2> QED
    BY <1>0, <1>a, <1>17, <2>1, StoreKept DEF PruneStep, Alive
<1>18. ASSUME NEW n \in Nodes, PruneQueue(n) \/ PruneStream(n) \/ PruneSpool(n)
       PROVE  StoreInv'
  BY <1>17, <1>18 DEF PruneQueue, PruneStream, PruneSpool
<1>19. ASSUME NEW n \in Nodes, PruneIds(n) PROVE StoreInv'
  <2>1. Alive \subseteq trusted
    BY DEF Alive
  <2> QED
    <3>1. /\ UNCHANGED <<trusted, lapsed, stored, request>>
          /\ Alive' = Alive
      BY <1>19 DEF PruneIds, Alive
    <3>2. ASSUME NEW m \in Nodes, prune'[m].pc = "delete", NEW k \in Alive' \ prune'[m].ids
          PROVE  stored'[k] = "recent"
      <4>1. CASE m = n
        BY <1>0, <1>19, <2>1, <3>1, <3>2, <4>1 DEF PruneIds
      <4>2. CASE m # n
        BY <1>0, <1>19, <3>1, <3>2, <4>2 DEF PruneIds, StoreInv
      <4> QED
        BY <4>1, <4>2
    <3> QED
      BY <3>1, <3>2 DEF StoreInv, TrustedIsStored
<1>20. ASSUME NEW n \in Nodes, PruneDelete(n) PROVE StoreInv'
  <2>1. /\ prune[n].pc = "delete"
        /\ stored' = [k \in Keys |-> IF k \in Deletable(n) THEN "none" ELSE stored[k]]
        /\ UNCHANGED <<request, trusted, lapsed>>
        /\ Alive' = Alive
    BY <1>20 DEF PruneDelete, Alive
  <2>2. \A k \in Keys : stored[k] = "recent" => stored'[k] = "recent"
    BY <2>1 DEF Deletable
  <2>3. \A k \in Alive : k \notin Deletable(n)
    BY <2>1 DEF Deletable, StoreInv
  <2>4. TrustedIsStored'
    BY <1>0, <2>1, <2>3 DEF StoreInv, TrustedIsStored, Alive
  <2>5. ASSUME NEW r \in Requests, request'[r].pc \in {"register mark", "remember"}
        PROVE  stored'[request'[r].key] = "recent"
    BY <1>a, <2>1, <2>2, <2>5 DEF StoreInv
  <2>6. \A m \in Nodes : prune'[m].pc = "delete" => prune'[m] = prune[m]
    BY <1>0, <1>20 DEF PruneDelete, Cleanup
  <2>7. ASSUME NEW m \in Nodes, prune'[m].pc = "delete", NEW k \in Alive' \ prune'[m].ids
        PROVE  stored'[k] = "recent"
    BY <1>0, <2>1, <2>2, <2>6, <2>7 DEF StoreInv, Alive
  <2> QED
    BY <2>4, <2>5, <2>7 DEF StoreInv
<1>21. ASSUME NEW n \in Nodes, PruneMarkers(n) \/ PruneFail(n) PROVE StoreInv'
  <2>1. \A m \in Nodes : prune'[m].pc = "delete" => prune'[m] = prune[m]
    BY <1>0, <1>21 DEF PruneMarkers, PruneFail, NoPrune, Cleanup
  <2>2. UNCHANGED <<trusted, lapsed, stored, request>>
    BY <1>21 DEF PruneMarkers, PruneFail
  <2> QED
    BY <1>0, <1>a, <2>1, <2>2, StoreKept DEF Alive
<1>22. CASE UNCHANGED vars
  BY <1>1, <1>22 DEF vars
<1> QED
  BY <1>3, <1>4, <1>5, <1>6, <1>7, <1>8, <1>9, <1>10, <1>11, <1>12, <1>13, <1>14,
     <1>15, <1>16, <1>18, <1>19, <1>20, <1>21, <1>22
  DEF Next, Handle, Prune

\* A trusted key's credential is stored, through expiry, revocation, relearning and
\* every order of the cleanups of all gateways with the requests of all gateways.
THEOREM StoreCorrect == Spec => []TrustedIsStored
<1>1. StoreInv => TrustedIsStored
  BY DEF StoreInv
<1> QED
  BY TypeInit, TypeNext, StoreInit, StoreNext, <1>1, PTL DEF Spec

=============================================================================
