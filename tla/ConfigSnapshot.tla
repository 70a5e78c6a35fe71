--------------------------- MODULE ConfigSnapshot ---------------------------
(***************************************************************************)
(* Saved configuration: three PostgreSQL rows (policy, Jev connection,     *)
(* upstream), the value of each that a gateway process falls back to when  *)
(* a query fails, and the snapshot its requests read.  Administrators save *)
(* through any gateway; every gateway refreshes its snapshot once a second *)
(* or sooner when notified.                                                *)
(***************************************************************************)
EXTENDS Integers, FiniteSets, Sequences

CONSTANTS
  Nodes,      \* gateways
  Requests,   \* administrator requests that will be made: the bound on saves
  Updates,    \* what they may ask for: see IsUpdate
  Kinds,      \* the kinds of configuration, in the order a refresh reads them
  InitialJev, \* Jev connections a database may start with; 0 is incomplete
  Faults      \* subset of {"postgres", "kill"}

KindSet == {Kinds[k] : k \in DOMAIN Kinds}

Fields == {"enabled", "scenes", "message"}

\* A policy: is review on, how many scenes, and the block message, which stands
\* for the fields that depend on no other; -1 is one that Validate refuses.
Policy == [enabled: BOOLEAN, scenes: Nat, message: Nat \cup {-1}]

FieldValues == [enabled |-> BOOLEAN, scenes |-> Nat, message |-> Nat \cup {-1}]

\* A patch names some fields, a replacement all of them.  A connection is its API
\* key, 0 when left out.
IsUpdate(u) ==
  \/ /\ u.kind = "policy"
     /\ DOMAIN u.fields \subseteq Fields
     /\ \A f \in DOMAIN u.fields : u.fields[f] \in FieldValues[f]
  \/ u.kind = "jev" /\ u.key \in Nat
  \/ u.kind = "upstream" /\ u.url \in Nat

ASSUME ConfigAssumption ==
  /\ Nodes \cap Requests = {}
  /\ Kinds \in Seq({"policy", "jev", "upstream"})
  /\ \A j, k \in DOMAIN Kinds : Kinds[j] = Kinds[k] => j = k
  /\ \A u \in Updates : IsUpdate(u) /\ u.kind \in KindSet
  /\ InitialJev \subseteq Nat
  /\ Faults \subseteq {"postgres", "kill"}

\* Who refreshes a snapshot: the synchronize loop of a gateway, and the handler of
\* a request that has saved.
Refreshers == Nodes \cup Requests

VARIABLES
  row,       \* PostgreSQL: of each kind a value and the number of its saves
  cached,    \* of each gateway: PG.cachedPolicy, cachedJev, cachedUpstream
  snapshot,  \* of each gateway: what requests read, and where it came from
  handler,   \* of each request: how far it has come
  refresh    \* of each refresher: the pass it makes

vars == <<row, cached, snapshot, handler, refresh>>

\* held: read, not yet cached; got: what the pass has of each kind so far.
NoPass == [held |-> {}, got |-> <<>>]

\* node, update: where the request goes and what it asks for; value: what a
\* connection or destination becomes; saved: the number of the save.
Unsent == [pc |-> "unsent", node |-> "", update |-> "", value |-> 0, saved |-> 0]

\* A request that was refused, failed or went down with its gateway.
Ended == [Unsent EXCEPT !.pc = "ended"]

FromDB(r) == [ver |-> r.ver, val |-> r.val, from |-> "postgres"]

Init ==
  /\ \E key \in InitialJev :
       row = [policy |-> [ver |-> 0, val |-> [enabled |-> FALSE, scenes |-> 0, message |-> 0]],
              jev |-> [ver |-> 0, val |-> key],
              upstream |-> [ver |-> 0, val |-> 0]]
  /\ cached = [n \in Nodes |-> row]
  /\ snapshot = [n \in Nodes |-> [k \in KindSet |-> FromDB(row[k])]]
  /\ handler = [r \in Requests |-> Unsent]
  /\ refresh = [o \in Refreshers |-> NoPass]

-----------------------------------------------------------------------------
(***************************************************************************)
(* PolicyUpdate.Apply and the validations.                                 *)
(***************************************************************************)

\* Review without a scene is switched off, not refused.
UpgradeLegacy(p) == [p EXCEPT !.enabled = @ /\ p.scenes # 0]

\* Variant: the merged policy is not upgraded.
ApplyAsIs(u, current) ==
  [f \in Fields |-> IF f \in DOMAIN u.fields THEN u.fields[f] ELSE UpgradeLegacy(current)[f]]

Apply(u, current) ==
  UpgradeLegacy([f \in Fields |-> IF f \in DOMAIN u.fields
                                    THEN u.fields[f] ELSE UpgradeLegacy(current)[f]])

Validate(p) == p.message # -1

JevValid(key) == key # 0

-----------------------------------------------------------------------------
(***************************************************************************)
(* The handlers PUT and PATCH /admin/policy, PUT /admin/jev, PUT           *)
(* /admin/upstream.                                                        *)
(***************************************************************************)

Step(r, from, to) ==
  /\ handler[r].pc = from
  /\ handler' = [handler EXCEPT ![r].pc = to]

Send(r, n, u, pc, value) ==
  /\ handler[r].pc = "unsent"
  /\ handler' = [handler EXCEPT ![r] =
       [pc |-> pc, node |-> n, update |-> u, value |-> value, saved |-> 0]]
  /\ UNCHANGED <<row, cached, snapshot, refresh>>

End(r, from) ==
  /\ handler[r].pc = from
  /\ handler' = [handler EXCEPT ![r] = Ended]

Refuse(r) == End(r, "unsent") /\ UNCHANGED <<row, cached, snapshot, refresh>>

\* The update is tried on the snapshot; review may be switched on only with a
\* complete Jev connection, looked up next.  So may the review interface, whose
\* switch is not part of Policy: either may be the reason.
ReceivePolicy(r, n, u) ==
  /\ u.kind = "policy"
  /\ LET next == Apply(u, snapshot[n]["policy"].val) IN
     \/ ~Validate(next) /\ Refuse(r)
     \/ Validate(next) /\ Send(r, n, u, "checkJev", 0)
     \/ Validate(next) /\ ~next.enabled /\ Send(r, n, u, "save", 0)

CheckJev(r) ==
  /\ \/ Step(r, "checkJev", "save") /\ JevValid(snapshot[handler[r].node]["jev"].val)
     \/ End(r, "checkJev") /\ ~JevValid(snapshot[handler[r].node]["jev"].val)
  /\ UNCHANGED <<row, cached, snapshot, refresh>>

\* Without a key the connection keeps the one of the snapshot.
ReceiveJev(r, n, u) ==
  /\ u.kind = "jev"
  /\ LET key == IF u.key = 0 THEN snapshot[n]["jev"].val ELSE u.key IN
     \/ JevValid(key) /\ Send(r, n, u, "save", key)
     \/ ~JevValid(key) /\ Refuse(r)

ReceiveUpstream(r, n, u) ==
  /\ u.kind = "upstream"
  /\ Send(r, n, u, "save", u.url)

\* Variant: the policy tried on the snapshot is the one saved.
NewValueOfSnapshot(r) ==
  IF handler[r].update.kind = "policy"
    THEN Apply(handler[r].update, snapshot[handler[r].node]["policy"].val)
    ELSE handler[r].value

\* What the statement writes: a policy is merged again, under the row's lock.  It is
\* validated again too, which only the submitted fields could fail.
NewValue(r) ==
  IF handler[r].update.kind = "policy"
    THEN Apply(handler[r].update, row["policy"].val)
    ELSE handler[r].value

KindOf(r) == handler[r].update.kind

Save(r) ==
  /\ handler[r].pc = "save"
  /\ \/ /\ row' = [row EXCEPT ![KindOf(r)] = [ver |-> @.ver + 1, val |-> NewValue(r)]]
        \* The reply of the commit arrives, or it does not.
        /\ \/ handler' = [handler EXCEPT ![r].pc = "cache", ![r].value = NewValue(r),
                                         ![r].saved = row[KindOf(r)].ver + 1]
           \/ "postgres" \in Faults /\ End(r, "save")
     \/ /\ "postgres" \in Faults
        /\ End(r, "save")
        /\ UNCHANGED row
  /\ UNCHANGED <<cached, snapshot, refresh>>

\* The end of PG.UpdatePolicy, UpdateJev, UpdateUpstream.
CacheSaved(r) ==
  /\ Step(r, "cache", "refresh")
  /\ cached' = [cached EXCEPT ![handler[r].node][KindOf(r)] =
       [ver |-> handler[r].saved, val |-> handler[r].value]]
  /\ UNCHANGED <<row, snapshot, refresh>>

-----------------------------------------------------------------------------
(***************************************************************************)
(* refresh, by the synchronize loop and by changed.                        *)
(***************************************************************************)

NodeOf(o) == IF o \in Nodes THEN o ELSE handler[o].node

\* o holds refreshMu.
Locked(o) == refresh[o] # NoPass

MayRefresh(o) == o \in Requests => handler[o].pc = "refresh"

Unlocked(n) == \A o \in Refreshers : NodeOf(o) = n => ~Locked(o)

\* Variants: no refreshMu; no ticker.
MayReadUnlocked(o) ==
  /\ MayRefresh(o)
  /\ refresh[o].held = {}
  /\ Len(refresh[o].got) < Len(Kinds)

MayReadNotified(o) ==
  /\ o \in Requests
  /\ MayRefresh(o)
  /\ Locked(o) \/ Unlocked(NodeOf(o))
  /\ refresh[o].held = {}
  /\ Len(refresh[o].got) < Len(Kinds)

\* o reads the next kind; reading the first, it takes refreshMu.
MayRead(o) ==
  /\ MayRefresh(o)
  /\ Locked(o) \/ Unlocked(NodeOf(o))
  /\ refresh[o].held = {}
  /\ Len(refresh[o].got) < Len(Kinds)

At(o) == Kinds[Len(refresh[o].got) + 1]

\* PG.Policy, PG.Jev, PG.Upstream: the query answers; the answer is cached later.
ReadOk(o) ==
  /\ MayRead(o)
  /\ refresh' = [refresh EXCEPT ![o].held = {FromDB(row[At(o)])}]
  /\ UNCHANGED <<row, cached, snapshot, handler>>

Got(o, value) ==
  refresh' = [refresh EXCEPT ![o] = [held |-> {}, got |-> Append(@.got, value)]]

CacheRead(o) ==
  /\ \E h \in refresh[o].held :
       /\ cached' = [cached EXCEPT ![NodeOf(o)][At(o)] = [ver |-> h.ver, val |-> h.val]]
       /\ Got(o, h)
  /\ UNCHANGED <<row, snapshot, handler>>

\* The query fails (an outage, or the handler's client has gone): fall back.
ReadFail(o) ==
  /\ "postgres" \in Faults
  /\ MayRead(o)
  /\ LET c == cached[NodeOf(o)][At(o)] IN
     Got(o, [ver |-> c.ver, val |-> c.val, from |-> "cache"])
  /\ UNCHANGED <<row, cached, snapshot, handler>>

\* snapshot.Store; a handler answers now.
RefreshEnd(o) ==
  /\ Len(refresh[o].got) = Len(Kinds)
  /\ snapshot' = [snapshot EXCEPT ![NodeOf(o)] =
       [k \in KindSet |-> refresh[o].got[CHOOSE j \in DOMAIN Kinds : Kinds[j] = k]]]
  /\ refresh' = [refresh EXCEPT ![o] = NoPass]
  /\ \/ o \in Nodes /\ UNCHANGED handler
     \/ o \in Requests /\ Step(o, "refresh", "done")
  /\ UNCHANGED <<row, cached>>

\* The process is killed and started again: Open and OpenRedis read every row.
Restart(n) ==
  /\ "kill" \in Faults
  /\ cached' = [cached EXCEPT ![n] = row]
  /\ snapshot' = [snapshot EXCEPT ![n] = [k \in KindSet |-> FromDB(row[k])]]
  /\ handler' = [r \in Requests |->
       IF handler[r].node = n /\ handler[r].pc # "done" THEN Ended ELSE handler[r]]
  /\ refresh' = [o \in Refreshers |-> IF NodeOf(o) = n THEN NoPass ELSE refresh[o]]
  /\ UNCHANGED row

-----------------------------------------------------------------------------

Handle(r) == CheckJev(r) \/ Save(r) \/ CacheSaved(r)

Refresh(o) ==
  ReadOk(o) \/ CacheRead(o) \/ ReadFail(o) \/ RefreshEnd(o)

Next ==
  \/ \E r \in Requests, n \in Nodes, u \in Updates :
       ReceivePolicy(r, n, u) \/ ReceiveJev(r, n, u) \/ ReceiveUpstream(r, n, u)
  \/ \E r \in Requests : Handle(r)
  \/ \E o \in Refreshers : Refresh(o)
  \/ \E n \in Nodes : Restart(n)

Spec == Init /\ [][Next]_vars

\* Handlers and loops keep running, refreshMu starves nobody (Go's mutex is fair), and
\* a query that is repeated for ever answers in the end.
Fairness ==
  /\ \A r \in Requests : WF_vars(Handle(r))
  /\ \A o \in Refreshers :
       /\ WF_vars(Refresh(o))
       /\ \A k \in DOMAIN Kinds : SF_vars(Len(refresh[o].got) = k - 1 /\ ReadOk(o))

FairSpec == Spec /\ Fairness

-----------------------------------------------------------------------------

\* Review is on only with a scene.
SavedPolicy == {p \in Policy : p.enabled => p.scenes # 0}

Values == [policy |-> SavedPolicy, jev |-> Nat, upstream |-> Nat]

Versioned == [policy: [ver: Nat, val: SavedPolicy], jev: [ver: Nat, val: Nat],
              upstream: [ver: Nat, val: Nat]]

ReadOf(k) == [ver: Nat, val: Values[k], from: {"postgres", "cache"}]

\* The state of every variable; no saved, cached or served policy reviews without a
\* scene.
TypeOK ==
  /\ row \in Versioned
  /\ cached \in [Nodes -> Versioned]
  /\ \A n \in Nodes, k \in KindSet : snapshot[n][k] \in ReadOf(k)
  /\ \A r \in Requests :
       /\ handler[r].pc \in {"unsent", "checkJev", "save", "cache", "refresh",
                             "done", "ended"}
       /\ handler[r].pc \notin {"unsent", "ended"} => handler[r].node \in Nodes /\ handler[r].update \in Updates
       /\ handler[r].saved \in Nat
  /\ \A o \in Refreshers :
       /\ \A h \in refresh[o].held : h \in ReadOf(At(o))
       /\ \A i \in DOMAIN refresh[o].got : refresh[o].got[i] \in ReadOf(Kinds[i])

\* Saving through a patch leaves every field it does not name as the last save left
\* it, whoever saved in between and through whichever gateway ("Fields omitted from
\* a patch keep their saved value"); only review without a scene is switched off.
PatchKeepsOthers ==
  [][\A r \in Requests :
       /\ handler[r].pc = "save"
       /\ handler'[r].pc # "save"
       /\ row' # row
       /\ KindOf(r) = "policy"
       => \A f \in Fields \ DOMAIN handler[r].update.fields :
            \/ row'["policy"].val[f] = row["policy"].val[f]
            \/ f = "enabled" /\ row'["policy"].val.scenes = 0]_vars

\* After the answer to a save the gateway that gave it serves that save or a later
\* one, as long as what it serves was read from the database: refreshes neither
\* overtake each other nor store what they read before the save.
SavedIsServed ==
  \A r \in Requests :
    handler[r].pc = "done" =>
      LET s == snapshot[handler[r].node][KindOf(r)] IN
      s.from = "postgres" => s.ver >= handler[r].saved

\* Every gateway ends up serving what was saved last, also when it was not told.
SnapshotConverges ==
  <>[](\A n \in Nodes, k \in KindSet : snapshot[n][k].ver = row[k].ver)

\* Review is not switched on before a complete Jev connection is saved
\* (TestCannotEnableReviewUntilJevConnectionIsSaved).
EnabledHasJev == row["policy"].val.enabled => JevValid(row["jev"].val)

=============================================================================
