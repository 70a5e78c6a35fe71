------------------------ MODULE ConfigSnapshotProofs ------------------------
(***************************************************************************)
(* Theorems about ConfigSnapshot, for any gateways, requests, updates and  *)
(* order of the kinds.                                                     *)
(*                                                                         *)
(* What was saved is served: refreshMu lets one pass of a gateway read at  *)
(* a time, so a pass that is under way when a save is answered is the one  *)
(* that answers it, and every pass that begins later reads rows that are   *)
(* at least as new.  The inductive invariant says this of every value a    *)
(* pass has read so far.                                                   *)
(***************************************************************************)
EXTENDS ConfigSnapshot, TLAPS

KindNames == {"policy", "jev", "upstream"}

Reads == UNION {ReadOf(k) : k \in KindNames}

HandlerFields == {"pc", "node", "update", "value", "saved"}

Pcs == {"unsent", "checkJev", "save", "cache", "refresh", "done", "ended"}

\* A request on its way to be answered, and what its statement is to write.
HandlerOK(h) ==
  /\ DOMAIN h = HandlerFields
  /\ h.pc \in Pcs
  /\ h.saved \in Nat
  /\ h.pc \notin {"unsent", "ended"} => h.node \in Nodes /\ h.update \in Updates
  /\ h.pc = "checkJev" => h.update.kind = "policy"
  /\ h.pc = "save" /\ h.update.kind # "policy" => h.value \in Nat
  /\ h.pc = "cache" => h.value \in Values[h.update.kind]

PassOK(p) ==
  /\ DOMAIN p = {"held", "got"}
  /\ p.got \in Seq(Reads)
  /\ Len(p.got) <= Len(Kinds)
  /\ p.held # {} => Len(p.got) < Len(Kinds)
  /\ \A h \in p.held : h \in ReadOf(Kinds[Len(p.got) + 1])
  /\ \A i \in DOMAIN p.got : p.got[i] \in ReadOf(Kinds[i])

StoreTyped == row \in Versioned /\ cached \in [Nodes -> Versioned]

SnapshotTyped ==
  /\ DOMAIN snapshot = Nodes
  /\ \A n \in Nodes : DOMAIN snapshot[n] = KindSet
  /\ \A n \in Nodes, k \in KindSet : snapshot[n][k] \in ReadOf(k)

HandlersTyped == DOMAIN handler = Requests /\ \A r \in Requests : HandlerOK(handler[r])

PassesTyped == DOMAIN refresh = Refreshers /\ \A o \in Refreshers : PassOK(refresh[o])

Typed == StoreTyped /\ SnapshotTyped /\ HandlersTyped /\ PassesTyped

-----------------------------------------------------------------------------

\* The number a save was given is one the row has reached.
SavesInRow ==
  \A r \in Requests :
    handler[r].pc \in {"cache", "refresh", "done"} => handler[r].saved <= row[KindOf(r)].ver

\* refreshMu: one pass of a gateway at a time, and a handler makes its own only
\* after its save.
OnePass ==
  /\ \A o, p \in Refreshers : Locked(o) /\ Locked(p) /\ NodeOf(o) = NodeOf(p) => o = p
  /\ \A r \in Requests : Locked(r) => handler[r].pc = "refresh"

\* The pass of o must not store less than r saved: r is answered, or o refreshes
\* for r.
Owes(o, r) == NodeOf(r) = NodeOf(o) /\ (handler[r].pc = "done" \/ r = o)

FreshFor(o, r) ==
  /\ \A i \in DOMAIN refresh[o].got :
       Kinds[i] = KindOf(r) /\ refresh[o].got[i].from = "postgres"
         => refresh[o].got[i].ver >= handler[r].saved
  /\ \A h \in refresh[o].held : At(o) = KindOf(r) => h.ver >= handler[r].saved

PassesFresh == \A o \in Refreshers, r \in Requests : Owes(o, r) => FreshFor(o, r)

ServedInv == SavesInRow /\ OnePass /\ PassesFresh /\ SavedIsServed

-----------------------------------------------------------------------------
(***************************************************************************)
(* Types.                                                                  *)
(***************************************************************************)

LEMMA KindsKnown ==
  /\ KindSet \subseteq KindNames
  /\ Len(Kinds) \in Nat
  /\ \A i \in 1..Len(Kinds) : Kinds[i] \in KindSet
  BY ConfigAssumption DEF KindSet, KindNames

LEMMA VersionedAt ==
  ASSUME NEW v \in Versioned, NEW k \in KindNames
  PROVE  /\ v[k].ver \in Nat
         /\ v[k].val \in Values[k]
         /\ FromDB(v[k]) \in ReadOf(k)
<1>1. CASE k = "policy"
  BY <1>1 DEF Versioned, Values, FromDB, ReadOf
<1>2. CASE k = "jev"
  BY <1>2 DEF Versioned, Values, FromDB, ReadOf
<1>3. CASE k = "upstream"
  BY <1>3 DEF Versioned, Values, FromDB, ReadOf
<1> QED BY <1>1, <1>2, <1>3 DEF KindNames

LEMMA VersionedExcept ==
  ASSUME NEW v \in Versioned, NEW k \in KindNames, NEW ver \in Nat, NEW val \in Values[k]
  PROVE  /\ [v EXCEPT ![k] = [ver |-> ver, val |-> val]] \in Versioned
         /\ \A j \in KindNames : [v EXCEPT ![k] = [ver |-> ver, val |-> val]][j]
                                   = IF j = k THEN [ver |-> ver, val |-> val] ELSE v[j]
<1>1. CASE k = "policy"
  BY <1>1 DEF Versioned, Values, KindNames
<1>2. CASE k = "jev"
  BY <1>2 DEF Versioned, Values, KindNames
<1>3. CASE k = "upstream"
  BY <1>3 DEF Versioned, Values, KindNames
<1> QED BY <1>1, <1>2, <1>3 DEF KindNames

\* A saved policy is unchanged by UpgradeLegacy.
LEMMA SavedIsUpgraded ==
  ASSUME NEW p \in SavedPolicy
  PROVE  \A f \in Fields : UpgradeLegacy(p)[f] = p[f]
  BY DEF SavedPolicy, Policy, UpgradeLegacy, Fields

LEMMA UpdateKinds ==
  ASSUME NEW u \in Updates
  PROVE  u.kind \in KindSet /\ u.kind \in KindNames /\ IsUpdate(u)
  BY ConfigAssumption, KindsKnown

LEMMA ApplyTyped ==
  ASSUME NEW u \in Updates, u.kind = "policy", NEW p \in SavedPolicy
  PROVE  /\ Apply(u, p) \in SavedPolicy
         /\ \A f \in Fields \ DOMAIN u.fields :
              Apply(u, p)[f] = p[f] \/ (f = "enabled" /\ Apply(u, p).scenes = 0)
<1> DEFINE g == [f \in Fields |-> IF f \in DOMAIN u.fields
                                    THEN u.fields[f] ELSE UpgradeLegacy(p)[f]]
<1>1. /\ DOMAIN u.fields \subseteq Fields
      /\ \A f \in DOMAIN u.fields : u.fields[f] \in FieldValues[f]
  BY UpdateKinds DEF IsUpdate
<1>2. p.enabled \in BOOLEAN /\ p.scenes \in Nat /\ p.message \in Nat \cup {-1}
  BY DEF SavedPolicy, Policy
<1>3. g.enabled \in BOOLEAN /\ g.scenes \in Nat /\ g.message \in Nat \cup {-1}
  BY <1>1, <1>2, SavedIsUpgraded DEF Fields, FieldValues
<1>4. Apply(u, p) = [f \in Fields |-> IF f = "enabled" THEN g.enabled /\ g.scenes # 0 ELSE g[f]]
  <2>1. Apply(u, p) = [g EXCEPT !.enabled = g.enabled /\ g.scenes # 0]
    BY DEF Apply, UpgradeLegacy
  <2>2. DOMAIN g = Fields /\ "enabled" \in Fields
    BY DEF Fields
  <2> HIDE DEF g
  <2>3. [g EXCEPT !.enabled = g.enabled /\ g.scenes # 0]
          = [f \in DOMAIN g |-> IF f = "enabled" THEN g.enabled /\ g.scenes # 0 ELSE g[f]]
    BY <2>2, Zenon
  <2> QED BY <2>1, <2>2, <2>3
<1>5. \A f \in Fields \ DOMAIN u.fields : g[f] = p[f]
  BY SavedIsUpgraded
<1> HIDE DEF g
<1>6. Apply(u, p) = [enabled |-> g.enabled /\ g.scenes # 0, scenes |-> g.scenes, message |-> g.message]
  BY <1>4 DEF Fields
<1>7. Apply(u, p) \in SavedPolicy
  <2> DEFINE e == g.enabled /\ g.scenes # 0
  <2>1. e \in BOOLEAN /\ (e => g.scenes # 0)
    OBVIOUS
  <2> HIDE DEF e
  <2>2. [enabled |-> e, scenes |-> g.scenes, message |-> g.message] \in Policy
    BY <1>3, <2>1 DEF Policy
  <2>3. [enabled |-> e, scenes |-> g.scenes, message |-> g.message] \in SavedPolicy
    BY <2>1, <2>2 DEF SavedPolicy
  <2> QED BY <1>6, <2>3 DEF e
<1>8. \A f \in Fields \ DOMAIN u.fields :
        Apply(u, p)[f] = p[f] \/ (f = "enabled" /\ Apply(u, p).scenes = 0)
  BY <1>2, <1>3, <1>5, <1>6 DEF Fields
<1> QED BY <1>7, <1>8

\* What a save writes is a value of its kind.
LEMMA NewValueTyped ==
  ASSUME StoreTyped, HandlersTyped, NEW r \in Requests, handler[r].pc = "save"
  PROVE  KindOf(r) \in KindNames /\ NewValue(r) \in Values[KindOf(r)]
<1>1. handler[r].update \in Updates /\ HandlerOK(handler[r])
  BY DEF HandlersTyped, HandlerOK
<1>2. KindOf(r) \in KindNames
  BY <1>1, UpdateKinds DEF KindOf
<1>3. CASE KindOf(r) = "policy"
  <2>1. row["policy"].val \in SavedPolicy
    BY VersionedAt DEF StoreTyped, KindNames, Values
  <2>2. NewValue(r) = Apply(handler[r].update, row["policy"].val)
    BY <1>3 DEF NewValue, KindOf
  <2>3. NewValue(r) \in SavedPolicy
    BY <1>1, <1>3, <2>1, <2>2, ApplyTyped DEF KindOf
  <2> QED BY <1>2, <1>3, <2>3 DEF Values
<1>4. CASE KindOf(r) # "policy"
  <2>1. NewValue(r) \in Nat
    BY <1>1, <1>4 DEF NewValue, KindOf, HandlerOK
  <2> QED BY <1>2, <1>4, <2>1 DEF KindNames, Values
<1> QED BY <1>2, <1>3, <1>4

\* One request moves alone.
LEMMA HandlerMoves ==
  ASSUME HandlersTyped, NEW r \in Requests, NEW h, HandlerOK(h),
         handler' = [handler EXCEPT ![r] = h]
  PROVE  HandlersTyped'
  BY DEF HandlersTyped

LEMMA EndedOK == HandlerOK(Ended)
  BY DEF HandlerOK, Ended, Unsent, HandlerFields, Pcs

LEMMA NoPassOK == PassOK(NoPass)
<1>1. <<>> \in Seq(Reads) /\ Len(<<>>) = 0 /\ DOMAIN <<>> = {}
  OBVIOUS
<1> QED BY <1>1, KindsKnown DEF PassOK, NoPass

LEMMA SendTyped ==
  ASSUME Typed, NEW r \in Requests, NEW n \in Nodes, NEW u \in Updates,
         NEW pc \in {"checkJev", "save"}, NEW value,
         pc = "checkJev" => u.kind = "policy",
         u.kind # "policy" => value \in Nat, Send(r, n, u, pc, value)
  PROVE  Typed'
<1> DEFINE h == [pc |-> pc, node |-> n, update |-> u, value |-> value, saved |-> 0]
<1>1. HandlerOK(h)
  BY DEF HandlerOK, HandlerFields, Pcs
<1>2. handler' = [handler EXCEPT ![r] = h]
  BY DEF Send
<1> HIDE DEF h
<1>3. HandlersTyped'
  BY <1>1, <1>2, HandlerMoves DEF Typed
<1> QED BY <1>3 DEF Typed, Send, StoreTyped, SnapshotTyped, PassesTyped

LEMMA EndTyped ==
  ASSUME HandlersTyped, NEW r \in Requests, NEW pc, End(r, pc)
  PROVE  HandlersTyped'
  BY EndedOK, HandlerMoves DEF End

LEMMA ReceiveTyped ==
  ASSUME Typed, NEW r \in Requests, NEW n \in Nodes, NEW u \in Updates,
         ReceivePolicy(r, n, u) \/ ReceiveJev(r, n, u) \/ ReceiveUpstream(r, n, u)
  PROVE  Typed'
<1>1. ASSUME Refuse(r) PROVE Typed'
  <2>1. HandlersTyped'
    BY <1>1, EndTyped DEF Refuse, Typed
  <2> QED BY <1>1, <2>1 DEF Refuse, Typed, StoreTyped, SnapshotTyped, PassesTyped
<1>2. CASE ReceivePolicy(r, n, u)
  BY <1>1, <1>2, SendTyped DEF ReceivePolicy
<1>3. CASE ReceiveJev(r, n, u)
  <2>1. u.kind = "jev" /\ u.key \in Nat
    BY <1>3, UpdateKinds DEF IsUpdate, ReceiveJev
  <2>2. snapshot[n]["jev"].val \in Nat
    BY <2>1, UpdateKinds DEF Typed, SnapshotTyped, ReadOf, Values
  <2> QED BY <1>1, <1>3, <2>1, <2>2, SendTyped DEF ReceiveJev
<1>4. CASE ReceiveUpstream(r, n, u)
  <2>1. u.kind = "upstream" /\ u.url \in Nat
    BY <1>4, UpdateKinds DEF IsUpdate, ReceiveUpstream
  <2> QED BY <1>4, <2>1, SendTyped DEF ReceiveUpstream
<1> QED BY <1>2, <1>3, <1>4

LEMMA StepTyped ==
  ASSUME HandlersTyped, NEW r \in Requests,
         NEW from \in Pcs \ {"unsent", "ended"}, NEW to \in {"save", "refresh", "done"},
         to = "save" => handler[r].update.kind = "policy",
         Step(r, from, to)
  PROVE  HandlersTyped'
<1> DEFINE h == [handler[r] EXCEPT !.pc = to]
<1>1. HandlerOK(h)
  BY DEF HandlersTyped, HandlerOK, HandlerFields, Pcs, Step
<1>2. handler' = [handler EXCEPT ![r] = h]
  BY DEF Step
<1> HIDE DEF h
<1> QED BY <1>1, <1>2, HandlerMoves

LEMMA CheckJevTyped ==
  ASSUME Typed, NEW r \in Requests, CheckJev(r)
  PROVE  Typed'
<1>1. ASSUME Step(r, "checkJev", "save") PROVE HandlersTyped'
  <2>1. handler[r].update.kind = "policy"
    BY <1>1 DEF Step, Typed, HandlersTyped, HandlerOK
  <2> QED BY <1>1, <2>1, StepTyped DEF Typed, Pcs
<1>2. HandlersTyped'
  BY <1>1, EndTyped DEF CheckJev, Typed
<1> QED BY <1>2 DEF Typed, CheckJev, StoreTyped, SnapshotTyped, PassesTyped

LEMMA SaveTyped ==
  ASSUME Typed, NEW r \in Requests, Save(r)
  PROVE  Typed'
<1>1. /\ KindOf(r) \in KindNames
      /\ NewValue(r) \in Values[KindOf(r)]
      /\ row[KindOf(r)].ver + 1 \in Nat
  BY NewValueTyped, VersionedAt DEF Save, Typed, StoreTyped
<1>2. row' \in Versioned
  <2>1. CASE UNCHANGED row
    BY <2>1 DEF Typed, StoreTyped
  <2>2. CASE row' = [row EXCEPT ![KindOf(r)] = [ver |-> @.ver + 1, val |-> NewValue(r)]]
    <3>1. row' = [row EXCEPT ![KindOf(r)] = [ver |-> row[KindOf(r)].ver + 1, val |-> NewValue(r)]]
      BY <2>2
    <3> QED BY <1>1, <3>1, VersionedExcept DEF Typed, StoreTyped
  <2> QED BY <2>1, <2>2 DEF Save
<1>3. HandlersTyped'
  <2>1. CASE End(r, "save")
    BY <2>1, EndTyped DEF Typed
  <2>2. CASE handler' = [handler EXCEPT ![r].pc = "cache", ![r].value = NewValue(r),
                                        ![r].saved = row[KindOf(r)].ver + 1]
    <3> DEFINE h == [handler[r] EXCEPT !.pc = "cache", !.value = NewValue(r),
                                       !.saved = row[KindOf(r)].ver + 1]
    <3>1. handler' = [handler EXCEPT ![r] = h]
      BY <2>2 DEF Typed, HandlersTyped
    <3>2. HandlerOK(h)
      BY <1>1 DEF Typed, HandlersTyped, HandlerOK, HandlerFields, Pcs, Save, KindOf
    <3> HIDE DEF h
    <3> QED BY <3>1, <3>2, HandlerMoves DEF Typed
  <2> QED BY <2>1, <2>2 DEF Save
<1> QED BY <1>2, <1>3 DEF Typed, Save, StoreTyped, SnapshotTyped, PassesTyped

\* One kind of one gateway is cached anew.
LEMMA CachedMoves ==
  ASSUME StoreTyped, NEW n \in Nodes, NEW k \in KindNames, NEW ver \in Nat, NEW val \in Values[k],
         cached' = [cached EXCEPT ![n][k] = [ver |-> ver, val |-> val]], UNCHANGED row
  PROVE  StoreTyped'
<1>1. [cached[n] EXCEPT ![k] = [ver |-> ver, val |-> val]] \in Versioned
  BY VersionedExcept DEF StoreTyped
<1>2. cached' = [cached EXCEPT ![n] = [cached[n] EXCEPT ![k] = [ver |-> ver, val |-> val]]]
  OBVIOUS
<1> QED BY <1>1, <1>2 DEF StoreTyped

LEMMA CacheSavedTyped ==
  ASSUME Typed, NEW r \in Requests, CacheSaved(r)
  PROVE  Typed'
<1>1. /\ handler[r].node \in Nodes
      /\ KindOf(r) \in KindNames
      /\ handler[r].saved \in Nat
      /\ handler[r].value \in Values[KindOf(r)]
  BY UpdateKinds DEF Typed, HandlersTyped, HandlerOK, CacheSaved, Step, KindOf
<1>2. StoreTyped'
  BY <1>1, CachedMoves DEF Typed, CacheSaved
<1>3. HandlersTyped'
  BY StepTyped DEF Typed, CacheSaved, Pcs
<1> QED BY <1>2, <1>3 DEF Typed, CacheSaved, SnapshotTyped, PassesTyped

\* Who reads next reads a kind of a gateway.
LEMMA Reader ==
  ASSUME HandlersTyped, PassesTyped, NEW o \in Refreshers, MayRefresh(o)
  PROVE  /\ NodeOf(o) \in Nodes
         /\ PassOK(refresh[o])
         /\ Len(refresh[o].got) \in Nat
         /\ Len(refresh[o].got) < Len(Kinds) => At(o) \in KindSet /\ At(o) \in KindNames
<1>1. PassOK(refresh[o]) /\ Len(refresh[o].got) \in Nat
  BY DEF PassesTyped, PassOK
<1>2. NodeOf(o) \in Nodes
  BY DEF NodeOf, MayRefresh, Refreshers, HandlersTyped, HandlerOK
<1>3. Len(refresh[o].got) < Len(Kinds) => At(o) \in KindSet /\ At(o) \in KindNames
  BY <1>1, KindsKnown DEF At
<1> QED BY <1>1, <1>2, <1>3

LEMMA PassMoves ==
  ASSUME PassesTyped, NEW o \in Refreshers, NEW p, PassOK(p), refresh' = [refresh EXCEPT ![o] = p]
  PROVE  PassesTyped'
  BY DEF PassesTyped

LEMMA GotTyped ==
  ASSUME PassesTyped, NEW o \in Refreshers, Len(refresh[o].got) < Len(Kinds),
         At(o) \in KindNames, NEW v \in ReadOf(At(o)), Got(o, v)
  PROVE  PassesTyped'
<1> DEFINE p == [held |-> {}, got |-> Append(refresh[o].got, v)]
<1>1. PassOK(refresh[o])
  BY DEF PassesTyped
<1>2. /\ refresh[o].got \in Seq(Reads)
      /\ v \in Reads
      /\ Len(refresh[o].got) \in Nat
  BY <1>1 DEF PassOK, Reads
<1>3. /\ Append(refresh[o].got, v) \in Seq(Reads)
      /\ Len(Append(refresh[o].got, v)) = Len(refresh[o].got) + 1
      /\ DOMAIN Append(refresh[o].got, v) = 1..(Len(refresh[o].got) + 1)
      /\ \A i \in 1..Len(refresh[o].got) : Append(refresh[o].got, v)[i] = refresh[o].got[i]
      /\ Append(refresh[o].got, v)[Len(refresh[o].got) + 1] = v
  BY <1>2
<1>4. DOMAIN refresh[o].got = 1..Len(refresh[o].got)
  BY <1>2
<1>5. PassOK(p)
  BY <1>1, <1>2, <1>3, <1>4, KindsKnown DEF PassOK, At
<1>6. refresh' = [refresh EXCEPT ![o] = p]
  BY DEF Got
<1> HIDE DEF p
<1> QED BY <1>5, <1>6, PassMoves

LEMMA ReadOkTyped ==
  ASSUME Typed, NEW o \in Refreshers, ReadOk(o)
  PROVE  Typed'
<1> DEFINE p == [refresh[o] EXCEPT !.held = {FromDB(row[At(o)])}]
<1>1. PassOK(refresh[o]) /\ Len(refresh[o].got) < Len(Kinds) /\ At(o) \in KindNames
  BY Reader DEF ReadOk, MayRead, Typed
<1>2. FromDB(row[At(o)]) \in ReadOf(At(o))
  BY <1>1, VersionedAt DEF Typed, StoreTyped
<1>3. PassOK(p)
  BY <1>1, <1>2 DEF PassOK, At
<1>4. refresh' = [refresh EXCEPT ![o] = p]
  BY DEF ReadOk
<1> HIDE DEF p
<1>5. PassesTyped'
  BY <1>3, <1>4, PassMoves DEF Typed
<1> QED BY <1>5 DEF Typed, ReadOk, StoreTyped, SnapshotTyped, HandlersTyped

\* A pass that holds an answer is one that may refresh.
LEMMA Holder ==
  ASSUME OnePass, NEW o \in Refreshers, refresh[o].held # {}
  PROVE  Locked(o) /\ MayRefresh(o)
  BY DEF OnePass, Locked, NoPass, MayRefresh

LEMMA CacheReadTyped ==
  ASSUME Typed, OnePass, NEW o \in Refreshers, CacheRead(o)
  PROVE  Typed'
<1>1. PICK h \in refresh[o].held :
        /\ cached' = [cached EXCEPT ![NodeOf(o)][At(o)] = [ver |-> h.ver, val |-> h.val]]
        /\ Got(o, h)
  BY DEF CacheRead
<1>2. /\ NodeOf(o) \in Nodes
      /\ Len(refresh[o].got) < Len(Kinds)
      /\ At(o) \in KindNames
      /\ h \in ReadOf(At(o))
  BY Holder, Reader DEF Typed, PassOK, At
<1>3. h.ver \in Nat /\ h.val \in Values[At(o)]
  BY <1>2 DEF ReadOf
<1>4. StoreTyped'
  BY <1>1, <1>2, <1>3, CachedMoves DEF Typed, CacheRead
<1>5. PassesTyped'
  BY <1>1, <1>2, GotTyped DEF Typed
<1> QED BY <1>4, <1>5 DEF Typed, CacheRead, SnapshotTyped, HandlersTyped

LEMMA ReadFailTyped ==
  ASSUME Typed, NEW o \in Refreshers, ReadFail(o)
  PROVE  Typed'
<1> DEFINE c == cached[NodeOf(o)][At(o)]
           v == [ver |-> c.ver, val |-> c.val, from |-> "cache"]
<1>1. /\ NodeOf(o) \in Nodes
      /\ Len(refresh[o].got) < Len(Kinds)
      /\ At(o) \in KindNames
  BY Reader DEF ReadFail, MayRead, Typed
<1>2. c.ver \in Nat /\ c.val \in Values[At(o)]
  BY <1>1, VersionedAt DEF Typed, StoreTyped
<1>3. v \in ReadOf(At(o))
  BY <1>2 DEF ReadOf
<1>4. Got(o, v)
  BY DEF ReadFail
<1> HIDE DEF v
<1>5. PassesTyped'
  BY <1>1, <1>3, <1>4, GotTyped DEF Typed
<1> QED BY <1>5 DEF Typed, ReadFail, StoreTyped, SnapshotTyped, HandlersTyped

\* Where a complete pass has the value of each kind.
LEMMA PlaceOfKind ==
  ASSUME NEW k \in KindSet
  PROVE  /\ (CHOOSE j \in DOMAIN Kinds : Kinds[j] = k) \in DOMAIN Kinds
         /\ Kinds[CHOOSE j \in DOMAIN Kinds : Kinds[j] = k] = k
  BY DEF KindSet

LEMMA CompletePass ==
  ASSUME NEW o \in Refreshers, PassOK(refresh[o]), Len(refresh[o].got) = Len(Kinds)
  PROVE  DOMAIN refresh[o].got = DOMAIN Kinds
  BY ConfigAssumption DEF PassOK

\* One snapshot is stored.
LEMMA SnapshotMoves ==
  ASSUME SnapshotTyped, NEW n \in Nodes, NEW s, DOMAIN s = KindSet,
         \A k \in KindSet : s[k] \in ReadOf(k), snapshot' = [snapshot EXCEPT ![n] = s]
  PROVE  SnapshotTyped'
  BY DEF SnapshotTyped

LEMMA RefreshEndTyped ==
  ASSUME Typed, NEW o \in Refreshers, RefreshEnd(o)
  PROVE  Typed'
<1> DEFINE s == [k \in KindSet |-> refresh[o].got[CHOOSE j \in DOMAIN Kinds : Kinds[j] = k]]
<1>1. NodeOf(o) \in Nodes /\ PassOK(refresh[o])
  <2>1. MayRefresh(o)
    BY ConfigAssumption DEF RefreshEnd, MayRefresh, Step, Refreshers
  <2> QED BY <2>1, Reader DEF Typed
<1>2. \A k \in KindSet : s[k] \in ReadOf(k)
  <2> TAKE k \in KindSet
  <2> DEFINE j == CHOOSE j \in DOMAIN Kinds : Kinds[j] = k
  <2>1. j \in DOMAIN refresh[o].got /\ Kinds[j] = k
    BY <1>1, PlaceOfKind, CompletePass DEF RefreshEnd
  <2>2. s[k] = refresh[o].got[j]
    OBVIOUS
  <2> HIDE DEF j, s
  <2> QED BY <1>1, <2>1, <2>2 DEF PassOK
<1>3. snapshot' = [snapshot EXCEPT ![NodeOf(o)] = s] /\ DOMAIN s = KindSet
  BY DEF RefreshEnd
<1> HIDE DEF s
<1>4. SnapshotTyped'
  BY <1>1, <1>2, <1>3, SnapshotMoves DEF Typed
<1>5. PassesTyped'
  BY NoPassOK, PassMoves DEF RefreshEnd, Typed
<1>6. HandlersTyped'
  <2>1. CASE UNCHANGED handler
    BY <2>1 DEF Typed, HandlersTyped
  <2>2. CASE o \in Requests /\ Step(o, "refresh", "done")
    BY <2>2, StepTyped DEF Typed, Pcs
  <2> QED BY <2>1, <2>2 DEF RefreshEnd
<1> QED BY <1>4, <1>5, <1>6 DEF Typed, RefreshEnd, StoreTyped

LEMMA FromRows ==
  ASSUME StoreTyped
  PROVE  \A k \in KindSet : FromDB(row[k]) \in ReadOf(k)
  BY KindsKnown, VersionedAt DEF StoreTyped

LEMMA RestartTyped ==
  ASSUME Typed, NEW n \in Nodes, Restart(n)
  PROVE  Typed'
<1>1. StoreTyped'
  BY DEF Restart, Typed, StoreTyped
<1>2. SnapshotTyped'
  <2> DEFINE s == [k \in KindSet |-> FromDB(row[k])]
  <2>1. \A k \in KindSet : s[k] \in ReadOf(k)
    BY FromRows DEF Typed
  <2>2. snapshot' = [snapshot EXCEPT ![n] = s] /\ DOMAIN s = KindSet
    BY DEF Restart
  <2> HIDE DEF s
  <2> QED BY <2>1, <2>2, SnapshotMoves DEF Typed
<1>3. HandlersTyped'
  BY EndedOK DEF Restart, Typed, HandlersTyped
<1>4. PassesTyped'
  BY NoPassOK DEF Restart, Typed, PassesTyped
<1> QED BY <1>1, <1>2, <1>3, <1>4 DEF Typed

LEMMA InitTyped == Init => Typed
<1> SUFFICES ASSUME Init PROVE Typed
  OBVIOUS
<1>1. StoreTyped
  <2>1. PICK key \in InitialJev :
          row = [policy |-> [ver |-> 0, val |-> [enabled |-> FALSE, scenes |-> 0, message |-> 0]],
                 jev |-> [ver |-> 0, val |-> key],
                 upstream |-> [ver |-> 0, val |-> 0]]
    BY DEF Init
  <2>2. [enabled |-> FALSE, scenes |-> 0, message |-> 0] \in SavedPolicy
    BY DEF SavedPolicy, Policy
  <2>3. key \in Nat
    BY ConfigAssumption
  <2>4. row \in Versioned
    BY <2>1, <2>2, <2>3 DEF Versioned
  <2> QED BY <2>4 DEF Init, StoreTyped
<1>2. SnapshotTyped
  BY <1>1, FromRows DEF Init, SnapshotTyped
<1>3. HandlerOK(Unsent)
  BY DEF HandlerOK, Unsent, HandlerFields, Pcs
<1>4. HandlersTyped
  BY <1>3 DEF Init, HandlersTyped
<1>5. PassesTyped
  BY NoPassOK DEF Init, PassesTyped
<1> QED BY <1>1, <1>2, <1>4, <1>5 DEF Typed

LEMMA NextTyped ==
  ASSUME Typed, OnePass, [Next]_vars
  PROVE  Typed'
<1>1. ASSUME NEW r \in Requests, NEW n \in Nodes, NEW u \in Updates,
             ReceivePolicy(r, n, u) \/ ReceiveJev(r, n, u) \/ ReceiveUpstream(r, n, u)
      PROVE  Typed'
  BY <1>1, ReceiveTyped
<1>2. ASSUME NEW r \in Requests, Handle(r) PROVE Typed'
  BY <1>2, CheckJevTyped, SaveTyped, CacheSavedTyped DEF Handle
<1>3. ASSUME NEW o \in Refreshers, Refresh(o) PROVE Typed'
  BY <1>3, ReadOkTyped, CacheReadTyped, ReadFailTyped, RefreshEndTyped DEF Refresh
<1>4. ASSUME NEW n \in Nodes, Restart(n) PROVE Typed'
  BY <1>4, RestartTyped
<1>5. CASE UNCHANGED vars
  BY <1>5 DEF vars, Typed, StoreTyped, SnapshotTyped, HandlersTyped, PassesTyped
<1> QED BY <1>1, <1>2, <1>3, <1>4, <1>5 DEF Next

LEMMA TypedIsTypeOK == Typed => TypeOK
<1> SUFFICES ASSUME Typed PROVE TypeOK
  OBVIOUS
<1>1. \A o \in Refreshers : \A h \in refresh[o].held : h \in ReadOf(At(o))
  BY DEF Typed, PassesTyped, PassOK, At
<1> QED BY <1>1 DEF Typed, TypeOK, StoreTyped, SnapshotTyped, HandlersTyped, HandlerOK,
             PassesTyped, PassOK, Pcs

-----------------------------------------------------------------------------
(***************************************************************************)
(* What was saved is served.                                               *)
(***************************************************************************)

RowGrows == \A k \in KindNames : row'[k].ver >= row[k].ver

LEMMA RowVersions ==
  ASSUME Typed
  PROVE  \A k \in KindNames : row[k].ver \in Nat
  BY VersionedAt DEF Typed, StoreTyped

LEMMA HandlerFacts ==
  ASSUME Typed, NEW r \in Requests, handler[r].pc \notin {"unsent", "ended"}
  PROVE  /\ handler[r].node \in Nodes
         /\ KindOf(r) \in KindNames
         /\ KindOf(r) \in KindSet
         /\ handler[r].saved \in Nat
  BY UpdateKinds DEF Typed, HandlersTyped, HandlerOK, KindOf

\* NodeOf a request is what its handler says: no gateway is a request.
LEMMA RequestNode ==
  ASSUME NEW r \in Requests
  PROVE  NodeOf(r) = handler[r].node /\ r \in Refreshers
  BY ConfigAssumption DEF NodeOf, Refreshers

LEMMA UnlockedIsFresh ==
  ASSUME NEW o \in Refreshers, NEW r \in Requests, ~Locked(o)
  PROVE  FreshFor(o, r)
<1>1. refresh[o].got = <<>> /\ refresh[o].held = {}
  BY DEF Locked, NoPass
<1> QED BY <1>1 DEF FreshFor

\* A request moves that neither refreshes nor has been answered, and the rows grow.
LEMMA HandlerServed ==
  ASSUME Typed, ServedInv, NEW r \in Requests, NEW h,
         handler' = [handler EXCEPT ![r] = h],
         handler[r].pc \notin {"refresh", "done"}, h.pc # "done",
         h.pc \in {"cache", "refresh"} => h.saved <= row'[h.update.kind].ver,
         RowGrows, \A k \in KindNames : row'[k].ver \in Nat, UNCHANGED <<snapshot, refresh>>
  PROVE  ServedInv'
<1>1. ~Locked(r) /\ ~Locked(r)'
  BY DEF ServedInv, OnePass, Locked
<1>2. \A q \in Requests : q # r => handler'[q] = handler[q] /\ KindOf(q)' = KindOf(q)
  BY DEF Typed, HandlersTyped, KindOf
<1>3. handler'[r] = h /\ KindOf(r)' = h.update.kind
  BY DEF Typed, HandlersTyped, KindOf
<1>4. \A o \in Refreshers : o # r => NodeOf(o)' = NodeOf(o)
  BY <1>2 DEF NodeOf, Refreshers
<1>5. SavesInRow'
  <2> SUFFICES ASSUME NEW q \in Requests, q # r, handler[q].pc \in {"cache", "refresh", "done"}
               PROVE  handler[q].saved <= row'[KindOf(q)].ver
    BY <1>2, <1>3 DEF SavesInRow
  <2>1. KindOf(q) \in KindNames /\ handler[q].saved \in Nat
    BY HandlerFacts
  <2>2. handler[q].saved <= row[KindOf(q)].ver
    BY DEF ServedInv, SavesInRow
  <2>3. row'[KindOf(q)].ver >= row[KindOf(q)].ver /\ row[KindOf(q)].ver \in Nat
        /\ row'[KindOf(q)].ver \in Nat
    BY <2>1, RowVersions DEF RowGrows
  <2> QED BY <2>1, <2>2, <2>3
<1>6. OnePass'
  BY <1>1, <1>2, <1>4 DEF ServedInv, OnePass, Locked
<1>7. PassesFresh'
  <2> SUFFICES ASSUME NEW o \in Refreshers, NEW q \in Requests, Owes(o, q)'
               PROVE  FreshFor(o, q)'
    BY DEF PassesFresh, Refreshers
  <2>1. CASE o = r
    <3>1. refresh'[o].got = <<>> /\ refresh'[o].held = {}
      BY <1>1, <2>1 DEF Locked, NoPass
    <3> QED BY <3>1 DEF FreshFor
  <2>2. CASE o # r
    <3>1. q # r
      BY <1>3, <2>2 DEF Owes
    <3>2. Owes(o, q)
      BY <1>2, <1>4, <2>2, <3>1, RequestNode DEF Owes
    <3>3. FreshFor(o, q)
      BY <3>2 DEF ServedInv, PassesFresh
    <3> QED BY <1>2, <3>1, <3>3 DEF FreshFor, At
  <2> QED BY <2>1, <2>2
<1>8. SavedIsServed'
  BY <1>2, <1>3 DEF ServedInv, SavedIsServed
<1> QED BY <1>5, <1>6, <1>7, <1>8 DEF ServedInv

LEMMA RowStays == ASSUME Typed, UNCHANGED row
                  PROVE  RowGrows /\ \A k \in KindNames : row'[k].ver \in Nat
  BY RowVersions DEF RowGrows

LEMMA SendServed ==
  ASSUME Typed, ServedInv, NEW r \in Requests, NEW n, NEW u,
         NEW pc \in {"checkJev", "save"}, NEW value, Send(r, n, u, pc, value)
  PROVE  ServedInv'
<1> DEFINE h == [pc |-> pc, node |-> n, update |-> u, value |-> value, saved |-> 0]
<1>1. handler' = [handler EXCEPT ![r] = h] /\ h.pc \in {"checkJev", "save"}
  BY DEF Send
<1> HIDE DEF h
<1> QED BY <1>1, RowStays, HandlerServed DEF Send

LEMMA EndServed ==
  ASSUME Typed, ServedInv, NEW r \in Requests, NEW pc \in {"unsent", "checkJev", "save"}, End(r, pc),
         RowGrows, \A k \in KindNames : row'[k].ver \in Nat, UNCHANGED <<snapshot, refresh>>
  PROVE  ServedInv'
<1>1. handler' = [handler EXCEPT ![r] = Ended] /\ Ended.pc = "ended"
  BY DEF End, Ended, Unsent
<1> QED BY <1>1, HandlerServed DEF End

LEMMA ReceiveServed ==
  ASSUME Typed, ServedInv, NEW r \in Requests, NEW n \in Nodes, NEW u \in Updates,
         ReceivePolicy(r, n, u) \/ ReceiveJev(r, n, u) \/ ReceiveUpstream(r, n, u)
  PROVE  ServedInv'
<1>1. ASSUME Refuse(r) PROVE ServedInv'
  BY <1>1, EndServed, RowStays DEF Refuse
<1> QED BY <1>1, SendServed DEF ReceivePolicy, ReceiveJev, ReceiveUpstream

LEMMA CheckJevServed ==
  ASSUME Typed, ServedInv, NEW r \in Requests, CheckJev(r)
  PROVE  ServedInv'
<1>1. CASE Step(r, "checkJev", "save")
  <2> DEFINE h == [handler[r] EXCEPT !.pc = "save"]
  <2>1. handler' = [handler EXCEPT ![r] = h] /\ h.pc = "save" /\ handler[r].pc = "checkJev"
    BY <1>1 DEF Step, Typed, HandlersTyped, HandlerOK, HandlerFields
  <2> HIDE DEF h
  <2> QED BY <2>1, RowStays, HandlerServed DEF CheckJev
<1>2. CASE End(r, "checkJev")
  BY <1>2, RowStays, EndServed DEF CheckJev
<1> QED BY <1>1, <1>2 DEF CheckJev

LEMMA SaveServed ==
  ASSUME Typed, ServedInv, NEW r \in Requests, Save(r)
  PROVE  ServedInv'
<1>1. /\ KindOf(r) \in KindNames
      /\ NewValue(r) \in Values[KindOf(r)]
      /\ row[KindOf(r)].ver \in Nat
  BY NewValueTyped, RowVersions DEF Save, Typed
<1>2. CASE UNCHANGED row
  <2>1. \/ End(r, "save")
        \/ row' = [row EXCEPT ![KindOf(r)] = [ver |-> @.ver + 1, val |-> NewValue(r)]]
    BY DEF Save
  <2>2. row' # [row EXCEPT ![KindOf(r)] = [ver |-> @.ver + 1, val |-> NewValue(r)]]
    <3>1. [row EXCEPT ![KindOf(r)] = [ver |-> row[KindOf(r)].ver + 1, val |-> NewValue(r)]][KindOf(r)].ver
            = row[KindOf(r)].ver + 1
      <4> DEFINE num == row[KindOf(r)].ver + 1
                 x == [row EXCEPT ![KindOf(r)] = [ver |-> num, val |-> NewValue(r)]]
      <4>1. DOMAIN row = KindNames
        BY DEF Typed, StoreTyped, Versioned, KindNames
      <4> HIDE DEF num
      <4>3. x[KindOf(r)] = [ver |-> num, val |-> NewValue(r)]
        BY <1>1, <4>1
      <4> HIDE DEF x
      <4>4. x[KindOf(r)].ver = num
        BY <4>3
      <4> QED BY <4>4 DEF x, num
    <3> QED BY <1>1, <1>2, <3>1
  <2>3. End(r, "save")
    BY <2>1, <2>2
  <2> QED BY <1>2, <2>3, RowStays, EndServed DEF Save
<1>3. CASE row' = [row EXCEPT ![KindOf(r)] = [ver |-> @.ver + 1, val |-> NewValue(r)]]
  <2>1. row' = [row EXCEPT ![KindOf(r)] = [ver |-> row[KindOf(r)].ver + 1, val |-> NewValue(r)]]
    BY <1>3
  <2>2. \A j \in KindNames : row'[j] = IF j = KindOf(r)
                                         THEN [ver |-> row[KindOf(r)].ver + 1, val |-> NewValue(r)]
                                         ELSE row[j]
    BY <1>1, <2>1, VersionedExcept DEF Typed, StoreTyped
  <2>3. RowGrows /\ \A k \in KindNames : row'[k].ver \in Nat
    BY <1>1, <2>2, RowVersions DEF RowGrows
  <2>4. CASE End(r, "save")
    BY <2>3, <2>4, EndServed DEF Save
  <2>5. CASE handler' = [handler EXCEPT ![r].pc = "cache", ![r].value = NewValue(r),
                                        ![r].saved = row[KindOf(r)].ver + 1]
    <3> DEFINE h == [handler[r] EXCEPT !.pc = "cache", !.value = NewValue(r),
                                       !.saved = row[KindOf(r)].ver + 1]
    <3>1. handler' = [handler EXCEPT ![r] = h]
      BY <2>5 DEF Typed, HandlersTyped
    <3>2. h.pc = "cache" /\ h.update.kind = KindOf(r) /\ h.saved = row[KindOf(r)].ver + 1
      BY DEF Typed, HandlersTyped, HandlerOK, HandlerFields, KindOf
    <3>3. h.saved <= row'[h.update.kind].ver
      BY <1>1, <2>2, <3>2
    <3> HIDE DEF h
    <3> QED BY <2>3, <3>1, <3>2, <3>3, HandlerServed DEF Save
  <2> QED BY <2>4, <2>5, <1>2 DEF Save
<1> QED BY <1>2, <1>3 DEF Save

LEMMA CacheSavedServed ==
  ASSUME Typed, ServedInv, NEW r \in Requests, CacheSaved(r)
  PROVE  ServedInv'
<1> DEFINE h == [handler[r] EXCEPT !.pc = "refresh"]
<1>1. /\ handler' = [handler EXCEPT ![r] = h]
      /\ handler[r].pc = "cache"
      /\ h.pc = "refresh"
      /\ h.saved = handler[r].saved
      /\ h.update.kind = KindOf(r)
  BY DEF CacheSaved, Step, Typed, HandlersTyped, HandlerOK, HandlerFields, KindOf
<1>2. handler[r].saved <= row[KindOf(r)].ver
  BY <1>1 DEF ServedInv, SavesInRow
<1> HIDE DEF h
<1> QED BY <1>1, <1>2, RowStays, HandlerServed DEF CacheSaved

\* A save that was answered, or is being refreshed for, is in the row.
LEMMA OwedIsInRow ==
  ASSUME Typed, ServedInv, NEW o \in Refreshers, NEW r \in Requests, MayRefresh(o), Owes(o, r)
  PROVE  /\ handler[r].saved \in Nat
         /\ handler[r].saved <= row[KindOf(r)].ver
<1>1. handler[r].pc \in {"refresh", "done"}
  BY DEF Owes, MayRefresh
<1> QED BY <1>1, HandlerFacts DEF ServedInv, SavesInRow

\* A pass reads on, alone at its gateway.
LEMMA PassServed ==
  ASSUME Typed, ServedInv, NEW o \in Refreshers, NEW p, refresh' = [refresh EXCEPT ![o] = p],
         MayRefresh(o), Locked(o) \/ Unlocked(NodeOf(o)),
         \A r \in Requests : Owes(o, r) =>
           /\ \A i \in DOMAIN p.got : Kinds[i] = KindOf(r) /\ p.got[i].from = "postgres"
                => p.got[i].ver >= handler[r].saved
           /\ \A h \in p.held : Kinds[Len(p.got) + 1] = KindOf(r) => h.ver >= handler[r].saved,
         UNCHANGED <<row, snapshot, handler>>
  PROVE  ServedInv'
<1>1. refresh'[o] = p /\ \A q \in Refreshers : q # o => refresh'[q] = refresh[q]
  BY DEF Typed, PassesTyped
<1>2. \A q \in Refreshers : NodeOf(q)' = NodeOf(q)
  BY DEF NodeOf
<1>3. SavesInRow'
  BY DEF ServedInv, SavesInRow, KindOf
<1>4. OnePass'
  <2>1. ASSUME NEW q \in Refreshers, q # o, NodeOf(q) = NodeOf(o) PROVE ~Locked(q)
    BY <2>1 DEF ServedInv, OnePass, Unlocked
  <2>2. \A r \in Requests : Locked(r)' => handler'[r].pc = "refresh"
    BY <1>1, RequestNode DEF ServedInv, OnePass, MayRefresh, Locked
  <2>3. ASSUME NEW a \in Refreshers, NEW b \in Refreshers, Locked(a)', Locked(b)',
               NodeOf(a) = NodeOf(b)
        PROVE  a = b
    <3>1. a # o => Locked(a)
      BY <1>1, <2>3 DEF Locked
    <3>2. b # o => Locked(b)
      BY <1>1, <2>3 DEF Locked
    <3> QED BY <2>1, <2>3, <3>1, <3>2 DEF ServedInv, OnePass
  <2> QED BY <1>2, <2>2, <2>3 DEF OnePass, Refreshers
<1>5. PassesFresh'
  <2> SUFFICES ASSUME NEW q \in Refreshers, NEW r \in Requests, Owes(q, r)'
               PROVE  FreshFor(q, r)'
    BY DEF PassesFresh, Refreshers
  <2>1. Owes(q, r)
    BY <1>2, RequestNode DEF Owes
  <2>2. CASE q = o
    BY <1>1, <2>1, <2>2 DEF FreshFor, At, KindOf
  <2>3. CASE q # o
    <3>1. FreshFor(q, r)
      BY <2>1 DEF ServedInv, PassesFresh
    <3> QED BY <1>1, <2>3, <3>1 DEF FreshFor, At, KindOf
  <2> QED BY <2>2, <2>3
<1>6. SavedIsServed'
  BY DEF ServedInv, SavedIsServed, KindOf
<1> QED BY <1>3, <1>4, <1>5, <1>6 DEF ServedInv

LEMMA ReadOkServed ==
  ASSUME Typed, ServedInv, NEW o \in Refreshers, ReadOk(o)
  PROVE  ServedInv'
<1> DEFINE p == [refresh[o] EXCEPT !.held = {FromDB(row[At(o)])}]
<1>1. /\ refresh' = [refresh EXCEPT ![o] = p]
      /\ p.got = refresh[o].got
      /\ p.held = {FromDB(row[At(o)])}
  BY DEF ReadOk, Typed, PassesTyped, PassOK
<1>2. MayRefresh(o) /\ (Locked(o) \/ Unlocked(NodeOf(o)))
  BY DEF ReadOk, MayRead
<1>3. At(o) \in KindNames /\ row[At(o)].ver \in Nat
  BY Reader, RowVersions DEF ReadOk, MayRead, Typed
<1> HIDE DEF p
<1>4. ASSUME NEW r \in Requests, Owes(o, r)
      PROVE  /\ \A i \in DOMAIN p.got : Kinds[i] = KindOf(r) /\ p.got[i].from = "postgres"
                  => p.got[i].ver >= handler[r].saved
             /\ \A h \in p.held : Kinds[Len(p.got) + 1] = KindOf(r) => h.ver >= handler[r].saved
  <2>1. FreshFor(o, r)
    BY <1>4 DEF ServedInv, PassesFresh
  <2>2. ASSUME Kinds[Len(p.got) + 1] = KindOf(r)
        PROVE  FromDB(row[At(o)]).ver >= handler[r].saved
    <3>1. At(o) = KindOf(r)
      BY <1>1, <2>2 DEF At
    <3>2. FromDB(row[At(o)]).ver = row[At(o)].ver
      BY DEF FromDB
    <3> QED BY <1>2, <1>3, <1>4, <3>1, <3>2, OwedIsInRow
  <2> QED BY <1>1, <2>1, <2>2 DEF FreshFor
<1> QED BY <1>1, <1>2, <1>4, PassServed DEF ReadOk

\* One more value is got: held until now, or the one that was cached.
LEMMA GotServed ==
  ASSUME Typed, ServedInv, NEW o \in Refreshers, NEW v, Got(o, v), v \in ReadOf(At(o)),
         At(o) \in KindNames, MayRefresh(o), Locked(o) \/ Unlocked(NodeOf(o)),
         v.from = "cache" \/ v \in refresh[o].held,
         UNCHANGED <<row, snapshot, handler>>
  PROVE  ServedInv'
<1> DEFINE p == [held |-> {}, got |-> Append(refresh[o].got, v)]
<1>1. refresh' = [refresh EXCEPT ![o] = p] /\ p.held = {} /\ p.got = Append(refresh[o].got, v)
  BY DEF Got
<1>2. refresh[o].got \in Seq(Reads) /\ v \in Reads
  BY DEF Typed, PassesTyped, PassOK, Reads
<1>3. /\ DOMAIN p.got = 1..(Len(refresh[o].got) + 1)
      /\ \A i \in 1..Len(refresh[o].got) : p.got[i] = refresh[o].got[i]
      /\ p.got[Len(refresh[o].got) + 1] = v
      /\ DOMAIN refresh[o].got = 1..Len(refresh[o].got)
      /\ Len(refresh[o].got) \in Nat
  BY <1>1, <1>2
<1> HIDE DEF p
<1>4. ASSUME NEW r \in Requests, Owes(o, r)
      PROVE  \A i \in DOMAIN p.got : Kinds[i] = KindOf(r) /\ p.got[i].from = "postgres"
                  => p.got[i].ver >= handler[r].saved
  <2>1. FreshFor(o, r)
    BY <1>4 DEF ServedInv, PassesFresh
  <2> SUFFICES ASSUME NEW i \in DOMAIN p.got, Kinds[i] = KindOf(r), p.got[i].from = "postgres"
               PROVE  p.got[i].ver >= handler[r].saved
    OBVIOUS
  <2>2. CASE i \in 1..Len(refresh[o].got)
    BY <1>3, <2>1, <2>2 DEF FreshFor
  <2>3. CASE i = Len(refresh[o].got) + 1
    <3>1. v \in refresh[o].held /\ At(o) = KindOf(r)
      BY <1>3, <2>3 DEF At
    <3> QED BY <1>3, <2>1, <2>3, <3>1 DEF FreshFor
  <2> QED BY <1>3, <2>2, <2>3
<1> QED BY <1>1, <1>4, PassServed

LEMMA CacheReadServed ==
  ASSUME Typed, ServedInv, NEW o \in Refreshers, CacheRead(o)
  PROVE  ServedInv'
<1>1. PICK h \in refresh[o].held : Got(o, h)
  BY DEF CacheRead
<1>2. Locked(o) /\ MayRefresh(o)
  BY Holder DEF ServedInv
<1>3. At(o) \in KindNames /\ h \in ReadOf(At(o))
  BY <1>2, Reader DEF Typed, PassOK, At
<1> QED BY <1>1, <1>2, <1>3, GotServed DEF CacheRead

LEMMA ReadFailServed ==
  ASSUME Typed, ServedInv, NEW o \in Refreshers, ReadFail(o)
  PROVE  ServedInv'
<1> DEFINE c == cached[NodeOf(o)][At(o)]
           v == [ver |-> c.ver, val |-> c.val, from |-> "cache"]
<1>1. NodeOf(o) \in Nodes /\ At(o) \in KindNames
  BY Reader DEF ReadFail, MayRead, Typed
<1>2. c.ver \in Nat /\ c.val \in Values[At(o)]
  BY <1>1, VersionedAt DEF Typed, StoreTyped
<1>3. v \in ReadOf(At(o)) /\ v.from = "cache"
  BY <1>2 DEF ReadOf
<1>4. Got(o, v)
  BY DEF ReadFail
<1> HIDE DEF v
<1> QED BY <1>1, <1>3, <1>4, GotServed DEF ReadFail, MayRead

\* Kinds are only refreshed when there are some: a saved update has one.
LEMMA AnsweredWasLocked ==
  ASSUME Typed, NEW r \in Requests, handler[r].pc = "refresh", Len(refresh[r].got) = Len(Kinds)
  PROVE  Locked(r)
<1>1. KindOf(r) \in KindSet
  BY HandlerFacts
<1>2. Len(Kinds) # 0
  BY <1>1, ConfigAssumption DEF KindSet
<1> QED BY <1>2 DEF Locked, NoPass

LEMMA RefreshEndServed ==
  ASSUME Typed, ServedInv, NEW o \in Refreshers, RefreshEnd(o)
  PROVE  ServedInv'
<1> DEFINE s == [k \in KindSet |-> refresh[o].got[CHOOSE j \in DOMAIN Kinds : Kinds[j] = k]]
           n == NodeOf(o)
<1>1. /\ snapshot' = [snapshot EXCEPT ![n] = s]
      /\ refresh' = [refresh EXCEPT ![o] = NoPass]
      /\ UNCHANGED row
      /\ Len(refresh[o].got) = Len(Kinds)
  BY DEF RefreshEnd
<1>2. MayRefresh(o)
  BY ConfigAssumption DEF RefreshEnd, MayRefresh, Step, Refreshers
<1>3. n \in Nodes /\ PassOK(refresh[o])
  BY <1>2, Reader DEF Typed
<1>4. \A r \in Requests : /\ handler'[r].node = handler[r].node
                          /\ handler'[r].update = handler[r].update
                          /\ handler'[r].saved = handler[r].saved
                          /\ handler'[r].pc # handler[r].pc
                               => r = o /\ handler[r].pc = "refresh" /\ handler'[r].pc = "done"
  <2>1. CASE UNCHANGED handler
    BY <2>1
  <2>2. CASE o \in Requests /\ Step(o, "refresh", "done")
    BY <2>2 DEF Step, Typed, HandlersTyped, HandlerOK, HandlerFields
  <2> QED BY <2>1, <2>2 DEF RefreshEnd
<1>5. /\ \A q \in Refreshers : NodeOf(q)' = NodeOf(q)
      /\ \A r \in Requests : KindOf(r)' = KindOf(r)
  BY <1>4 DEF NodeOf, KindOf, Refreshers
<1>6. /\ refresh'[o] = NoPass
      /\ \A q \in Refreshers : q # o => refresh'[q] = refresh[q]
  BY <1>1 DEF Typed, PassesTyped
<1>7. o \in Requests /\ handler[o].pc = "refresh" => Locked(o)
  BY <1>1, AnsweredWasLocked
<1>8. SavesInRow'
  BY <1>1, <1>4, <1>5 DEF ServedInv, SavesInRow
<1>9. OnePass'
  <2>1. \A q \in Refreshers : Locked(q)' => q # o /\ Locked(q)
    BY <1>6 DEF Locked
  <2>2. \A r \in Requests : Locked(r)' => handler'[r].pc = "refresh"
    BY <1>4, <2>1, RequestNode DEF ServedInv, OnePass
  <2>3. \A a, b \in Refreshers : Locked(a)' /\ Locked(b)' /\ NodeOf(a) = NodeOf(b) => a = b
    BY <2>1 DEF ServedInv, OnePass
  <2> QED BY <1>5, <2>2, <2>3 DEF OnePass, Refreshers
<1>10. PassesFresh'
  <2> SUFFICES ASSUME NEW q \in Refreshers, NEW r \in Requests, Owes(q, r)'
               PROVE  FreshFor(q, r)'
    BY DEF PassesFresh, Refreshers
  <2>1. CASE refresh'[q] = NoPass
    BY <2>1 DEF FreshFor, NoPass
  <2>2. CASE q # o /\ Owes(q, r)
    <3>1. FreshFor(q, r)
      BY <2>2 DEF ServedInv, PassesFresh
    <3> QED BY <1>4, <1>5, <1>6, <2>2, <3>1 DEF FreshFor, At
  <2>3. CASE q # o /\ ~Owes(q, r)
    <3>1. r = o /\ NodeOf(q) = NodeOf(o) /\ Locked(o)
      BY <1>4, <1>5, <1>7, <2>3, RequestNode DEF Owes
    <3>2. ~Locked(q)
      BY <2>3, <3>1 DEF ServedInv, OnePass
    <3> QED BY <1>6, <2>1, <2>3, <3>2 DEF Locked
  <2> QED BY <1>6, <2>1, <2>2, <2>3
<1>11. SavedIsServed'
  <2> SUFFICES ASSUME NEW r \in Requests, handler'[r].pc = "done",
                      snapshot'[handler[r].node][KindOf(r)].from = "postgres"
               PROVE  snapshot'[handler[r].node][KindOf(r)].ver >= handler[r].saved
    BY <1>4, <1>5 DEF SavedIsServed
  <2>1. handler[r].pc \in {"refresh", "done"} /\ (handler[r].pc = "refresh" => r = o)
    BY <1>4
  <2>2. handler[r].node \in Nodes /\ KindOf(r) \in KindSet
    BY <2>1, HandlerFacts
  <2>3. CASE handler[r].node = n
    <3>1. Owes(o, r)
      BY <2>1, <2>3, RequestNode DEF Owes
    <3>2. FreshFor(o, r)
      BY <3>1, RequestNode DEF ServedInv, PassesFresh
    <3> DEFINE j == CHOOSE j \in DOMAIN Kinds : Kinds[j] = KindOf(r)
    <3>3. j \in DOMAIN refresh[o].got /\ Kinds[j] = KindOf(r)
      BY <1>1, <1>3, <2>2, PlaceOfKind, CompletePass
    <3>4. s[KindOf(r)] = refresh[o].got[j]
      BY <2>2
    <3>5. snapshot'[handler[r].node] = s
      BY <1>1, <1>3, <2>3 DEF Typed, SnapshotTyped
    <3> HIDE DEF j, s
    <3> QED BY <3>2, <3>3, <3>4, <3>5 DEF FreshFor
  <2>4. CASE handler[r].node # n
    <3>1. handler[r].pc = "done"
      BY <2>1, <2>4, RequestNode
    <3>2. snapshot'[handler[r].node] = snapshot[handler[r].node]
      BY <1>1, <2>2, <2>4 DEF Typed, SnapshotTyped
    <3> QED BY <3>1, <3>2 DEF ServedInv, SavedIsServed
  <2> QED BY <2>3, <2>4
<1> QED BY <1>8, <1>9, <1>10, <1>11 DEF ServedInv

LEMMA RestartServed ==
  ASSUME Typed, ServedInv, NEW n \in Nodes, Restart(n)
  PROVE  ServedInv'
<1>1. \A r \in Requests : handler'[r] = handler[r] \/ handler'[r] = Ended
  BY DEF Restart
<1>2. \A r \in Requests : handler'[r].pc # "ended" =>
        handler'[r] = handler[r] /\ NodeOf(r)' = NodeOf(r) /\ KindOf(r)' = KindOf(r)
  BY <1>1, RequestNode DEF Ended, Unsent, NodeOf, KindOf
<1>3. \A o \in Refreshers : IF NodeOf(o) = n THEN refresh'[o] = NoPass ELSE refresh'[o] = refresh[o]
  BY DEF Restart
<1>4. \A r \in Requests : NodeOf(r) # n => handler'[r] = handler[r]
  BY RequestNode DEF Restart
<1>5. \A o \in Refreshers : Locked(o)' => Locked(o) /\ refresh'[o] = refresh[o] /\ NodeOf(o)' = NodeOf(o)
  <2> TAKE o \in Refreshers
  <2>1. CASE o \in Nodes
    BY <1>3, <2>1 DEF Locked, NodeOf
  <2>2. CASE o \in Requests
    BY <1>3, <1>4, <2>2, ConfigAssumption DEF Locked, NodeOf
  <2> QED BY <2>1, <2>2 DEF Refreshers
<1>6. SavesInRow'
  BY <1>2 DEF Restart, ServedInv, SavesInRow
<1>7. OnePass'
  <2>1. \A r \in Requests : Locked(r)' => handler'[r].pc = "refresh"
    BY <1>3, <1>4, <1>5, RequestNode DEF ServedInv, OnePass, Locked
  <2>2. \A a, b \in Refreshers : Locked(a)' /\ Locked(b)' /\ NodeOf(a)' = NodeOf(b)' => a = b
    BY <1>5 DEF ServedInv, OnePass
  <2> QED BY <2>1, <2>2 DEF OnePass, Refreshers
<1>8. PassesFresh'
  <2> SUFFICES ASSUME NEW o \in Refreshers, NEW r \in Requests, Owes(o, r)', Locked(o)'
               PROVE  FreshFor(o, r)'
    <3>1. \A o \in Refreshers, r \in Requests : ~Locked(o)' => FreshFor(o, r)'
      BY DEF Locked, NoPass, FreshFor
    <3> QED BY <3>1 DEF PassesFresh, Refreshers
  <2>1. handler'[r].pc # "ended"
    BY <1>7, RequestNode DEF Owes, OnePass
  <2>2. Owes(o, r)
    BY <1>2, <1>5, <2>1 DEF Owes
  <2>3. FreshFor(o, r)
    BY <2>2 DEF ServedInv, PassesFresh
  <2> QED BY <1>2, <1>5, <2>1, <2>3 DEF FreshFor, At
<1>9. SavedIsServed'
  <2> SUFFICES ASSUME NEW r \in Requests, handler[r].pc = "done", handler'[r] = handler[r]
               PROVE  LET s == snapshot'[handler[r].node][KindOf(r)] IN
                      s.from = "postgres" => s.ver >= handler[r].saved
    BY <1>1 DEF SavedIsServed, KindOf, Ended, Unsent
  <2>1. handler[r].node \in Nodes /\ KindOf(r) \in KindSet /\ KindOf(r) \in KindNames
        /\ handler[r].saved \in Nat
    BY HandlerFacts
  <2>2. CASE handler[r].node = n
    <3>1. snapshot'[n][KindOf(r)] = FromDB(row[KindOf(r)])
      BY <2>1 DEF Restart, Typed, SnapshotTyped
    <3>2. handler[r].saved <= row[KindOf(r)].ver /\ row[KindOf(r)].ver \in Nat
      BY <2>1, RowVersions DEF ServedInv, SavesInRow
    <3> QED BY <2>1, <2>2, <3>1, <3>2 DEF FromDB
  <2>3. CASE handler[r].node # n
    <3>1. snapshot'[handler[r].node] = snapshot[handler[r].node]
      BY <2>1, <2>3 DEF Restart, Typed, SnapshotTyped
    <3> QED BY <3>1 DEF ServedInv, SavedIsServed
  <2> QED BY <2>2, <2>3
<1> QED BY <1>6, <1>7, <1>8, <1>9 DEF ServedInv

LEMMA InitServed == Init => ServedInv
<1> SUFFICES ASSUME Init PROVE ServedInv
  OBVIOUS
<1>1. \A r \in Requests : handler[r].pc = "unsent"
  BY DEF Init, Unsent
<1>2. \A o \in Refreshers : refresh[o] = NoPass
  BY DEF Init
<1>3. SavesInRow /\ SavedIsServed
  BY <1>1 DEF SavesInRow, SavedIsServed
<1>4. OnePass
  BY <1>2, RequestNode DEF OnePass, Locked
<1>5. PassesFresh
  BY <1>2, UnlockedIsFresh DEF PassesFresh, Locked
<1> QED BY <1>3, <1>4, <1>5 DEF ServedInv

LEMMA NextServed ==
  ASSUME Typed, ServedInv, [Next]_vars
  PROVE  ServedInv'
<1>1. ASSUME NEW r \in Requests, NEW n \in Nodes, NEW u \in Updates,
             ReceivePolicy(r, n, u) \/ ReceiveJev(r, n, u) \/ ReceiveUpstream(r, n, u)
      PROVE  ServedInv'
  BY <1>1, ReceiveServed
<1>2. ASSUME NEW r \in Requests, Handle(r) PROVE ServedInv'
  BY <1>2, CheckJevServed, SaveServed, CacheSavedServed DEF Handle
<1>3. ASSUME NEW o \in Refreshers, Refresh(o) PROVE ServedInv'
  BY <1>3, ReadOkServed, CacheReadServed, ReadFailServed, RefreshEndServed DEF Refresh
<1>4. ASSUME NEW n \in Nodes, Restart(n) PROVE ServedInv'
  BY <1>4, RestartServed
<1>5. CASE UNCHANGED vars
  BY <1>5 DEF vars, ServedInv, SavesInRow, OnePass, PassesFresh, SavedIsServed, Owes, FreshFor,
       Locked, NodeOf, KindOf, At
<1> QED BY <1>1, <1>2, <1>3, <1>4, <1>5 DEF Next

LEMMA Invariant == Spec => [](Typed /\ ServedInv)
<1>1. Init => Typed /\ ServedInv
  BY InitTyped, InitServed
<1>2. Typed /\ ServedInv /\ [Next]_vars => Typed' /\ ServedInv'
  BY NextTyped, NextServed DEF ServedInv
<1> QED BY <1>1, <1>2, PTL DEF Spec

-----------------------------------------------------------------------------

\* Every row, cached value, snapshot, request and pass has its type, and no policy
\* that is saved, cached or served reviews without a scene (PolicyUpdate.Apply).
THEOREM TypeCorrect == Spec => []TypeOK
<1>1. Typed /\ ServedInv => TypeOK
  BY TypedIsTypeOK
<1> QED BY <1>1, Invariant, PTL

\* After the answer to a save its gateway serves that save or a later one, as long as
\* it serves what it read from the database (refresh and its refreshMu).
THEOREM AnsweredSaveIsServed == Spec => []SavedIsServed
<1>1. Typed /\ ServedInv => SavedIsServed
  BY DEF ServedInv
<1> QED BY <1>1, Invariant, PTL

\* PatchKeepsOthers, of one step.
PatchKeeps ==
  \A r \in Requests :
    /\ handler[r].pc = "save"
    /\ handler'[r].pc # "save"
    /\ row' # row
    /\ KindOf(r) = "policy"
    => \A f \in Fields \ DOMAIN handler[r].update.fields :
         \/ row'["policy"].val[f] = row["policy"].val[f]
         \/ f = "enabled" /\ row'["policy"].val.scenes = 0

LEMMA SaveMovesOne ==
  ASSUME Typed, [Next]_vars, row' # row, NEW r \in Requests, handler[r].pc = "save",
         handler'[r].pc # "save"
  PROVE  Save(r)
<1>1. PICK q \in Requests : Save(q)
  <2>1. ~UNCHANGED vars
    BY DEF vars
  <2> QED BY <2>1 DEF Next, ReceivePolicy, ReceiveJev, ReceiveUpstream, Refuse, Send, Handle,
             CheckJev, CacheSaved, Refresh, ReadOk, CacheRead, ReadFail, RefreshEnd, Restart
<1>2. q # r => handler'[r] = handler[r]
  BY <1>1 DEF Save, End, Typed, HandlersTyped
<1> QED BY <1>1, <1>2

LEMMA StepPatches ==
  ASSUME Typed, [Next]_vars
  PROVE  PatchKeeps
<1> SUFFICES ASSUME NEW r \in Requests, handler[r].pc = "save", handler'[r].pc # "save",
                    row' # row, KindOf(r) = "policy",
                    NEW f \in Fields \ DOMAIN handler[r].update.fields
             PROVE  \/ row'["policy"].val[f] = row["policy"].val[f]
                    \/ f = "enabled" /\ row'["policy"].val.scenes = 0
  BY DEF PatchKeeps
<1>1. Save(r)
  BY SaveMovesOne
<1>2. handler[r].update \in Updates /\ handler[r].update.kind = "policy"
  BY DEF Typed, HandlersTyped, HandlerOK, KindOf
<1>3. row["policy"].val \in SavedPolicy /\ row \in Versioned
  BY VersionedAt DEF Typed, StoreTyped, KindNames, Values
<1> DEFINE new == Apply(handler[r].update, row["policy"].val)
<1>4. new[f] = row["policy"].val[f] \/ (f = "enabled" /\ new.scenes = 0)
  BY <1>2, <1>3, ApplyTyped
<1>5. row' = [row EXCEPT !["policy"] = [ver |-> row["policy"].ver + 1, val |-> new]]
  BY <1>1 DEF Save, NewValue, KindOf
<1> HIDE DEF new
<1>6. row'["policy"].val = new
  BY <1>3, <1>5 DEF Versioned
<1> QED BY <1>4, <1>6

\* A save through a patch keeps, as the last save left it, every field the patch does
\* not name (the merge under the row's lock in PG.UpdatePolicy).
THEOREM PatchKeepsTheRest == Spec => PatchKeepsOthers
<1>1. Typed /\ ServedInv /\ [Next]_vars => [PatchKeeps]_vars
  BY StepPatches
<1>2. [PatchKeeps]_vars => [\A r \in Requests :
       /\ handler[r].pc = "save"
       /\ handler'[r].pc # "save"
       /\ row' # row
       /\ KindOf(r) = "policy"
       => \A f \in Fields \ DOMAIN handler[r].update.fields :
            \/ row'["policy"].val[f] = row["policy"].val[f]
            \/ f = "enabled" /\ row'["policy"].val.scenes = 0]_vars
  BY DEF PatchKeeps
<1> QED BY <1>1, <1>2, Invariant, PTL DEF Spec, PatchKeepsOthers

=============================================================================
