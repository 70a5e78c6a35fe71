------------------------ MODULE CacheSettingsProofs ------------------------
(***************************************************************************)
(* A theorem about CacheSettings, for any number of gateways, saves and    *)
(* faults.                                                                 *)
(*                                                                         *)
(* A synchronization sets what the row was when it was read.  That is not  *)
(* older than what its gateway uses, because the gateway's own saves are   *)
(* kept out by the mutex from the read of the row on, and nobody else      *)
(* changes what the gateway uses.  Each save is committed once, so that    *)
(* the place of a value in the history of the row is its age.              *)
(***************************************************************************)
EXTENDS CacheSettings, TLAPS

Settled == {commits[i] : i \in 1..Len(commits)}

\* What the row has been: each value once, and no save's before its commit.
RowInv ==
  /\ commits \in Seq(Saves \cup {Initial}) /\ Len(commits) > 0
  /\ \A i, j \in 1..Len(commits) : commits[i] = commits[j] => i = j
  /\ \A s \in Saves : save[s].pc \in {"unsent", "row", "max", "policy", "update"} =>
       s \notin Settled

\* A gateway uses what the row has been, and what it is about to use is no older.
UseInv ==
  \A n \in Gateways :
    /\ config[n] \in Settled
    /\ sync[n].pc = "store" =>
         sync[n].val \in Settled /\ Position(config[n]) <= Position(sync[n].val)

\* The mutex of a gateway keeps its saves out of its synchronization.
MutexInv ==
  \A n \in Gateways, s \in Saves : Syncing(n) /\ save[s].node = n => ~Saving(s)

Shape ==
  /\ DOMAIN config = Gateways /\ DOMAIN sync = Gateways /\ DOMAIN save = Saves
  /\ \A n \in Gateways : DOMAIN sync[n] = {"pc", "val", "ok"}
  /\ \A s \in Saves : DOMAIN save[s] = {"pc", "node", "old", "locked"}

SettingsInv == Shape /\ RowInv /\ UseInv /\ MutexInv

Distinct == Initial \notin Saves

Once(c) == \A i, j \in 1..Len(c) : c[i] = c[j] => i = j

Place(c, v) == CHOOSE i \in 1..Len(c) : c[i] = v

\* Of values used once the position is the place.
LEMMA PlaceIs ==
  ASSUME NEW c, Once(c), NEW i \in 1..Len(c)
  PROVE  Place(c, c[i]) = i
<1>1. \E k \in 1..Len(c) : c[k] = c[i]
  OBVIOUS
<1>2. Place(c, c[i]) \in 1..Len(c) /\ c[Place(c, c[i])] = c[i]
  BY <1>1 DEF Place
<1> QED BY <1>2 DEF Once

LEMMA PositionIs ==
  ASSUME RowInv
  PROVE  /\ Len(commits) \in Nat
         /\ \A i \in 1..Len(commits) : Position(commits[i]) = i
         /\ \A v \in Settled : Position(v) \in 1..Len(commits) /\ commits[Position(v)] = v
<1>1. \A i \in 1..Len(commits) : Position(commits[i]) = i
  BY PlaceIs DEF Position, Place, RowInv, Once
<1> QED BY <1>1 DEF Settled, RowInv

LEMMA AppendIs ==
  ASSUME NEW T, NEW c \in Seq(T), NEW x \in T
  PROVE  /\ Append(c, x) \in Seq(T) /\ Len(c) \in Nat
         /\ Len(Append(c, x)) = Len(c) + 1 /\ Len(Append(c, x)) > 0
OBVIOUS

LEMMA InRange ==
  ASSUME NEW k \in Nat, NEW i \in 1..k
  PROVE  i \in Nat /\ i <= k + 1 /\ i <= i
OBVIOUS

\* A commit is the newest there is and leaves the others where they are.
LEMMA CommitIs ==
  ASSUME RowInv, NEW s \in Saves, s \notin Settled, commits' = Append(commits, s)
  PROVE  /\ Settled' = Settled \cup {s}
         /\ \A v \in Settled : Place(commits', v) = Position(v)
         /\ Place(commits', s) = Len(commits) + 1
         /\ \A v \in Settled : Position(v) \in 1..Len(commits)
         /\ Once(commits') /\ Len(commits) \in Nat
<1>1. /\ Len(commits') = Len(commits) + 1 /\ Len(commits) \in Nat
      /\ \A i \in 1..Len(commits) : commits'[i] = commits[i]
      /\ commits'[Len(commits) + 1] = s
  BY DEF RowInv
<1>2. Settled' = Settled \cup {s}
  <2>1. ASSUME NEW v \in Settled' PROVE v \in Settled \cup {s}
    BY <1>1, <2>1 DEF Settled
  <2>2. ASSUME NEW v \in Settled PROVE v \in Settled'
    <3>1. PICK i \in 1..Len(commits) : commits[i] = v
      BY <2>2 DEF Settled
    <3> QED BY <1>1, <3>1 DEF Settled
  <2>3. s \in Settled'
    BY <1>1 DEF Settled
  <2> QED BY <2>1, <2>2, <2>3
<1>3. Once(commits')
  <2> SUFFICES ASSUME NEW i \in 1..Len(commits'), NEW j \in 1..Len(commits'),
                      commits'[i] = commits'[j]
               PROVE  i = j
    BY DEF Once
  <2>1. \A k \in 1..Len(commits) : commits[k] # s
    BY DEF Settled
  <2> QED BY <1>1, <2>1 DEF RowInv
<1>5. \A v \in Settled : Place(commits', v) = Position(v)
  <2> TAKE v \in Settled
  <2>1. PICK i \in 1..Len(commits) : v = commits[i]
    BY DEF Settled
  <2>2. i \in 1..Len(commits') /\ v = commits'[i]
    BY <1>1, <2>1
  <2>3. Place(commits', v) = i
    BY <1>3, <2>2, PlaceIs
  <2> QED BY <2>1, <2>3, PositionIs
<1>6. Place(commits', s) = Len(commits) + 1
  <2>1. Len(commits) + 1 \in 1..Len(commits')
    BY <1>1
  <2> QED BY <1>1, <1>3, <2>1, PlaceIs
<1> QED BY <1>1, <1>2, <1>3, <1>5, <1>6, PositionIs

-----------------------------------------------------------------------------

LEMMA StartsSettled == Distinct /\ Init => SettingsInv
<1> SUFFICES ASSUME Distinct, Init PROVE SettingsInv
  OBVIOUS
<1>1. Settled = {Initial} /\ Len(commits) = 1 /\ commits \in Seq(Saves \cup {Initial})
  BY DEF Init, Settled
<1>2. RowInv
  BY <1>1 DEF RowInv, Distinct, Init
<1>3. Shape /\ UseInv /\ MutexInv
  BY <1>1 DEF Shape, UseInv, MutexInv, Init, Resting, Unsent, Syncing
<1> QED BY <1>2, <1>3 DEF SettingsInv

Advance == \A n \in Gateways : Position(config[n]) <= Position(config[n])'

\* A step that leaves the row and the settings in use alone.
LEMMA LeavesSettings ==
  ASSUME SettingsInv, UNCHANGED <<commits, config>>,
         \A n \in Gateways : sync'[n].pc = "store" => sync'[n] = sync[n],
         \A s \in Saves : save'[s].pc \in {"unsent", "row", "max", "policy", "update"} =>
           save[s].pc \in {"unsent", "row", "max", "policy", "update"},
         Shape', MutexInv'
  PROVE  SettingsInv' /\ Advance
<1>1. /\ Settled' = Settled /\ \A v : Position(v)' = Position(v)
      /\ \A n \in Gateways : Position(config[n])' = Position(config[n])
  BY DEF Settled, Position
<1>2. RowInv'
  BY <1>1 DEF SettingsInv, RowInv
<1>3. UseInv'
  <2> SUFFICES ASSUME NEW n \in Gateways
               PROVE  /\ config'[n] \in Settled'
                      /\ sync'[n].pc = "store" =>
                           /\ sync'[n].val \in Settled'
                           /\ Position(config[n])' <= Position(sync[n].val)'
    BY DEF UseInv
  <2>1. config[n] \in Settled /\ config'[n] = config[n]
    BY DEF SettingsInv, UseInv
  <2>2. ASSUME sync'[n].pc = "store"
        PROVE  sync[n].val \in Settled /\ sync'[n].val = sync[n].val
               /\ Position(config[n]) <= Position(sync[n].val)
    BY <2>2 DEF SettingsInv, UseInv
  <2>3. sync'[n].val = sync[n].val => Position(sync[n].val)' = Position(sync[n].val)
    BY DEF Position
  <2> QED BY <1>1, <2>1, <2>2, <2>3
<1>4. Advance
  <2>1. \A n \in Gateways : Position(config[n]) \in Nat
    BY PositionIs DEF SettingsInv, UseInv
  <2> QED BY <1>1, <2>1 DEF Advance
<1> QED BY <1>2, <1>3, <1>4 DEF SettingsInv

LEMMA MutexKeeps ==
  ASSUME MutexInv,
         \A n \in Gateways : Syncing(n)' => Syncing(n),
         \A s \in Saves : Saving(s)' => Saving(s) /\ save'[s].node = save[s].node
  PROVE  MutexInv'
BY DEF MutexInv

\* A step of one gateway's synchronization.
LEMMA SyncMoves ==
  ASSUME Shape, NEW n \in Gateways, NEW p, NEW v, NEW k, UNCHANGED <<config, save>>,
         \/ sync' = [sync EXCEPT ![n] = [pc |-> p, val |-> v, ok |-> k]]
         \/ sync' = [sync EXCEPT ![n].pc = p] /\ v = sync[n].val
  PROVE  /\ Shape' /\ sync'[n].pc = p /\ sync'[n].val = v
         /\ \A m \in Gateways : m # n => sync'[m] = sync[m]
         /\ \A s \in Saves : Saving(s)' <=> Saving(s) /\ save'[s] = save[s]
         /\ \A m \in Gateways : Syncing(m)' <=>
               IF m = n THEN p \in {"load", "store", "max", "policy"} ELSE Syncing(m)
<1>1. DOMAIN sync = Gateways /\ DOMAIN sync[n] = {"pc", "val", "ok"}
  BY DEF Shape
<1>2. /\ DOMAIN sync' = Gateways /\ DOMAIN sync'[n] = {"pc", "val", "ok"}
      /\ sync'[n].pc = p /\ sync'[n].val = v
      /\ \A m \in Gateways : m # n => sync'[m] = sync[m]
  BY <1>1
<1>3. Shape'
  BY <1>2 DEF Shape
<1> QED BY <1>2, <1>3 DEF Saving, Syncing

\* One save moves to p, in the gateway g.
Moves(s, p, g) ==
  /\ DOMAIN save' = Saves /\ DOMAIN save'[s] = {"pc", "node", "old", "locked"}
  /\ save'[s].pc = p /\ save'[s].node = g
  /\ \A z \in Saves : z # s => save'[z] = save[z]

LEMMA MovesIs ==
  ASSUME Shape, NEW s \in Saves, NEW p, NEW o
  PROVE  /\ \A g, k : save' = [save EXCEPT ![s] = [pc |-> p, node |-> g, old |-> o, locked |-> k]] =>
                  Moves(s, p, g)
         /\ save' = [save EXCEPT ![s].pc = p] => Moves(s, p, save[s].node)
         /\ \A k : save' = [save EXCEPT ![s].pc = p, ![s].old = o, ![s].locked = k] =>
                  Moves(s, p, save[s].node)
         /\ \A k : save' = [save EXCEPT ![s].pc = p, ![s].locked = k] =>
                  Moves(s, p, save[s].node)
BY DEF Shape, Moves

LEMMA SaveMoves ==
  ASSUME Shape, NEW s \in Saves, NEW p, NEW g, Moves(s, p, g),
         DOMAIN config' = DOMAIN config, UNCHANGED sync
  PROVE  /\ Shape' /\ save'[s].pc = p /\ save'[s].node = g
         /\ \A z \in Saves : z # s => save'[z] = save[z]
         /\ \A m \in Gateways : Syncing(m)' <=> Syncing(m)
         /\ \A z \in Saves : Saving(z)' <=>
               IF z = s THEN p \in {"row", "max", "policy", "update", "back max", "back policy"}
               ELSE Saving(z)
BY DEF Shape, Saving, Syncing, Moves

LEMMA SyncKeeps ==
  ASSUME SettingsInv, NEW n \in Gateways, Sync(n)
  PROVE  SettingsInv' /\ Advance
<1> USE DEF SettingsInv
<1>1. CASE SyncBegin(n)
  <2>1. sync[n].pc = "idle" /\ Unlocked(n) /\ sync' = [sync EXCEPT ![n].pc = "load"]
        /\ UNCHANGED <<commits, config, save>>
    BY <1>1 DEF SyncBegin, SyncTo
  <2>2. /\ Shape' /\ sync'[n].pc = "load"
        /\ \A m \in Gateways : m # n => sync'[m] = sync[m]
        /\ \A s \in Saves : Saving(s)' <=> Saving(s) /\ save'[s] = save[s]
        /\ \A m \in Gateways : m # n => Syncing(m)' <=> Syncing(m)
    BY <2>1, SyncMoves
  <2>3. MutexInv'
    BY <2>1, <2>2 DEF MutexInv, Unlocked
  <2> QED BY <2>1, <2>2, <2>3, LeavesSettings
<1>2. CASE SyncLoad(n)
  <2>1. sync[n].pc = "load" /\ UNCHANGED <<commits, config, save>>
    BY <1>2 DEF SyncLoad
  <2>2. CASE sync' = [sync EXCEPT ![n] = [pc |-> "unlocked", val |-> Unset, ok |-> FALSE]]
    <3>1. /\ Shape' /\ sync'[n].pc = "unlocked"
          /\ \A m \in Gateways : m # n => sync'[m] = sync[m]
          /\ \A s \in Saves : Saving(s)' <=> Saving(s) /\ save'[s] = save[s]
          /\ \A m \in Gateways : Syncing(m)' => Syncing(m)
      BY <2>1, <2>2, SyncMoves
    <3>2. MutexInv'
      BY <3>1, MutexKeeps
    <3> QED BY <2>1, <3>1, <3>2, LeavesSettings
  <2>3. CASE sync' = [sync EXCEPT ![n] = [pc |-> "store", val |-> row, ok |-> TRUE]]
    <3>1. /\ Shape' /\ sync'[n].pc = "store" /\ sync'[n].val = row
          /\ \A m \in Gateways : m # n => sync'[m] = sync[m]
          /\ \A s \in Saves : Saving(s)' <=> Saving(s) /\ save'[s] = save[s]
          /\ \A m \in Gateways : Syncing(m)' => Syncing(m)
      BY <2>1, <2>3, SyncMoves DEF Syncing
    <3>2. MutexInv'
      BY <3>1, MutexKeeps
    <3>3. Settled' = Settled /\ \A v : Position(v)' = Position(v)
      BY <2>1 DEF Settled, Position
    <3>4. RowInv' /\ Advance
      <4>1. \A m \in Gateways : Position(config[m]) \in Nat
                                /\ Position(config[m])' = Position(config[m])
        BY <2>1, PositionIs DEF UseInv, Position
      <4> QED BY <2>1, <3>1, <3>3, <4>1 DEF RowInv, Advance
    <3>5. row \in Settled /\ \A v \in Settled : Position(v) <= Position(row)
      <4>1. Len(commits) \in 1..Len(commits)
        BY DEF RowInv
      <4>2. row = commits[Len(commits)]
        BY DEF row
      <4>3. row \in Settled /\ Position(row) = Len(commits)
        BY <4>1, <4>2, PositionIs DEF Settled
      <4> QED BY <4>3, PositionIs
    <3>6. UseInv'
      <4> SUFFICES ASSUME NEW m \in Gateways
                   PROVE  /\ config'[m] \in Settled'
                          /\ sync'[m].pc = "store" =>
                               /\ sync'[m].val \in Settled'
                               /\ Position(config[m])' <= Position(sync[m].val)'
        BY DEF UseInv
      <4>1. config[m] \in Settled /\ config'[m] = config[m]
        BY <2>1 DEF UseInv
      <4>2. /\ Position(config[m])' = Position(config[m])
            /\ \A v : sync'[m].val = v => Position(sync[m].val)' = Position(v)
        BY <2>1 DEF Position
      <4>3. CASE m = n
        BY <3>1, <3>3, <3>5, <4>1, <4>2, <4>3
      <4>4. CASE m # n
        <5>1. sync'[m] = sync[m]
          BY <3>1, <4>4
        <5> QED BY <3>3, <4>1, <4>2, <5>1 DEF UseInv
      <4> QED BY <4>3, <4>4
    <3> QED BY <3>1, <3>2, <3>4, <3>6
  <2> QED BY <1>2, <2>2, <2>3 DEF SyncLoad
<1>3. CASE SyncStore(n)
  <2>1. /\ sync[n].pc = "store" /\ config' = [config EXCEPT ![n] = sync[n].val]
        /\ sync' = [sync EXCEPT ![n].pc = "max"] /\ UNCHANGED <<commits, save>>
    BY <1>3 DEF SyncStore, SyncTo
  <2>2. /\ Shape' /\ sync'[n].pc = "max" /\ config'[n] = sync[n].val
        /\ \A m \in Gateways : m # n => sync'[m] = sync[m] /\ config'[m] = config[m]
        /\ \A s \in Saves : Saving(s)' <=> Saving(s) /\ save'[s] = save[s]
        /\ \A m \in Gateways : Syncing(m)' => Syncing(m)
    BY <2>1 DEF Shape, Saving, Syncing
  <2>3. MutexInv'
    BY <2>2, MutexKeeps
  <2>4. Settled' = Settled /\ \A v : Position(v)' = Position(v)
    BY <2>1 DEF Settled, Position
  <2>5. RowInv'
    BY <2>1, <2>2, <2>4 DEF RowInv
  <2>6. ASSUME NEW m \in Gateways
        PROVE  /\ config'[m] \in Settled /\ Position(config[m]) <= Position(config[m])'
               /\ sync'[m].pc = "store" =>
                    /\ sync'[m].val \in Settled
                    /\ Position(config[m])' <= Position(sync[m].val)'
    <3>1. /\ \A v : config'[m] = v => Position(config[m])' = Position(v)
          /\ \A v : sync'[m].val = v => Position(sync[m].val)' = Position(v)
      BY <2>1 DEF Position
    <3>2. CASE m = n
      BY <2>1, <2>2, <3>1, <3>2 DEF UseInv
    <3>3. CASE m # n
      <4>1. sync'[m] = sync[m] /\ config'[m] = config[m] /\ config[m] \in Settled
        BY <2>2, <3>3 DEF UseInv
      <4>2. Position(config[m])' = Position(config[m]) /\ Position(config[m]) \in Nat
        BY <3>1, <4>1, PositionIs
      <4> QED BY <3>1, <4>1, <4>2 DEF UseInv
    <3> QED BY <3>2, <3>3
  <2>7. UseInv' /\ Advance
    BY <2>4, <2>6 DEF UseInv, Advance
  <2> QED BY <2>2, <2>3, <2>5, <2>7
<1>4. CASE SyncMax(n) \/ SyncPolicy(n) \/ SyncEnd(n)
  <2>1. \E p \in {"policy", "unlocked", "idle"} : \E v, k :
          /\ \/ sync' = [sync EXCEPT ![n] = [pc |-> p, val |-> v, ok |-> k]]
             \/ sync' = [sync EXCEPT ![n].pc = p] /\ v = sync[n].val
          /\ p = "policy" => Syncing(n)
          /\ UNCHANGED <<commits, config, save>>
    <3>1. CASE SyncMax(n)
      BY <3>1 DEF SyncMax, SyncTo, Syncing
    <3>2. CASE SyncPolicy(n)
      BY <3>2 DEF SyncPolicy
    <3>3. CASE SyncEnd(n)
      BY <3>3 DEF SyncEnd, Resting
    <3> QED BY <1>4, <3>1, <3>2, <3>3
  <2>2. PICK p \in {"policy", "unlocked", "idle"} : \E v, k :
          /\ \/ sync' = [sync EXCEPT ![n] = [pc |-> p, val |-> v, ok |-> k]]
             \/ sync' = [sync EXCEPT ![n].pc = p] /\ v = sync[n].val
          /\ p = "policy" => Syncing(n)
          /\ UNCHANGED <<commits, config, save>>
    BY <2>1
  <2>3. /\ Shape' /\ sync'[n].pc = p
        /\ \A m \in Gateways : m # n => sync'[m] = sync[m]
        /\ \A s \in Saves : Saving(s)' <=> Saving(s) /\ save'[s] = save[s]
        /\ \A m \in Gateways : Syncing(m)' => Syncing(m)
    BY <2>2, SyncMoves
  <2>4. MutexInv'
    BY <2>3, MutexKeeps
  <2> QED BY <2>2, <2>3, <2>4, LeavesSettings
<1> QED BY <1>1, <1>2, <1>3, <1>4 DEF Sync

LEMMA ConfigureKeeps ==
  ASSUME SettingsInv, NEW s \in Saves, Configure(s)
  PROVE  SettingsInv' /\ Advance
<1> USE DEF SettingsInv
<1>1. ASSUME NEW g \in Gateways, SaveBegin(s, g) PROVE SettingsInv' /\ Advance
  <2>1. /\ save[s].pc = "unsent" /\ Unlocked(g) /\ UNCHANGED <<commits, config, sync>>
        /\ save' = [save EXCEPT ![s] = [pc |-> "row", node |-> g, old |-> Unset, locked |-> FALSE]]
    BY <1>1 DEF SaveBegin
  <2>2. /\ Shape' /\ save'[s].pc = "row" /\ save'[s].node = g
        /\ \A z \in Saves : z # s => save'[z] = save[z] /\ (Saving(z)' <=> Saving(z))
        /\ \A m \in Gateways : Syncing(m)' <=> Syncing(m)
    <3>1. Moves(s, "row", g)
      BY <2>1, MovesIs
    <3> QED BY <2>1, <3>1, SaveMoves
  <2>3. MutexInv'
    BY <2>1, <2>2 DEF MutexInv, Unlocked
  <2> QED BY <2>1, <2>2, <2>3, LeavesSettings
<1>2. CASE SaveRow(s) \/ SaveMax(s) \/ SavePolicy(s) \/ BackMax(s) \/ BackPolicy(s)
  <2> DEFINE Early == {"unsent", "row", "max", "policy", "update"}
  <2>1. PICK p \in {"max", "policy", "update", "back policy", "refused"} :
          /\ Moves(s, p, save[s].node) /\ UNCHANGED <<commits, config, sync>>
          /\ Saving(s) /\ (p \in Early => save[s].pc \in Early)
    <3>1. CASE SaveRow(s)
      <4>1. PICK q \in {"max", "refused"} : \E o, k :
              /\ save[s].pc = "row" /\ UNCHANGED <<commits, config, sync>>
              /\ save' = [save EXCEPT ![s].pc = q, ![s].old = o, ![s].locked = k]
        BY <3>1 DEF SaveRow
      <4>2. Moves(s, q, save[s].node)
        BY <4>1, MovesIs
      <4> QED BY <4>1, <4>2 DEF Saving
    <3>2. CASE SaveMax(s)
      BY <3>2, MovesIs DEF SaveMax, SaveTo, Saving
    <3>3. CASE SavePolicy(s)
      BY <3>3, MovesIs DEF SavePolicy, SaveTo, Saving
    <3>4. CASE BackMax(s)
      BY <3>4, MovesIs DEF BackMax, SaveTo, Saving
    <3>5. CASE BackPolicy(s)
      BY <3>5, MovesIs DEF BackPolicy, SaveTo, Saving
    <3> QED BY <1>2, <3>1, <3>2, <3>3, <3>4, <3>5
  <2>2. /\ Shape' /\ save'[s].pc = p /\ save'[s].node = save[s].node
        /\ \A z \in Saves : z # s => save'[z] = save[z] /\ (Saving(z)' <=> Saving(z))
        /\ \A m \in Gateways : Syncing(m)' <=> Syncing(m)
    BY <2>1, SaveMoves
  <2>3. MutexInv'
    BY <2>1, <2>2, MutexKeeps
  <2> QED BY <2>1, <2>2, <2>3, LeavesSettings
<1>3. CASE SaveUpdate(s)
  <2> DEFINE g == save[s].node
  <2>1. save[s].pc = "update" /\ UNCHANGED sync
    BY <1>3 DEF SaveUpdate
  <2>2. PICK p \in {"saved", "back max"} :
          /\ Moves(s, p, g)
          /\ \/ UNCHANGED <<commits, config>>
             \/ commits' = Append(commits, s) /\ UNCHANGED config
             \/ commits' = Append(commits, s) /\ config' = [config EXCEPT ![g] = s]
    BY <1>3, MovesIs DEF SaveUpdate
  <2>3. /\ Shape' /\ save'[s].pc = p /\ save'[s].node = g
        /\ \A z \in Saves : z # s => save'[z] = save[z] /\ (Saving(z)' <=> Saving(z))
        /\ \A m \in Gateways : Syncing(m)' <=> Syncing(m)
    <3>1. DOMAIN config' = DOMAIN config
      BY <2>2
    <3> QED BY <2>1, <2>2, <3>1, SaveMoves
  <2>4. MutexInv'
    BY <2>1, <2>3, MutexKeeps DEF Saving
  <2>5. CASE UNCHANGED <<commits, config>>
    BY <2>1, <2>2, <2>3, <2>4, <2>5, LeavesSettings
  <2>6. CASE commits' = Append(commits, s) /\ (UNCHANGED config \/ config' = [config EXCEPT ![g] = s])
    <3>1. s \notin Settled
      BY <2>1 DEF RowInv
    <3>2. /\ Settled' = Settled \cup {s}
          /\ \A v \in Settled : Place(commits', v) = Position(v)
          /\ Place(commits', s) = Len(commits) + 1
          /\ \A v \in Settled : Position(v) \in 1..Len(commits)
          /\ Once(commits') /\ Len(commits) \in Nat
      BY <2>6, <3>1, CommitIs
    <3>3. RowInv'
      <4>1. commits' \in Seq(Saves \cup {Initial}) /\ Len(commits') > 0
        <5>1. s \in Saves \cup {Initial} /\ commits \in Seq(Saves \cup {Initial})
          BY DEF RowInv
        <5>2. /\ Append(commits, s) \in Seq(Saves \cup {Initial})
              /\ Len(Append(commits, s)) > 0
          BY <5>1, AppendIs, Zenon
        <5>3. commits' = Append(commits, s)
          BY <2>6
        <5> QED BY <5>2, <5>3, Zenon
      <4>2. ASSUME NEW z \in Saves,
                   save'[z].pc \in {"unsent", "row", "max", "policy", "update"}
            PROVE  z \notin Settled'
        BY <2>2, <2>3, <3>2, <4>2 DEF RowInv
      <4> QED BY <3>2, <4>1, <4>2 DEF RowInv, Once
    <3>4. ASSUME NEW m \in Gateways
          PROVE  /\ config'[m] \in Settled' /\ Position(config[m]) <= Position(config[m])'
                 /\ sync'[m].pc = "store" =>
                      /\ sync'[m].val \in Settled'
                      /\ Position(config[m])' <= Position(sync[m].val)'
      <4>1. /\ Position(config[m])' = Place(commits', config'[m])
            /\ Position(sync[m].val)' = Place(commits', sync'[m].val)
        BY DEF Position, Place
      <4>2. config[m] \in Settled /\ sync'[m] = sync[m]
        BY <2>1 DEF UseInv
      <4>3. CASE config'[m] = config[m]
        <5>1. Position(config[m])' = Position(config[m])
          BY <3>2, <4>1, <4>2, <4>3, Zenon
        <5>2. Position(config[m]) <= Position(config[m])
          BY <3>2, <4>2, InRange, Zenon
        <5>3. sync[m].val \in Settled => Position(sync[m].val)' = Position(sync[m].val)
          BY <3>2, <4>1, <4>2, Zenon
        <5>4. sync[m].pc = "store" =>
                sync[m].val \in Settled /\ Position(config[m]) <= Position(sync[m].val)
          BY DEF UseInv
        <5>5. Settled \subseteq Settled'
          BY <3>2
        <5> QED BY <4>2, <4>3, <5>1, <5>2, <5>3, <5>4, <5>5, Zenon
      <4>4. CASE config'[m] = s /\ m = g
        <5>1. ~Syncing(m)
          BY <2>1, <4>4 DEF MutexInv, Saving
        <5>2. sync'[m].pc # "store"
          BY <4>2, <5>1 DEF Syncing
        <5>3. Position(config[m])' = Len(commits) + 1
          BY <3>2, <4>1, <4>4, Zenon
        <5>4. Position(config[m]) <= Len(commits) + 1
          BY <3>2, <4>2, InRange, Zenon
        <5>5. config'[m] \in Settled'
          BY <3>2, <4>4
        <5> QED BY <5>2, <5>3, <5>4, <5>5, Zenon
      <4> QED BY <2>6, <4>3, <4>4 DEF SettingsInv, Shape
    <3>5. UseInv' /\ Advance
      BY <3>4 DEF UseInv, Advance
    <3> QED BY <2>3, <2>4, <3>3, <3>5
  <2> QED BY <2>2, <2>5, <2>6
<1> QED BY <1>1, <1>2, <1>3 DEF Configure

\* SettingsAdvance is true of every step: no gateway goes back to settings older than
\* those it has used or saved, for any number of gateways, saves and faults; the
\* initial settings are no save's (Configure and the synchronization under mu).
THEOREM SettingsOnlyAdvance == Initial \notin Saves => (Spec => SettingsAdvance)
<1> SUFFICES ASSUME Distinct PROVE Spec => SettingsAdvance
  BY DEF Distinct
<1>1. Init => SettingsInv
  BY StartsSettled
<1>2. SettingsInv /\ [Next]_cacheVars => SettingsInv' /\ (cacheVars' # cacheVars => Advance)
  <2> SUFFICES ASSUME SettingsInv, [Next]_cacheVars
               PROVE  SettingsInv' /\ (cacheVars' # cacheVars => Advance)
    OBVIOUS
  <2>1. CASE UNCHANGED cacheVars
    <3>1. UNCHANGED <<commits, config, sync, save>>
      BY <2>1 DEF cacheVars
    <3>2. Shape' /\ MutexInv'
      BY <3>1 DEF SettingsInv, Shape, MutexInv, Syncing, Saving
    <3> QED BY <2>1, <3>1, <3>2, LeavesSettings
  <2>2. CASE RedisRestart
    <3>1. UNCHANGED <<commits, config, sync, save>>
      BY <2>2 DEF RedisRestart
    <3>2. Shape' /\ MutexInv'
      BY <3>1 DEF SettingsInv, Shape, MutexInv, Syncing, Saving
    <3> QED BY <3>1, <3>2, LeavesSettings
  <2> QED BY <2>1, <2>2, SyncKeeps, ConfigureKeeps DEF Next
<1>3. SettingsInv /\ [Next]_cacheVars =>
        [\A n \in Gateways : Position(config[n]) <= Position(config[n])']_cacheVars
  BY <1>2 DEF Advance
<1> QED BY <1>1, <1>2, <1>3, PTL DEF Spec, SettingsAdvance

=============================================================================
