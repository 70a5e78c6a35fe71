---------------------------- MODULE CacheSettings ----------------------------
(***************************************************************************)
(* The settings of the review cache: a row of PostgreSQL says how large    *)
(* the cache's Redis may be, every gateway puts what it reads into that    *)
(* Redis every five seconds, and an administrator's save puts its own into *)
(* it before it is committed.  A gateway's mutex keeps its own save and    *)
(* its own synchronization apart; nothing but time keeps gateways apart.   *)
(***************************************************************************)
EXTENDS Integers, Sequences

CONSTANTS
  Gateways,
  Saves,     \* saves that will be made, each with settings of its own
  Failures   \* calls that will fail and restarts of the cache: the bound on faults

\* The settings saved before, and the capacity a restarted Redis has.
Initial == "initial"

Unset == "unset"

\* How a call to Redis or PostgreSQL ends: a failed one may have been executed.
Ends == {"ok", "failed", "lost"}

VARIABLES
  commits,   \* what the row has been, the last is what it is
  redis,     \* maxmemory of the cache, and whether it evicts by allkeys-lru
  config,    \* of each gateway: the settings it uses
  ready,     \* of each gateway: it uses the cache
  sync,      \* of each gateway: the pass of its synchronization
  save,      \* each save
  failures   \* faults so far

cacheVars == <<commits, redis, config, ready, sync, save, failures>>

row == commits[Len(commits)]

Resting == [pc |-> "idle", val |-> Unset, ok |-> TRUE]

Unsent == [pc |-> "unsent", node |-> Unset, old |-> Unset, locked |-> FALSE]

\* OpenReviewCache has loaded the row and applied it, or could not apply it.
Init ==
  /\ commits = <<Initial>>
  /\ redis \in {[max |-> Initial, lru |-> TRUE], [max |-> Unset, lru |-> FALSE]}
  /\ config = [n \in Gateways |-> Initial]
  /\ ready = [n \in Gateways |-> redis.lru]
  /\ sync = [n \in Gateways |-> Resting]
  /\ save = [s \in Saves |-> Unsent]
  /\ failures = 0

\* The faults are counted.
Fault(end) ==
  IF end = "ok" THEN UNCHANGED failures
  ELSE failures < Failures /\ failures' = failures + 1

\* The mutex of a gateway, and the lock of the row, which goes with the transaction.
Syncing(n) == sync[n].pc \in {"load", "store", "max", "policy"}

Saving(s) == save[s].pc \in {"row", "max", "policy", "update", "back max", "back policy"}

Unlocked(n) == ~Syncing(n) /\ \A s \in Saves : save[s].node = n => ~Saving(s)

RowFree == \A s \in Saves : ~(Saving(s) /\ save[s].locked)

-----------------------------------------------------------------------------
(***************************************************************************)
(* apply: two questions and two settings; ready says how the last one of   *)
(* the gateway ended.                                                      *)
(***************************************************************************)

SetMax(val, end) == redis' = IF end = "failed" THEN redis ELSE [redis EXCEPT !.max = val]

SetPolicy(end) == redis' = IF end = "failed" THEN redis ELSE [redis EXCEPT !.lru = TRUE]

Ready(n, done) == ready' = [ready EXCEPT ![n] = done]

-----------------------------------------------------------------------------
(***************************************************************************)
(* The synchronization of a gateway.                                       *)
(***************************************************************************)

SyncTo(n, pc) == sync' = [sync EXCEPT ![n].pc = pc]

\* Variant: a pass does not take the mutex.
SyncBeginAtOnce(n) ==
  /\ sync[n].pc = "idle"
  /\ SyncTo(n, "load")
  /\ UNCHANGED <<commits, redis, config, ready, save, failures>>

SyncBegin(n) ==
  /\ sync[n].pc = "idle"
  /\ Unlocked(n)
  /\ SyncTo(n, "load")
  /\ UNCHANGED <<commits, redis, config, ready, save, failures>>

\* A failed query leaves the cache to itself.
SyncLoad(n) ==
  /\ sync[n].pc = "load"
  /\ \E end \in Ends :
       /\ Fault(end)
       /\ sync' = [sync EXCEPT ![n] = IF end = "ok"
                     THEN [pc |-> "store", val |-> row, ok |-> TRUE]
                     ELSE [pc |-> "unlocked", val |-> Unset, ok |-> FALSE]]
  /\ UNCHANGED <<commits, redis, config, ready, save>>

\* Variant: settings that have not changed are not applied again.
SyncStoreChanged(n) ==
  /\ sync[n].pc = "store"
  /\ config' = [config EXCEPT ![n] = sync[n].val]
  /\ SyncTo(n, IF sync[n].val = config[n] THEN "unlocked" ELSE "max")
  /\ UNCHANGED <<commits, redis, ready, save, failures>>

SyncStore(n) ==
  /\ sync[n].pc = "store"
  /\ config' = [config EXCEPT ![n] = sync[n].val]
  /\ SyncTo(n, "max")
  /\ UNCHANGED <<commits, redis, ready, save, failures>>

SyncMax(n) ==
  /\ sync[n].pc = "max"
  /\ \E end \in Ends :
       /\ Fault(end)
       /\ SetMax(sync[n].val, end)
       /\ IF end = "ok" THEN SyncTo(n, "policy") /\ UNCHANGED ready
          ELSE /\ sync' = [sync EXCEPT ![n] = [pc |-> "unlocked", val |-> Unset, ok |-> FALSE]]
               /\ Ready(n, FALSE)
  /\ UNCHANGED <<commits, config, save>>

SyncPolicy(n) ==
  /\ sync[n].pc = "policy"
  /\ \E end \in Ends :
       /\ Fault(end)
       /\ SetPolicy(end)
       /\ Ready(n, end = "ok")
       /\ sync' = [sync EXCEPT ![n] = [pc |-> "unlocked", val |-> Unset, ok |-> end = "ok"]]
  /\ UNCHANGED <<commits, config, save>>

\* After the mutex is free: what a save has said of the cache meanwhile is undone
\* by a pass that failed.
SyncEnd(n) ==
  /\ sync[n].pc = "unlocked"
  /\ sync' = [sync EXCEPT ![n] = Resting]
  /\ Ready(n, ready[n] /\ sync[n].ok)
  /\ UNCHANGED <<commits, redis, config, save, failures>>

-----------------------------------------------------------------------------
(***************************************************************************)
(* Configure: the mutex, the row's lock, the cache, the row.               *)
(***************************************************************************)

SaveTo(s, pc) == save' = [save EXCEPT ![s].pc = pc]

SaveBegin(s, n) ==
  /\ save[s].pc = "unsent"
  /\ Unlocked(n)
  /\ save' = [save EXCEPT ![s] = [pc |-> "row", node |-> n, old |-> Unset, locked |-> FALSE]]
  /\ UNCHANGED <<commits, redis, config, ready, sync, failures>>

SaveRow(s) ==
  /\ save[s].pc = "row"
  /\ RowFree
  /\ \E end \in Ends :
       /\ Fault(end)
       /\ save' = [save EXCEPT ![s].pc = IF end = "ok" THEN "max" ELSE "refused",
                               ![s].old = IF end = "ok" THEN row ELSE @,
                               ![s].locked = end = "ok"]
  /\ UNCHANGED <<commits, redis, config, ready, sync>>

\* A cache that does not take the settings refuses the save; half of them may stay.
SaveMax(s) ==
  /\ save[s].pc = "max"
  /\ \E end \in Ends :
       /\ Fault(end)
       /\ SetMax(s, end)
       /\ IF end = "ok" THEN SaveTo(s, "policy") /\ UNCHANGED ready
          ELSE SaveTo(s, "refused") /\ Ready(save[s].node, FALSE)
  /\ UNCHANGED <<commits, config, sync>>

SavePolicy(s) ==
  /\ save[s].pc = "policy"
  /\ \E end \in Ends :
       /\ Fault(end)
       /\ SetPolicy(end)
       /\ Ready(save[s].node, end = "ok")
       /\ SaveTo(s, IF end = "ok" THEN "update" ELSE "refused")
  /\ UNCHANGED <<commits, config, sync>>

\* A commit whose reply is lost is committed, and taken back from the cache.  A
\* commit ends the transaction; a failed UPDATE keeps the lock until the save returns.
SaveUpdate(s) ==
  /\ save[s].pc = "update"
  /\ \E end \in Ends, updated \in BOOLEAN :
       /\ updated \/ end = "failed"
       /\ Fault(end)
       /\ commits' = IF end = "failed" THEN commits ELSE Append(commits, s)
       /\ config' = IF end = "ok" THEN [config EXCEPT ![save[s].node] = s] ELSE config
       /\ save' = [save EXCEPT ![s].pc = IF end = "ok" THEN "saved" ELSE "back max",
                               ![s].locked = ~updated]
  /\ UNCHANGED <<redis, ready, sync>>

BackMax(s) ==
  /\ save[s].pc = "back max"
  /\ \E end \in Ends :
       /\ Fault(end)
       /\ SetMax(save[s].old, end)
       /\ IF end = "ok" THEN SaveTo(s, "back policy") /\ UNCHANGED ready
          ELSE SaveTo(s, "refused") /\ Ready(save[s].node, FALSE)
  /\ UNCHANGED <<commits, config, sync>>

BackPolicy(s) ==
  /\ save[s].pc = "back policy"
  /\ \E end \in Ends :
       /\ Fault(end)
       /\ SetPolicy(end)
       /\ Ready(save[s].node, end = "ok")
       /\ SaveTo(s, "refused")
  /\ UNCHANGED <<commits, config, sync>>

\* The cache's Redis starts anew with what its own configuration says.
RedisRestart ==
  /\ Fault("lost")
  /\ redis' = [max |-> Unset, lru |-> FALSE]
  /\ UNCHANGED <<commits, config, ready, sync, save>>

Sync(n) == SyncBegin(n) \/ SyncLoad(n) \/ SyncStore(n) \/ SyncMax(n) \/ SyncPolicy(n) \/ SyncEnd(n)

Configure(s) ==
  \/ \E n \in Gateways : SaveBegin(s, n)
  \/ SaveRow(s) \/ SaveMax(s) \/ SavePolicy(s) \/ SaveUpdate(s) \/ BackMax(s) \/ BackPolicy(s)

Next == RedisRestart \/ (\E n \in Gateways : Sync(n)) \/ (\E s \in Saves : Configure(s))

\* The ticker ticks and calls return; nobody has to save.
Fairness ==
  /\ \A n \in Gateways : WF_cacheVars(Sync(n))
  /\ \A s \in Saves : WF_cacheVars(Saving(s) /\ Configure(s))

Spec == Init /\ [][Next]_cacheVars /\ Fairness

-----------------------------------------------------------------------------
(***************************************************************************)
(* Properties.                                                             *)
(***************************************************************************)

Position(val) == CHOOSE i \in 1..Len(commits) : commits[i] = val

\* A gateway never goes back to settings older than those it has used or saved,
\* whatever it synchronizes meanwhile (Configure and the synchronization under mu).
SettingsAdvance ==
  [][\A n \in Gateways : Position(config[n]) <= Position(config[n])']_cacheVars

\* Once saves and faults end, the cache has the capacity of the row and evicts,
\* and every gateway uses it with the row's settings: also after a save that was
\* refused half way, a rollback that failed, a restart, and passes of several
\* gateways that had read the row before (OpenReviewCache, Configure).
CacheConverges ==
  <>[](/\ redis = [max |-> row, lru |-> TRUE]
       /\ \A n \in Gateways : config[n] = row /\ ready[n])

=============================================================================
