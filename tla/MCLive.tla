------------------------------- MODULE MCLive -------------------------------
(***************************************************************************)
(* What must happen in a gateway, or end: its telemetry and its Close, the *)
(* import of an earlier release's files, the settings of the review cache, *)
(* the calls to the classifier and the end of its process.  They share     *)
(* nothing, so each is run by itself under its own fairness.               *)
(***************************************************************************)
EXTENDS MCTelemetry

CONSTANTS
  Saves, Failures,
  e1, e2, m1, m2, Torn, Budget,
  Calls, Connections, Type, Asks, Bodies, RetryAfters, MaxRetries, InitialBackoff,
  MaxBackoff, Jitter, MaxRetryAfter, AttemptTimeout, CallTimeout, CloseGrace,
  ProcessFaults, s1, c1, q1

VARIABLES
  subject,
  commits, cache, config, ready, sync, save, failures,
  process, noticed, serving, owner, grace, client, call,
  file, table, replayed, minutes, seen, pass, faults

Settings == INSTANCE CacheSettings WITH Gateways <- {n1, n2}, redis <- cache

Classify == INSTANCE Classifier WITH cached <- client, Faults <- ProcessFaults

Import == INSTANCE SpoolImport WITH EventLines <- <<e1, e2>>, CountLines <- <<m1, m2>>

OneConnection == {[base |-> "b", key |-> "k", model |-> "m"]}

Catalogue == q1 :> "noul"

OneAsk == {{q1}}

OneBody == {q1 :> "noul"}

cacheState == <<commits, cache, config, ready, sync, save, failures>>

classifierState == <<process, noticed, serving, owner, grace, client, call>>

importState == <<file, table, replayed, minutes, seen, pass, faults>>

LiveInit ==
  /\ subject \in {"telemetry", "cache", "classifier", "import"}
  /\ Init
  /\ Settings!Init
  /\ Classify!Init
  /\ Import!Init
  /\ subject # "cache" => cache.lru
  /\ subject # "import" => table = {}

LiveNext ==
  \/ /\ subject = "telemetry"
     /\ Next
     /\ UNCHANGED <<subject, cacheState, classifierState, importState>>
  \/ /\ subject = "cache"
     /\ Settings!Next
     /\ UNCHANGED <<subject, vars, classifierState, importState>>
  \/ /\ subject = "classifier"
     /\ Classify!Next
     /\ UNCHANGED <<subject, vars, cacheState, importState>>
  \/ /\ subject = "import"
     /\ Import!Next
     /\ UNCHANGED <<subject, vars, cacheState, classifierState>>

\* The fairness of each module while it runs.
LiveFairness ==
  LET counts == subject = "telemetry"
      settings == subject = "cache"
      classifier == subject = "classifier"
  IN /\ \A n \in Nodes :
          /\ WF_vars(counts /\ Open(n))
          /\ WF_vars(counts /\ \E i \in Items : EnqueueSend(n, i) \/ EnqueueRefuse(n, i))
          /\ WF_vars(counts /\ Produce(n))
          /\ WF_vars(counts /\ (LateExecute(n) \/ LateDrop(n)))
          /\ WF_vars(counts /\ Replay(n))
          /\ WF_vars(counts /\ Consume(n))
          /\ WF_vars(counts /\ Close(n))
     /\ <>[][\A n \in Nodes : ~Crash(n)]_vars
     /\ \A n \in {n1, n2} : WF_cacheState(settings /\ Settings!Sync(n))
     /\ \A s \in Saves : WF_cacheState(settings /\ Settings!Saving(s) /\ Settings!Configure(s))
     /\ WF_importState(subject = "import" /\ Import!Replay)
     /\ WF_classifierState(classifier /\ Classify!Tick)
     /\ WF_classifierState(classifier /\ Classify!Exit)
     /\ WF_classifierState(classifier /\ Classify!Notice)
     /\ WF_classifierState(classifier /\ Classify!CloseBegin)
     /\ WF_classifierState(classifier /\ Classify!CloseKills)
     /\ WF_classifierState(classifier /\ Classify!CloseEnds)
     /\ \A c \in Calls :
          /\ WF_classifierState(classifier /\ Classify!Returns(c))
          /\ WF_classifierState(classifier /\ Classify!Ends(c))
          /\ WF_classifierState(classifier /\ Classify!ConnectionClosed(c))

LiveSpec ==
  /\ LiveInit
  /\ [][LiveNext]_<<subject, vars, cacheState, classifierState, importState>>
  /\ LiveFairness

\* What is durable is applied, when the telemetry runs and its dependencies serve
\* in the end (replay, consume).
ServedIsApplied == subject = "telemetry" => DurableIsApplied

\* What an earlier release has spooled is imported, each count once (PG.Replay).
ImportedOnce == subject = "import" => Import!ImportedOnce

\* A gateway never goes back to cache settings older than those it has used or
\* saved (Configure and the synchronization under mu).
SettingsAdvance == Settings!SettingsAdvance

\* Once saves and faults end, the cache has the row's capacity and every gateway
\* uses it with the row's settings (OpenReviewCache, Configure).
CacheConverges == Settings!CacheConverges

\* A call to the classifier returns, and the process stops working on it
\* (CheckConfigured, serveClassifier).
WorkEnds == Classify!WorkEnds

\* Close ends, also when the process does not listen to its pipe (CLI.Close).
CloseReturns == Classify!CloseReturns

=============================================================================
