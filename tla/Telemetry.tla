------------------------------ MODULE Telemetry ------------------------------
(***************************************************************************)
(* The telemetry pipeline of gateway/internal/store: requests hand counts  *)
(* and events to a bounded queue; one producer goroutine batches them and  *)
(* persists every batch to a Redis stream or, when Redis fails, to a local *)
(* spool file; a replay pass republishes the spool; consumers in every     *)
(* gateway move the stream into PostgreSQL together with a cursor.         *)
(*                                                                         *)
(* A node is a gateway process with its spool volume.  Nodes share Redis   *)
(* and PostgreSQL.  An item stands for one count, event or review          *)
(* statistic.  Two environment assumptions: Redis keeps what it            *)
(* acknowledged; a command whose caller gave up on it takes effect, or is  *)
(* dropped, before the same node reopens or deletes a marker.              *)
(***************************************************************************)
EXTENDS Integers, FiniteSets, Sequences

CONSTANTS
  Nodes,        \* gateways; each one's stable producer identity
  Legacy,       \* producer identities an earlier release left in spool files
  Items,        \* telemetry records
  QueueSize,    \* capacity of the queue (8192 in the code)
  BatchLimit,   \* records of one batch (128)
  ReadLimit,    \* stream entries of one consume pass (32)
  LegacyLines,  \* spool lines found by the first Open of each node
  SpoolLimit,   \* bound: lines of a spool file a failed append may still extend
  Faults        \* what may fail: a subset of the kinds below

Producers == Nodes \cup Legacy

\* Redis does not answer; the disk refuses; a refused write leaves part of a line;
\* PostgreSQL fails or its reply is lost; the process is killed; it is told to stop.
FaultKinds == {"redis", "disk", "torn", "postgres", "kill", "close"}

Batch == [producer: Producers, seq: Nat \ {0}, items: SUBSET Items]

\* A complete line that does not decode: a torn line and its successor.
Garbled == [producer |-> "garbled", seq |-> 0, items |-> {}]

Line == Batch \cup {Garbled}

ASSUME BoundsAssumption ==
  /\ QueueSize \in Nat \ {0}
  /\ BatchLimit \in Nat \ {0}
  /\ ReadLimit \in Nat \ {0}
  /\ SpoolLimit \in Nat
  /\ Faults \subseteq FaultKinds

ASSUME IdentityAssumption ==
  /\ Nodes \cap Legacy = {}
  /\ "garbled" \notin Producers

\* An earlier release drew an identity of its own for every process, numbered its
\* batches in the order it wrote them, and put a record into one of them.
ASSUME LegacyAssumption ==
  /\ LegacyLines \in [Nodes -> Seq([producer: Legacy, seq: Nat \ {0}, items: SUBSET Items])]
  /\ \A n \in Nodes : \A j, k \in DOMAIN LegacyLines[n] :
       LET a == LegacyLines[n][j]
           b == LegacyLines[n][k]
       IN a.producer = b.producer => /\ j <= k => a.seq <= b.seq
                                     /\ a.seq = b.seq => a = b
  /\ \A n, m \in Nodes : \A j \in DOMAIN LegacyLines[n], k \in DOMAIN LegacyLines[m] :
       LET a == LegacyLines[n][j]
           b == LegacyLines[m][k]
       IN /\ a.producer = b.producer => n = m
          /\ a.items \cap b.items # {} => a = b

VARIABLES
  \* memory of a gateway process
  mode,       \* "down", "open", "closing", "draining" or "stopped"
  senders,    \* items whose enqueue is in its select
  queue,      \* the channel
  pending,    \* {} or the singleton batch the producer is persisting
  sequence,   \* number of the last batch
  spooling,   \* must the producer append to the spool?
  drained,    \* producerDrained
  stage,      \* where the replay pass stands
  position,   \* lines of the rotated file this pass has passed
  fetched,    \* stream entries the consumer holds
  committed,  \* has the consumer committed what it holds?
  \* its spool volume
  active,     \* the .redis file
  rotated,    \* the .redis.replay file
  offset,     \* the .offset file, in lines; 0 without one
  retired,    \* foreign producers of the .producer file
  \* Redis and PostgreSQL
  log,        \* every entry the stream has had
  lastId,     \* id of the newest entry
  low,        \* entries below this id are trimmed
  marker,     \* last published sequence of each producer; 0 without one
  inflight,   \* publish commands whose caller gave up
  cursor,     \* gateway_ingest_cursor
  applied,    \* how often each item has been added to the tables: 0, 1, 2+
  accepted    \* history: items whose enqueue returned nil

memory == <<mode, senders, queue, pending, sequence, spooling, drained>>
replayVars == <<stage, position>>
consumerVars == <<fetched, committed>>
volume == <<active, rotated, offset, retired>>
redis == <<log, lastId, low, marker>>
postgres == <<cursor, applied>>
vars == <<memory, replayVars, consumerVars, volume, redis, inflight, postgres, accepted>>

NoFile == [exists |-> FALSE, lines |-> <<>>, torn |-> FALSE]

File == [exists: BOOLEAN, lines: Seq(Line), torn: BOOLEAN]

Entry == [id: Nat \ {0}, batch: Batch]

ItemsOf(lines) == UNION {lines[k].items : k \in DOMAIN lines}

ContentsOf(q) == {q[k] : k \in DOMAIN q}

Entries(lines) == {lines[k] : k \in DOMAIN lines}

\* What XREAD can still see.
Stream == {e \in log : e.id >= low}

Running(n) == mode[n] # "down"

\* The background loops run until the producer has stopped.
Working(n) == mode[n] \in {"open", "closing", "draining"}

Init ==
  /\ mode = [n \in Nodes |-> "down"]
  /\ senders = [n \in Nodes |-> {}]
  /\ queue = [n \in Nodes |-> <<>>]
  /\ pending = [n \in Nodes |-> {}]
  /\ sequence = [n \in Nodes |-> 0]
  /\ spooling = [n \in Nodes |-> FALSE]
  /\ drained = [n \in Nodes |-> FALSE]
  /\ stage = [n \in Nodes |-> "idle"]
  /\ position = [n \in Nodes |-> 0]
  /\ fetched = [n \in Nodes |-> {}]
  /\ committed = [n \in Nodes |-> FALSE]
  /\ active = [n \in Nodes |-> [exists |-> LegacyLines[n] # <<>>,
                                lines |-> LegacyLines[n], torn |-> FALSE]]
  /\ rotated = [n \in Nodes |-> NoFile]
  /\ offset = [n \in Nodes |-> 0]
  /\ retired = [n \in Nodes |-> {}]
  /\ log = {}
  /\ lastId = 0
  /\ low = 0
  /\ marker = [p \in Producers |-> 0]
  /\ inflight = [n \in Nodes |-> {}]
  /\ cursor = 0
  /\ applied = [i \in Items |-> 0]
  /\ accepted = UNION {ItemsOf(LegacyLines[n]) : n \in Nodes}

-----------------------------------------------------------------------------
(***************************************************************************)
(* Opening: OpenRedis and initProducer.  A line that does not decode makes *)
(* the gateway refuse to start.                                            *)
(***************************************************************************)

SpoolLines(n) == Entries(rotated[n].lines) \cup Entries(active[n].lines)

\* Variants: only Redis is asked; the marker is taken for the next free number.
MarkerSequences(n) == {marker[n]}
NextFreeSequences(n) == {marker[n] - 1}

\* The highest number this volume or Redis has seen for the node's producer.
KnownSequences(n) ==
  {marker[n]} \cup {b.seq : b \in {c \in SpoolLines(n) : c.producer = n}}

Open(n) ==
  /\ mode[n] = "down"
  /\ inflight[n] = {}
  /\ Garbled \notin SpoolLines(n)
  /\ mode' = [mode EXCEPT ![n] = "open"]
  /\ \E top \in KnownSequences(n) :
       /\ \A s \in KnownSequences(n) : s <= top
       /\ sequence' = [sequence EXCEPT ![n] = top]
  /\ spooling' = [spooling EXCEPT ![n] = active[n].exists \/ rotated[n].exists]
  /\ retired' = [retired EXCEPT ![n] =
                   @ \cup ({b.producer : b \in SpoolLines(n)} \ {n})]
  /\ UNCHANGED <<senders, queue, pending, drained, replayVars, consumerVars,
                 active, rotated, offset, redis, inflight, postgres, accepted>>

-----------------------------------------------------------------------------
(***************************************************************************)
(* Accepting: enqueue.  The lifecycle lock covers the closed check and the *)
(* registration, not the wait for room in the queue.                       *)
(***************************************************************************)

\* Items no caller has brought yet.
Fresh(i) == i \notin accepted /\ \A n \in Nodes : i \notin senders[n]

EnqueueBegin(n, i) ==
  /\ mode[n] = "open"
  /\ Fresh(i)
  /\ senders' = [senders EXCEPT ![n] = @ \cup {i}]
  /\ UNCHANGED <<mode, queue, pending, sequence, spooling, drained, replayVars,
                 consumerVars, volume, redis, inflight, postgres, accepted>>

EnqueueSend(n, i) ==
  /\ i \in senders[n]
  /\ Len(queue[n]) < QueueSize
  /\ senders' = [senders EXCEPT ![n] = @ \ {i}]
  /\ queue' = [queue EXCEPT ![n] = Append(@, i)]
  /\ accepted' = accepted \cup {i}
  /\ UNCHANGED <<mode, pending, sequence, spooling, drained, replayVars,
                 consumerVars, volume, redis, inflight, postgres>>

\* The stop channel or the caller's context wins the select.
EnqueueRefuse(n, i) ==
  /\ i \in senders[n]
  /\ senders' = [senders EXCEPT ![n] = @ \ {i}]
  /\ UNCHANGED <<mode, queue, pending, sequence, spooling, drained, replayVars,
                 consumerVars, volume, redis, inflight, postgres, accepted>>

-----------------------------------------------------------------------------
(***************************************************************************)
(* Producing: produce, persist, publish and appendSpool.                   *)
(***************************************************************************)

Collect(n) ==
  /\ Working(n)
  /\ pending[n] = {}
  /\ \E k \in 1..Len(queue[n]) :
       /\ k <= BatchLimit
       /\ pending' = [pending EXCEPT ![n] =
            {[producer |-> n, seq |-> sequence[n] + 1,
              items |-> ContentsOf(SubSeq(queue[n], 1, k))]}]
       /\ queue' = [queue EXCEPT ![n] = SubSeq(@, k + 1, Len(@))]
  /\ sequence' = [sequence EXCEPT ![n] = @ + 1]
  /\ UNCHANGED <<mode, senders, spooling, drained, replayVars, consumerVars,
                 volume, redis, inflight, postgres, accepted>>

\* The publishBatch script: one atomic step of Redis.
RunPublish(b) ==
  \/ /\ marker[b.producer] >= b.seq
     /\ UNCHANGED redis
  \/ /\ marker[b.producer] < b.seq
     /\ lastId' = lastId + 1
     /\ log' = log \cup {[id |-> lastId + 1, batch |-> b]}
     /\ marker' = [marker EXCEPT ![b.producer] = b.seq]
     /\ UNCHANGED low

PublishOk(n) ==
  /\ ~spooling[n]
  /\ \E b \in pending[n] : RunPublish(b)
  /\ pending' = [pending EXCEPT ![n] = {}]
  /\ UNCHANGED <<mode, senders, queue, sequence, spooling, drained, replayVars,
                 consumerVars, volume, inflight, postgres, accepted>>

\* No reply in time: the command may have run, may run later, or never.
PublishFail(n) ==
  /\ "redis" \in Faults
  /\ ~spooling[n]
  /\ pending[n] # {}
  /\ inflight' = [inflight EXCEPT ![n] = @ \cup pending[n]]
  /\ spooling' = [spooling EXCEPT ![n] = TRUE]
  /\ UNCHANGED <<mode, senders, queue, pending, sequence, drained, replayVars,
                 consumerVars, volume, redis, postgres, accepted>>

LateExecute(n) ==
  /\ \E b \in inflight[n] :
       /\ RunPublish(b)
       /\ inflight' = [inflight EXCEPT ![n] = @ \ {b}]
  /\ UNCHANGED <<memory, replayVars, consumerVars, volume, postgres, accepted>>

LateDrop(n) ==
  /\ \E b \in inflight[n] : inflight' = [inflight EXCEPT ![n] = @ \ {b}]
  /\ UNCHANGED <<memory, replayVars, consumerVars, volume, redis, postgres, accepted>>

\* A line written behind a torn one becomes part of it.
Appended(file, b) ==
  [exists |-> TRUE, torn |-> FALSE,
   lines |-> Append(file.lines, IF file.torn THEN Garbled ELSE b)]

AppendOk(n) ==
  /\ spooling[n]
  /\ \E b \in pending[n] : active' = [active EXCEPT ![n] = Appended(@, b)]
  /\ pending' = [pending EXCEPT ![n] = {}]
  /\ UNCHANGED <<mode, senders, queue, sequence, spooling, drained, replayVars,
                 consumerVars, rotated, offset, retired, redis, inflight,
                 postgres, accepted>>

\* Variant: a batch that cannot be appended is dropped.
AppendFailDrop(n) ==
  /\ "disk" \in Faults
  /\ spooling[n]
  /\ pending' = [pending EXCEPT ![n] = {}]
  /\ UNCHANGED <<mode, senders, queue, sequence, spooling, drained, replayVars,
                 consumerVars, volume, redis, inflight, postgres, accepted>>

\* Open, write or sync fails: the file may exist now, hold the whole line or,
\* with torn writes, a part of it.  The producer keeps the batch and retries.
AppendFail(n) ==
  /\ "disk" \in Faults
  /\ spooling[n]
  /\ \E b \in pending[n] :
       \/ active' = [active EXCEPT ![n].exists = TRUE]
       \/ /\ Len(active[n].lines) < SpoolLimit
          /\ active' = [active EXCEPT ![n] = Appended(@, b)]
       \/ /\ "torn" \in Faults
          /\ active' = [active EXCEPT ![n].exists = TRUE, ![n].torn = TRUE]
  /\ UNCHANGED <<memory, replayVars, consumerVars, rotated, offset, retired,
                 redis, inflight, postgres, accepted>>

-----------------------------------------------------------------------------
(***************************************************************************)
(* Replaying: replay, replayOffset, saveReplayProgress and                 *)
(* cleanupProducerMarkers.                                                 *)
(***************************************************************************)

\* Variants: the offset of the file before survives a rotation; a rotated file
\* found by a later pass is left alone.
ReplayBeginKeepOffset(n) ==
  /\ Working(n)
  /\ stage[n] = "idle"
  /\ rotated[n].exists \/ active[n].exists
  /\ rotated' = [rotated EXCEPT ![n] = IF rotated[n].exists THEN @ ELSE active[n]]
  /\ active' = [active EXCEPT ![n] = IF rotated[n].exists THEN @ ELSE NoFile]
  /\ stage' = [stage EXCEPT ![n] = "lines"]
  /\ position' = [position EXCEPT ![n] = offset[n]]
  /\ spooling' = [spooling EXCEPT ![n] = TRUE]
  /\ UNCHANGED <<mode, senders, queue, pending, sequence, drained, consumerVars,
                 offset, retired, redis, inflight, postgres, accepted>>

ReplayBeginFresh(n) ==
  /\ Working(n)
  /\ stage[n] = "idle"
  /\ ~rotated[n].exists
  /\ active[n].exists
  /\ rotated' = [rotated EXCEPT ![n] = active[n]]
  /\ active' = [active EXCEPT ![n] = NoFile]
  /\ offset' = [offset EXCEPT ![n] = 0]
  /\ stage' = [stage EXCEPT ![n] = "lines"]
  /\ position' = [position EXCEPT ![n] = 0]
  /\ spooling' = [spooling EXCEPT ![n] = TRUE]
  /\ UNCHANGED <<mode, senders, queue, pending, sequence, drained, consumerVars,
                 retired, redis, inflight, postgres, accepted>>

\* Under spoolMu: keep a rotated file, else rotate the active one.
ReplayBegin(n) ==
  /\ Working(n)
  /\ stage[n] = "idle"
  /\ \/ /\ rotated[n].exists
        /\ stage' = [stage EXCEPT ![n] = "lines"]
        /\ position' = [position EXCEPT ![n] = offset[n]]
        /\ spooling' = [spooling EXCEPT ![n] = TRUE]
        /\ UNCHANGED <<active, rotated, offset>>
     \/ /\ ~rotated[n].exists
        /\ active[n].exists
        /\ rotated' = [rotated EXCEPT ![n] = active[n]]
        /\ active' = [active EXCEPT ![n] = NoFile]
        /\ offset' = [offset EXCEPT ![n] = 0]
        /\ stage' = [stage EXCEPT ![n] = "lines"]
        /\ position' = [position EXCEPT ![n] = 0]
        /\ spooling' = [spooling EXCEPT ![n] = TRUE]
     \/ /\ ~rotated[n].exists
        /\ ~active[n].exists
        /\ offset' = [offset EXCEPT ![n] = 0]
        /\ spooling' = [spooling EXCEPT ![n] = FALSE]
        /\ UNCHANGED <<active, rotated, stage, position>>
  /\ UNCHANGED <<mode, senders, queue, pending, sequence, drained, consumerVars,
                 retired, redis, inflight, postgres, accepted>>

NextLine(n) == rotated[n].lines[position[n] + 1]

HasLine(n) == stage[n] = "lines" /\ position[n] < Len(rotated[n].lines)

\* trackRetiredProducer
Track(n, b) ==
  retired' = [retired EXCEPT ![n] = @ \cup ({b.producer} \ {n})]

ReplayLineOk(n) ==
  /\ HasLine(n)
  /\ NextLine(n) # Garbled
  /\ Track(n, NextLine(n))
  /\ RunPublish(NextLine(n))
  /\ position' = [position EXCEPT ![n] = @ + 1]
  /\ UNCHANGED <<memory, stage, consumerVars, active, rotated, offset, inflight,
                 postgres, accepted>>

\* The pass ends and saves its progress; saving may fail.
EndPass(n) ==
  /\ stage' = [stage EXCEPT ![n] = "idle"]
  /\ position' = [position EXCEPT ![n] = 0]
  /\ \/ offset' = [offset EXCEPT ![n] = position[n]]
     \/ "disk" \in Faults /\ UNCHANGED offset

ReplayLineFail(n) ==
  /\ "redis" \in Faults
  /\ HasLine(n)
  /\ NextLine(n) # Garbled
  /\ Track(n, NextLine(n))
  /\ inflight' = [inflight EXCEPT ![n] = @ \cup {NextLine(n)}]
  /\ EndPass(n)
  /\ UNCHANGED <<memory, consumerVars, active, rotated, redis, postgres, accepted>>

\* 128 lines done, the deadline passed, or a line that does not decode.
ReplayPause(n) ==
  /\ stage[n] = "lines"
  /\ EndPass(n)
  /\ UNCHANGED <<memory, consumerVars, active, rotated, retired, redis, inflight,
                 postgres, accepted>>

\* End of file; a torn tail was never acknowledged.
ReplayRemoveFile(n) ==
  /\ stage[n] = "lines"
  /\ position[n] = Len(rotated[n].lines)
  /\ rotated' = [rotated EXCEPT ![n] = NoFile]
  /\ stage' = [stage EXCEPT ![n] = "offset"]
  /\ position' = [position EXCEPT ![n] = 0]
  /\ UNCHANGED <<memory, consumerVars, active, offset, retired, redis, inflight,
                 postgres, accepted>>

ReplayRemoveOffset(n) ==
  /\ stage[n] = "offset"
  /\ \/ /\ offset' = [offset EXCEPT ![n] = 0]
        /\ stage' = [stage EXCEPT ![n] = "cleanup"]
     \/ /\ "disk" \in Faults
        /\ stage' = [stage EXCEPT ![n] = "idle"]
        /\ UNCHANGED offset
  /\ UNCHANGED <<memory, position, consumerVars, active, rotated, retired, redis,
                 inflight, postgres, accepted>>

\* HDEL: deleted and forgotten, or failed with or without having deleted.
DeleteMarkers(n, ids) ==
  /\ UNCHANGED <<log, lastId, low>>
  /\ \/ "redis" \in Faults /\ UNCHANGED <<marker, retired>>
     \/ /\ inflight[n] = {}
        /\ marker' = [p \in Producers |-> IF p \in ids THEN 0 ELSE marker[p]]
        /\ \/ retired' = [retired EXCEPT ![n] = {}]
           \/ "redis" \in Faults /\ UNCHANGED retired

SpoolEmpty(n) == ~active[n].exists /\ ~rotated[n].exists

ReplayCleanup(n) ==
  /\ stage[n] = "cleanup"
  /\ stage' = [stage EXCEPT ![n] = "idle"]
  /\ \/ /\ SpoolEmpty(n)
        /\ spooling' = [spooling EXCEPT ![n] = FALSE]
        /\ DeleteMarkers(n, retired[n])
     \/ /\ ~SpoolEmpty(n)
        /\ UNCHANGED <<spooling, redis, retired>>
  /\ UNCHANGED <<mode, senders, queue, pending, sequence, drained, position,
                 consumerVars, active, rotated, offset, inflight, postgres, accepted>>

-----------------------------------------------------------------------------
(***************************************************************************)
(* Consuming: consume and applyStream, in every gateway at once.           *)
(***************************************************************************)

Unread == {e \in Stream : e.id > cursor}

\* The cursor, then XREAD COUNT: the oldest ReadLimit entries behind it.
ConsumeRead(n) ==
  /\ Working(n)
  /\ fetched[n] = {}
  /\ \E top \in Unread :
       LET page == {e \in Unread : e.id <= top.id} IN
       /\ Cardinality(page) <= ReadLimit
       /\ page = Unread \/ Cardinality(page) = ReadLimit
       /\ fetched' = [fetched EXCEPT ![n] = page]
  /\ UNCHANGED <<memory, replayVars, committed, volume, redis, inflight,
                 postgres, accepted>>

\* Variant: every fetched entry is added.
NewUnchecked(n) == fetched[n]

\* Entries the transaction adds: it locks the cursor and skips what is behind it.
New(n) == {e \in fetched[n] : e.id > cursor}

Count(i, S) ==
  CASE \A e \in S : i \notin e.batch.items -> applied[i]
    [] /\ applied[i] = 0
       /\ \E e \in S : i \in e.batch.items
       /\ \A e, f \in S : i \in e.batch.items /\ i \in f.batch.items => e = f -> 1
    [] OTHER -> 2

\* applyStream's transaction: aggregates, events and the cursor, or nothing.
Commit(n) ==
  /\ applied' = [i \in Items |-> Count(i, New(n))]
  /\ \/ New(n) = {} /\ UNCHANGED cursor
     \/ \E last \in New(n) :
          /\ \A e \in New(n) : e.id <= last.id
          /\ cursor' = last.id

ConsumeCommit(n) ==
  /\ fetched[n] # {}
  /\ ~committed[n]
  /\ Commit(n)
  /\ \/ committed' = [committed EXCEPT ![n] = TRUE] /\ UNCHANGED fetched
     \* The commit happened, its reply did not arrive.
     \/ "postgres" \in Faults /\ fetched' = [fetched EXCEPT ![n] = {}] /\ UNCHANGED committed
  /\ UNCHANGED <<memory, replayVars, volume, redis, inflight, accepted>>

ConsumeAbort(n) ==
  /\ "postgres" \in Faults \/ mode[n] = "stopped"
  /\ fetched[n] # {}
  /\ fetched' = [fetched EXCEPT ![n] = {}]
  /\ committed' = [committed EXCEPT ![n] = FALSE]
  /\ UNCHANGED <<memory, replayVars, volume, redis, inflight, postgres, accepted>>

\* Variant: the whole stream is trimmed.
ConsumeTrimAll(n) ==
  /\ committed[n]
  /\ low' = lastId + 1
  /\ fetched' = [fetched EXCEPT ![n] = {}]
  /\ committed' = [committed EXCEPT ![n] = FALSE]
  /\ UNCHANGED <<memory, replayVars, volume, log, lastId, marker, inflight,
                 postgres, accepted>>

\* XTRIM MINID keeps the newest entry of the page.
ConsumeTrim(n) ==
  /\ committed[n]
  /\ \E last \in fetched[n] :
       /\ \A e \in fetched[n] : e.id <= last.id
       /\ \/ low < last.id /\ low' = last.id
          \/ low >= last.id /\ UNCHANGED low
  /\ fetched' = [fetched EXCEPT ![n] = {}]
  /\ committed' = [committed EXCEPT ![n] = FALSE]
  /\ UNCHANGED <<memory, replayVars, volume, log, lastId, marker, inflight,
                 postgres, accepted>>

-----------------------------------------------------------------------------
(***************************************************************************)
(* Stopping: Close, and a process that is killed.                          *)
(***************************************************************************)

CloseBegin(n) ==
  /\ "close" \in Faults
  /\ mode[n] = "open"
  /\ mode' = [mode EXCEPT ![n] = "closing"]
  /\ UNCHANGED <<senders, queue, pending, sequence, spooling, drained, replayVars,
                 consumerVars, volume, redis, inflight, postgres, accepted>>

\* Variant: the queue is closed under its senders.
CloseQueueEarly(n) ==
  /\ mode[n] = "closing"
  /\ mode' = [mode EXCEPT ![n] = "draining"]
  /\ UNCHANGED <<senders, queue, pending, sequence, spooling, drained, replayVars,
                 consumerVars, volume, redis, inflight, postgres, accepted>>

\* enqueues.Wait, then close(queue).
CloseQueue(n) ==
  /\ mode[n] = "closing"
  /\ senders[n] = {}
  /\ mode' = [mode EXCEPT ![n] = "draining"]
  /\ UNCHANGED <<senders, queue, pending, sequence, spooling, drained, replayVars,
                 consumerVars, volume, redis, inflight, postgres, accepted>>

ProducerDrained(n) ==
  /\ mode[n] = "draining"
  /\ queue[n] = <<>>
  /\ pending[n] = {}
  /\ mode' = [mode EXCEPT ![n] = "stopped"]
  /\ drained' = [drained EXCEPT ![n] = TRUE]
  /\ UNCHANGED <<senders, queue, pending, sequence, spooling, replayVars,
                 consumerVars, volume, redis, inflight, postgres, accepted>>

\* Variant: no deadline; the producer retries for as long as it takes.
ProducerCancelledNever(n) ==
  /\ FALSE
  /\ UNCHANGED vars

\* telemetryShutdownTimeout: the producer gives up what it holds.
ProducerCancelled(n) ==
  /\ mode[n] = "draining"
  /\ mode' = [mode EXCEPT ![n] = "stopped"]
  /\ queue' = [queue EXCEPT ![n] = <<>>]
  /\ pending' = [pending EXCEPT ![n] = {}]
  /\ UNCHANGED <<senders, sequence, spooling, drained, replayVars, consumerVars,
                 volume, redis, inflight, postgres, accepted>>

\* The process's memory is gone.
Forget(n) ==
  /\ mode' = [mode EXCEPT ![n] = "down"]
  /\ senders' = [senders EXCEPT ![n] = {}]
  /\ queue' = [queue EXCEPT ![n] = <<>>]
  /\ pending' = [pending EXCEPT ![n] = {}]
  /\ sequence' = [sequence EXCEPT ![n] = 0]
  /\ spooling' = [spooling EXCEPT ![n] = FALSE]
  /\ drained' = [drained EXCEPT ![n] = FALSE]
  /\ stage' = [stage EXCEPT ![n] = "idle"]
  /\ position' = [position EXCEPT ![n] = 0]
  /\ fetched' = [fetched EXCEPT ![n] = {}]
  /\ committed' = [committed EXCEPT ![n] = FALSE]

\* workers.Wait, cleanupProducerMarkers(producerDrained), unlock, exit.
CloseFinish(n) ==
  /\ mode[n] = "stopped"
  /\ stage[n] = "idle"
  /\ fetched[n] = {}
  /\ \/ /\ SpoolEmpty(n)
        /\ DeleteMarkers(n, retired[n] \cup (IF drained[n] THEN {n} ELSE {}))
     \/ /\ ~SpoolEmpty(n)
        /\ UNCHANGED <<redis, retired>>
  /\ Forget(n)
  /\ UNCHANGED <<active, rotated, offset, inflight, postgres, accepted>>

Crash(n) ==
  /\ "kill" \in Faults
  /\ Running(n)
  /\ Forget(n)
  /\ UNCHANGED <<volume, redis, inflight, postgres, accepted>>

-----------------------------------------------------------------------------

Produce(n) ==
  \/ Collect(n) \/ PublishOk(n) \/ PublishFail(n) \/ AppendOk(n) \/ AppendFail(n)

Replay(n) ==
  \/ ReplayBegin(n) \/ ReplayLineOk(n) \/ ReplayLineFail(n) \/ ReplayPause(n)
  \/ ReplayRemoveFile(n) \/ ReplayRemoveOffset(n) \/ ReplayCleanup(n)

Consume(n) ==
  \/ ConsumeRead(n) \/ ConsumeCommit(n) \/ ConsumeAbort(n) \/ ConsumeTrim(n)

\* What follows CloseBegin.
Close(n) ==
  \/ CloseQueue(n) \/ ProducerDrained(n) \/ ProducerCancelled(n) \/ CloseFinish(n)

Next ==
  \E n \in Nodes :
    \/ Open(n)
    \/ \E i \in Items : EnqueueBegin(n, i) \/ EnqueueSend(n, i) \/ EnqueueRefuse(n, i)
    \/ Produce(n)
    \/ LateExecute(n)
    \/ LateDrop(n)
    \/ Replay(n)
    \/ Consume(n)
    \/ CloseBegin(n)
    \/ Close(n)
    \/ Crash(n)

Spec == Init /\ [][Next]_vars

-----------------------------------------------------------------------------
(***************************************************************************)
(* Fairness.  Every goroutine keeps running, a stopped gateway is started  *)
(* again (compose restarts it), and is killed only finitely often.  Redis, *)
(* the disk and PostgreSQL may refuse every attempt.                       *)
(***************************************************************************)

\* A dependency that keeps coming back serves, in the end, an attempt that is
\* repeated for ever: what progress of the data needs, and stopping does not.
Serve(n) ==
  /\ SF_vars(AppendOk(n))
  /\ \A k \in 0..(Cardinality(Items) + SpoolLimit) :
       SF_vars(position[n] = k /\ ReplayLineOk(n))
  /\ SF_vars(ReplayRemoveFile(n))
  /\ SF_vars(ConsumeCommit(n))

Fairness ==
  /\ \A n \in Nodes :
       /\ WF_vars(Open(n))
       /\ WF_vars(\E i \in Items : EnqueueSend(n, i) \/ EnqueueRefuse(n, i))
       /\ WF_vars(Produce(n))
       /\ WF_vars(LateExecute(n) \/ LateDrop(n))
       /\ WF_vars(Replay(n))
       /\ WF_vars(Consume(n))
       /\ WF_vars(Close(n))
  /\ <>[][\A n \in Nodes : ~Crash(n)]_vars

FairSpec == Spec /\ Fairness

-----------------------------------------------------------------------------

\* The state of every variable.
TypeOK ==
  /\ mode \in [Nodes -> {"down", "open", "closing", "draining", "stopped"}]
  /\ senders \in [Nodes -> SUBSET Items]
  /\ queue \in [Nodes -> Seq(Items)]
  /\ pending \in [Nodes -> SUBSET Batch]
  /\ sequence \in [Nodes -> Nat]
  /\ spooling \in [Nodes -> BOOLEAN]
  /\ drained \in [Nodes -> BOOLEAN]
  /\ stage \in [Nodes -> {"idle", "lines", "offset", "cleanup"}]
  /\ position \in [Nodes -> Nat]
  /\ fetched \in [Nodes -> SUBSET Entry]
  /\ committed \in [Nodes -> BOOLEAN]
  /\ active \in [Nodes -> File]
  /\ rotated \in [Nodes -> File]
  /\ offset \in [Nodes -> Nat]
  /\ retired \in [Nodes -> SUBSET Producers]
  /\ log \in SUBSET Entry
  /\ lastId \in Nat
  /\ low \in Nat
  /\ marker \in [Producers -> Nat]
  /\ inflight \in [Nodes -> SUBSET Batch]
  /\ cursor \in Nat
  /\ applied \in [Items -> 0..2]
  /\ accepted \in SUBSET Items

Published(b) == \E e \in log : e.batch = b

\* Batches that may still be sent to Redis.
Copies(n) == pending[n] \cup (SpoolLines(n) \ {Garbled}) \cup inflight[n]

\* A batch that may still be sent has reached the stream exactly when its
\* producer's marker says so: the marker neither lets it in twice (a lost reply
\* retried, a spool republished after a kill) nor makes the script drop it unseen
\* (a later batch overtaking the spool, a number used again after a restart).
MarkerExact ==
  \A n \in Nodes : \A b \in Copies(n) :
    Published(b) <=> marker[b.producer] >= b.seq

\* Lines the replay has still to pass.
Waiting(n) ==
  LET passed == IF stage[n] = "lines" THEN position[n] ELSE offset[n] IN
  Entries(active[n].lines)
    \cup {rotated[n].lines[k] : k \in {j \in DOMAIN rotated[n].lines : j > passed}}

\* Redis has the item, or a spool line does that the script will let in.
Durable(i) ==
  \/ \E e \in log : i \in e.batch.items
  \/ \E n \in Nodes : \E b \in Waiting(n) \ {Garbled} :
       i \in b.items /\ marker[b.producer] < b.seq

InMemory(i) ==
  \E n \in Nodes :
    \/ i \in ContentsOf(queue[n])
    \/ \E b \in pending[n] \cup inflight[n] : i \in b.items

PhaseOf(i) ==
  CASE applied[i] = 2 -> "twice"
    [] applied[i] = 1 -> "applied"
    [] applied[i] = 0 /\ Durable(i) -> "durable"
    [] applied[i] = 0 /\ ~Durable(i) /\ InMemory(i) -> "accepted"
    [] applied[i] = 0 /\ ~Durable(i) /\ ~InMemory(i) /\ i \in accepted -> "lost"
    [] OTHER -> "new"

L == INSTANCE Ledger WITH phase <- [i \in Items |-> PhaseOf(i)]

\* The pipeline implements Ledger: no record is counted twice, and one that Redis
\* or the spool holds is never lost, through lost replies, late commands, failed
\* appends, kills between any two steps of a replay, restarts and shutdowns.
LedgerRefined == L!Spec

\* The producer lets go of a batch, other than by being stopped, only when the
\* batch is durable (persist's nil result).
AcknowledgedIsDurable ==
  [][\A n \in Nodes :
       pending'[n] = {} /\ mode'[n] = mode[n] =>
         \A b \in pending[n] : \A i \in b.items : Durable(i)']_vars

\* Close: nobody sends on the closed queue, and a drained producer leaves nothing.
DrainIsComplete ==
  \A n \in Nodes :
    /\ senders[n] # {} => mode[n] \in {"open", "closing"}
    /\ drained[n] => queue[n] = <<>> /\ pending[n] = {} /\ senders[n] = {}

\* The tables hold exactly the entries up to the cursor, once each, whichever
\* consumers raced to apply them and whatever replies they lost.
LedgerIsPrefix ==
  \A i \in Items :
    applied[i] = Cardinality({e \in log : e.id <= cursor /\ i \in e.batch.items})

\* Trimming, by any consumer and however late, removes only what is in the tables.
TrimKeepsUnread == \A e \in log : e.id < low => e.id <= cursor

\* Every complete line of a spool file decodes: "An incomplete final append was
\* never acknowledged/fsynced" (redis_spool.go) takes a torn line to be the last.
SpoolDecodes == \A n \in Nodes : Garbled \notin SpoolLines(n)

\* If the dependencies come back, what is durable reaches the tables in the end.
DurableIsApplied == (\A n \in Nodes : Serve(n)) =>
                      \A i \in Items : Durable(i) ~> applied[i] > 0

\* Close ends, whatever Redis, the disk and PostgreSQL do.
CloseEnds == \A n \in Nodes : mode[n] = "closing" ~> mode[n] = "down"

=============================================================================
