--------------------------- MODULE TelemetryProofs ---------------------------
(***************************************************************************)
(* Theorems about Telemetry, for every number of gateways, records, queue  *)
(* and batch sizes, spools left by earlier releases and sets of faults.    *)
(***************************************************************************)
EXTENDS Telemetry, SequenceTheorems, FiniteSetTheorems, TLAPS

USE DEF memory, replayVars, consumerVars, volume, redis, postgres

-----------------------------------------------------------------------------
(***************************************************************************)
(* Types.                                                                  *)
(***************************************************************************)

\* The script leaves the stream and the markers well formed.
LEMMA RunPublishType ==
  ASSUME TypeOK, NEW b \in Batch, RunPublish(b)
  PROVE  /\ log' \in SUBSET Entry
         /\ lastId' \in Nat
         /\ low' \in Nat
         /\ marker' \in [Producers -> Nat]
<1>1. b.producer \in Producers /\ b.seq \in Nat
  BY DEF Batch
<1>2. [id |-> lastId + 1, batch |-> b] \in Entry
  BY DEF Entry, TypeOK
<1> QED
  BY <1>1, <1>2 DEF RunPublish, TypeOK

LEMMA LineType == Garbled \in Line /\ Batch \subseteq Line
  BY DEF Line

LEMMA AppendedType ==
  ASSUME NEW file \in File, NEW b \in Batch
  PROVE  Appended(file, b) \in File
<1>1. (IF file.torn THEN Garbled ELSE b) \in Line
  BY LineType
<1>2. file.lines \in Seq(Line)
  BY DEF File
<1>3. Append(file.lines, IF file.torn THEN Garbled ELSE b) \in Seq(Line)
  BY <1>1, <1>2
<1> QED
  BY <1>3 DEF Appended, File

LEMMA NoFileType == NoFile \in File
  BY DEF NoFile, File

LEMMA NextLineType ==
  ASSUME TypeOK, NEW n \in Nodes, HasLine(n), NextLine(n) # Garbled
  PROVE  NextLine(n) \in Batch
<1>1. rotated[n].lines \in Seq(Line) /\ position[n] \in Nat
  BY DEF TypeOK, File
<1>2. position[n] + 1 \in 1..Len(rotated[n].lines)
  BY <1>1 DEF HasLine
<1>3. NextLine(n) \in Line
  BY <1>1, <1>2 DEF NextLine
<1> QED
  BY <1>3 DEF Line

LEMMA SpoolLinesType ==
  ASSUME TypeOK, NEW n \in Nodes
  PROVE  SpoolLines(n) \subseteq Line
<1>1. rotated[n].lines \in Seq(Line) /\ active[n].lines \in Seq(Line)
  BY DEF TypeOK, File
<1> QED
  BY <1>1 DEF SpoolLines, Entries

LEMMA InitType == Init => TypeOK
<1> SUFFICES ASSUME Init PROVE TypeOK
  OBVIOUS
<1>1. ASSUME NEW n \in Nodes
      PROVE  [exists |-> LegacyLines[n] # <<>>, lines |-> LegacyLines[n],
              torn |-> FALSE] \in File
  <2>1. LegacyLines[n] \in Seq([producer: Legacy, seq: Nat \ {0}, items: SUBSET Items])
    BY LegacyAssumption
  <2>2. [producer: Legacy, seq: Nat \ {0}, items: SUBSET Items] \subseteq Line
    BY DEF Line, Batch, Producers
  <2>3. LegacyLines[n] \in Seq(Line)
    BY <2>1, <2>2, SeqMonotonic
  <2> QED
    BY <2>3 DEF File
<1>2. active \in [Nodes -> File]
  BY <1>1 DEF Init
<1>3. rotated \in [Nodes -> File]
  BY NoFileType DEF Init
<1>4. accepted \in SUBSET Items
  <2>1. ASSUME NEW n \in Nodes
        PROVE  ItemsOf(LegacyLines[n]) \subseteq Items
    <3>1. LegacyLines[n] \in Seq([producer: Legacy, seq: Nat \ {0}, items: SUBSET Items])
      BY LegacyAssumption
    <3>2. ASSUME NEW k \in DOMAIN LegacyLines[n]
          PROVE  LegacyLines[n][k].items \subseteq Items
      <4>1. k \in 1..Len(LegacyLines[n])
        BY <3>1, LenProperties
      <4>2. LegacyLines[n][k] \in [producer: Legacy, seq: Nat \ {0}, items: SUBSET Items]
        BY <3>1, <4>1, ElementOfSeq
      <4> QED
        BY <4>2
    <3> QED
      BY <3>2 DEF ItemsOf
  <2> QED
    BY <2>1 DEF Init
<1>5. queue \in [Nodes -> Seq(Items)]
  BY DEF Init
<1>6. marker \in [Producers -> Nat] /\ applied \in [Items -> 0..2]
  BY DEF Init
<1>7. /\ mode \in [Nodes -> {"down", "open", "closing", "draining", "stopped"}]
      /\ stage \in [Nodes -> {"idle", "lines", "offset", "cleanup"}]
      /\ sequence \in [Nodes -> Nat]
      /\ position \in [Nodes -> Nat]
      /\ offset \in [Nodes -> Nat]
      /\ log \in SUBSET Entry
      /\ lastId \in Nat
      /\ low \in Nat
      /\ cursor \in Nat
  BY DEF Init
<1>8. /\ senders \in [Nodes -> SUBSET Items]
      /\ pending \in [Nodes -> SUBSET Batch]
      /\ spooling \in [Nodes -> BOOLEAN]
      /\ drained \in [Nodes -> BOOLEAN]
      /\ fetched \in [Nodes -> SUBSET Entry]
      /\ committed \in [Nodes -> BOOLEAN]
      /\ retired \in [Nodes -> SUBSET Producers]
      /\ inflight \in [Nodes -> SUBSET Batch]
  BY DEF Init
<1> QED
  BY <1>2, <1>3, <1>4, <1>5, <1>6, <1>7, <1>8 DEF TypeOK

LEMMA DeleteMarkersType ==
  ASSUME TypeOK, NEW n \in Nodes, NEW ids, DeleteMarkers(n, ids)
  PROVE  /\ log' \in SUBSET Entry /\ lastId' \in Nat /\ low' \in Nat
         /\ marker' \in [Producers -> Nat]
         /\ retired' \in [Nodes -> SUBSET Producers]
<1>1. log' \in SUBSET Entry /\ lastId' \in Nat /\ low' \in Nat
  BY DEF DeleteMarkers, TypeOK
<1>2. marker' \in [Producers -> Nat]
  BY DEF DeleteMarkers, TypeOK
<1>3. retired' \in [Nodes -> SUBSET Producers]
  BY DEF DeleteMarkers, TypeOK
<1> QED
  BY <1>1, <1>2, <1>3

LEMMA CommitType ==
  ASSUME TypeOK, NEW n \in Nodes, Commit(n)
  PROVE  cursor' \in Nat /\ applied' \in [Items -> 0..2]
<1>1. \A e \in New(n) : e.id \in Nat
  BY DEF New, TypeOK, Entry
<1>2. cursor' \in Nat
  BY <1>1 DEF Commit, TypeOK
<1>3. ASSUME NEW i \in Items PROVE Count(i, New(n)) \in 0..2
  <2>1. applied[i] \in 0..2
    BY DEF TypeOK
  <2> QED
    BY <2>1 DEF Count
<1> QED
  BY <1>2, <1>3 DEF Commit

LEMMA ForgetType ==
  ASSUME TypeOK, NEW n \in Nodes, Forget(n)
  PROVE  /\ mode' \in [Nodes -> {"down", "open", "closing", "draining", "stopped"}]
         /\ senders' \in [Nodes -> SUBSET Items]
         /\ queue' \in [Nodes -> Seq(Items)]
         /\ pending' \in [Nodes -> SUBSET Batch]
         /\ sequence' \in [Nodes -> Nat]
         /\ spooling' \in [Nodes -> BOOLEAN]
         /\ drained' \in [Nodes -> BOOLEAN]
         /\ stage' \in [Nodes -> {"idle", "lines", "offset", "cleanup"}]
         /\ position' \in [Nodes -> Nat]
         /\ fetched' \in [Nodes -> SUBSET Entry]
         /\ committed' \in [Nodes -> BOOLEAN]
<1>1. <<>> \in Seq(Items)
  BY EmptySeq
<1> QED
  BY <1>1 DEF Forget, TypeOK

LEMMA NextType == TypeOK /\ [Next]_vars => TypeOK'
<1> SUFFICES ASSUME TypeOK, [Next]_vars PROVE TypeOK'
  OBVIOUS
<1>1. CASE UNCHANGED vars
  BY <1>1 DEF vars, TypeOK
<1>2. ASSUME NEW n \in Nodes, Open(n) PROVE TypeOK'
  <2>1. sequence' \in [Nodes -> Nat]
    <3>1. KnownSequences(n) \subseteq Nat
      <4>1. \A b \in SpoolLines(n) : b.seq \in Nat
        BY SpoolLinesType DEF Line, Batch, Garbled
      <4>2. marker[n] \in Nat
        BY DEF TypeOK, Producers
      <4> QED
        BY <4>1, <4>2 DEF KnownSequences
    <3> QED
      BY <1>2, <3>1 DEF Open, TypeOK
  <2>2. retired' \in [Nodes -> SUBSET Producers]
    <3>1. \A b \in SpoolLines(n) : b.producer \in Producers
      BY <1>2, SpoolLinesType DEF Open, Line, Batch
    <3> QED
      BY <1>2, <3>1 DEF Open, TypeOK
  <2> QED
    BY <1>2, <2>1, <2>2 DEF Open, TypeOK
<1>3. ASSUME NEW n \in Nodes, NEW i \in Items, EnqueueBegin(n, i) PROVE TypeOK'
  BY <1>3 DEF EnqueueBegin, TypeOK
<1>4. ASSUME NEW n \in Nodes, NEW i \in Items, EnqueueSend(n, i) PROVE TypeOK'
  <2>1. Append(queue[n], i) \in Seq(Items)
    BY DEF TypeOK
  <2> QED
    BY <1>4, <2>1 DEF EnqueueSend, TypeOK
<1>5. ASSUME NEW n \in Nodes, NEW i \in Items, EnqueueRefuse(n, i) PROVE TypeOK'
  BY <1>5 DEF EnqueueRefuse, TypeOK
<1>6. ASSUME NEW n \in Nodes, Collect(n) PROVE TypeOK'
  <2>1. PICK k \in 1..Len(queue[n]) :
          /\ pending' = [pending EXCEPT ![n] =
               {[producer |-> n, seq |-> sequence[n] + 1,
                 items |-> ContentsOf(SubSeq(queue[n], 1, k))]}]
          /\ queue' = [queue EXCEPT ![n] = SubSeq(@, k + 1, Len(@))]
    BY <1>6 DEF Collect
  <2>2. queue[n] \in Seq(Items) /\ Len(queue[n]) \in Nat /\ k \in Nat
    BY <2>1 DEF TypeOK
  <2>3. SubSeq(queue[n], 1, k) \in Seq(Items)
    BY <2>1, <2>2
  <2>4. SubSeq(queue[n], k + 1, Len(queue[n])) \in Seq(Items)
    BY <2>1, <2>2
  <2>5. [producer |-> n, seq |-> sequence[n] + 1,
         items |-> ContentsOf(SubSeq(queue[n], 1, k))] \in Batch
    <3>1. ContentsOf(SubSeq(queue[n], 1, k)) \subseteq Items
      BY <2>3 DEF ContentsOf
    <3> QED
      BY <3>1 DEF Batch, Producers, TypeOK
  <2> QED
    BY <1>6, <2>1, <2>4, <2>5 DEF Collect, TypeOK
<1>7. ASSUME NEW n \in Nodes, PublishOk(n) PROVE TypeOK'
  <2>1. PICK b \in pending[n] : RunPublish(b)
    BY <1>7 DEF PublishOk
  <2>2. b \in Batch
    BY DEF TypeOK
  <2> QED
    BY <1>7, <2>1, <2>2, RunPublishType DEF PublishOk, TypeOK
<1>8. ASSUME NEW n \in Nodes, PublishFail(n) PROVE TypeOK'
  BY <1>8 DEF PublishFail, TypeOK
<1>9. ASSUME NEW n \in Nodes, AppendOk(n) PROVE TypeOK'
  <2>1. PICK b \in pending[n] : active' = [active EXCEPT ![n] = Appended(@, b)]
    BY <1>9 DEF AppendOk
  <2>2. Appended(active[n], b) \in File
    BY AppendedType DEF TypeOK
  <2> QED
    BY <1>9, <2>1, <2>2 DEF AppendOk, TypeOK
<1>10. ASSUME NEW n \in Nodes, AppendFail(n) PROVE TypeOK'
  <2>1. active' \in [Nodes -> File]
    <3>1. PICK b \in pending[n] :
            \/ active' = [active EXCEPT ![n].exists = TRUE]
            \/ active' = [active EXCEPT ![n] = Appended(@, b)]
            \/ active' = [active EXCEPT ![n].exists = TRUE, ![n].torn = TRUE]
      BY <1>10 DEF AppendFail
    <3>2. Appended(active[n], b) \in File
      BY AppendedType DEF TypeOK
    <3>3. active[n] \in File /\ active \in [Nodes -> File]
      BY DEF TypeOK
    <3>4. [active[n] EXCEPT !.exists = TRUE] \in File
      BY <3>3 DEF File
    <3>5. [active[n] EXCEPT !.exists = TRUE, !.torn = TRUE] \in File
      BY <3>3 DEF File
    <3>6. CASE active' = [active EXCEPT ![n].exists = TRUE]
      BY <3>3, <3>4, <3>6
    <3>7. CASE active' = [active EXCEPT ![n] = Appended(@, b)]
      BY <3>2, <3>3, <3>7
    <3>8. CASE active' = [active EXCEPT ![n].exists = TRUE, ![n].torn = TRUE]
      BY <3>3, <3>5, <3>8
    <3> QED
      BY <3>1, <3>6, <3>7, <3>8
  <2> QED
    BY <1>10, <2>1 DEF AppendFail, TypeOK
<1>11. ASSUME NEW n \in Nodes, LateExecute(n) PROVE TypeOK'
  <2>1. PICK b \in inflight[n] :
          /\ RunPublish(b)
          /\ inflight' = [inflight EXCEPT ![n] = @ \ {b}]
    BY <1>11 DEF LateExecute
  <2>2. b \in Batch
    BY DEF TypeOK
  <2> QED
    BY <1>11, <2>1, <2>2, RunPublishType DEF LateExecute, TypeOK
<1>12. ASSUME NEW n \in Nodes, LateDrop(n) PROVE TypeOK'
  BY <1>12 DEF LateDrop, TypeOK
<1>13. ASSUME NEW n \in Nodes, ReplayBegin(n) PROVE TypeOK'
  <2>1. active' \in [Nodes -> File]
    <3>1. active' = active \/ active' = [active EXCEPT ![n] = NoFile]
      BY <1>13 DEF ReplayBegin
    <3>2. active \in [Nodes -> File] /\ NoFile \in File
      BY NoFileType DEF TypeOK
    <3> QED
      BY <3>1, <3>2
  <2>2. rotated' \in [Nodes -> File]
    BY <1>13 DEF ReplayBegin, TypeOK
  <2>3. offset' \in [Nodes -> Nat]
    BY <1>13 DEF ReplayBegin, TypeOK
  <2>4. position' \in [Nodes -> Nat]
    BY <1>13 DEF ReplayBegin, TypeOK
  <2>5. /\ stage' \in [Nodes -> {"idle", "lines", "offset", "cleanup"}]
        /\ spooling' \in [Nodes -> BOOLEAN]
    BY <1>13 DEF ReplayBegin, TypeOK
  <2> QED
    BY <1>13, <2>1, <2>2, <2>3, <2>4, <2>5 DEF ReplayBegin, TypeOK
<1>14. ASSUME NEW n \in Nodes, ReplayLineOk(n) PROVE TypeOK'
  <2>1. NextLine(n) \in Batch
    BY <1>14, NextLineType DEF ReplayLineOk
  <2>2. NextLine(n).producer \in Producers
    BY <2>1 DEF Batch
  <2>3. RunPublish(NextLine(n))
    BY <1>14 DEF ReplayLineOk
  <2>4. /\ log' \in SUBSET Entry
        /\ lastId' \in Nat
        /\ low' \in Nat
        /\ marker' \in [Producers -> Nat]
    BY <2>1, <2>3, RunPublishType
  <2>5. retired' \in [Nodes -> SUBSET Producers] /\ position' \in [Nodes -> Nat]
    BY <1>14, <2>2 DEF ReplayLineOk, Track, TypeOK
  <2> QED
    BY <1>14, <2>4, <2>5 DEF ReplayLineOk, TypeOK
<1>15. ASSUME NEW n \in Nodes, ReplayLineFail(n) PROVE TypeOK'
  <2>1. NextLine(n) \in Batch
    BY <1>15, NextLineType DEF ReplayLineFail
  <2>2. NextLine(n).producer \in Producers
    BY <2>1 DEF Batch
  <2> QED
    BY <1>15, <2>1, <2>2 DEF ReplayLineFail, Track, EndPass, TypeOK
<1>16. ASSUME NEW n \in Nodes, ReplayPause(n) PROVE TypeOK'
  BY <1>16 DEF ReplayPause, EndPass, TypeOK
<1>17. ASSUME NEW n \in Nodes, ReplayRemoveFile(n) PROVE TypeOK'
  BY <1>17, NoFileType DEF ReplayRemoveFile, TypeOK
<1>18. ASSUME NEW n \in Nodes, ReplayRemoveOffset(n) PROVE TypeOK'
  <2>1. offset' \in [Nodes -> Nat]
    BY <1>18 DEF ReplayRemoveOffset, TypeOK
  <2>2. stage' \in [Nodes -> {"idle", "lines", "offset", "cleanup"}]
    BY <1>18 DEF ReplayRemoveOffset, TypeOK
  <2> QED
    BY <1>18, <2>1, <2>2 DEF ReplayRemoveOffset, TypeOK
<1>19. ASSUME NEW n \in Nodes, ReplayCleanup(n) PROVE TypeOK'
  <2>1. /\ log' \in SUBSET Entry /\ lastId' \in Nat /\ low' \in Nat
        /\ marker' \in [Producers -> Nat]
        /\ retired' \in [Nodes -> SUBSET Producers]
    BY <1>19, DeleteMarkersType DEF ReplayCleanup, TypeOK
  <2>2. /\ stage' \in [Nodes -> {"idle", "lines", "offset", "cleanup"}]
        /\ spooling' \in [Nodes -> BOOLEAN]
    BY <1>19 DEF ReplayCleanup, TypeOK
  <2> QED
    BY <1>19, <2>1, <2>2 DEF ReplayCleanup, TypeOK
<1>20. ASSUME NEW n \in Nodes, ConsumeRead(n) PROVE TypeOK'
  BY <1>20 DEF ConsumeRead, Unread, Stream, TypeOK
<1>21. ASSUME NEW n \in Nodes, ConsumeCommit(n) PROVE TypeOK'
  BY <1>21, CommitType DEF ConsumeCommit, TypeOK
<1>22. ASSUME NEW n \in Nodes, ConsumeAbort(n) PROVE TypeOK'
  BY <1>22 DEF ConsumeAbort, TypeOK
<1>23. ASSUME NEW n \in Nodes, ConsumeTrim(n) PROVE TypeOK'
  <2>1. \A e \in fetched[n] : e.id \in Nat
    BY DEF TypeOK, Entry
  <2> QED
    BY <1>23, <2>1 DEF ConsumeTrim, TypeOK
<1>24. ASSUME NEW n \in Nodes, CloseBegin(n) PROVE TypeOK'
  BY <1>24 DEF CloseBegin, TypeOK
<1>25. ASSUME NEW n \in Nodes, CloseQueue(n) PROVE TypeOK'
  BY <1>25 DEF CloseQueue, TypeOK
<1>26. ASSUME NEW n \in Nodes, ProducerDrained(n) PROVE TypeOK'
  BY <1>26 DEF ProducerDrained, TypeOK
<1>27. ASSUME NEW n \in Nodes, ProducerCancelled(n) PROVE TypeOK'
  BY <1>27, EmptySeq DEF ProducerCancelled, TypeOK
<1>28. ASSUME NEW n \in Nodes, CloseFinish(n) PROVE TypeOK'
  <2>1. /\ log' \in SUBSET Entry /\ lastId' \in Nat /\ low' \in Nat
        /\ marker' \in [Producers -> Nat]
        /\ retired' \in [Nodes -> SUBSET Producers]
    BY <1>28, DeleteMarkersType DEF CloseFinish, TypeOK
  <2> QED
    BY <1>28, <2>1, ForgetType DEF CloseFinish, TypeOK
<1>29. ASSUME NEW n \in Nodes, Crash(n) PROVE TypeOK'
  BY <1>29, ForgetType DEF Crash, TypeOK
<1> QED
  BY <1>1, <1>2, <1>3, <1>4, <1>5, <1>6, <1>7, <1>8, <1>9, <1>10, <1>11, <1>12,
     <1>13, <1>14, <1>15, <1>16, <1>17, <1>18, <1>19, <1>20, <1>21, <1>22, <1>23,
     <1>24, <1>25, <1>26, <1>27, <1>28, <1>29
  DEF Next, Produce, Replay, Consume, Close

\* The variables of every component stay in their types.
THEOREM TypeCorrect == Spec => []TypeOK
<1> QED
  BY InitType, NextType, PTL DEF Spec

-----------------------------------------------------------------------------
(***************************************************************************)
(* Closing.  Only a stopped producer is drained: without that a sender     *)
(* could arrive after the drain.                                           *)
(***************************************************************************)

DrainInv ==
  /\ DrainIsComplete
  /\ \A n \in Nodes : drained[n] => mode[n] = "stopped"

LEMMA DrainInit == Init => DrainInv
  BY DEF Init, DrainInv, DrainIsComplete

LEMMA DrainNext == TypeOK /\ DrainInv /\ [Next]_vars => DrainInv'
<1> SUFFICES ASSUME TypeOK, DrainInv, [Next]_vars PROVE DrainInv'
  OBVIOUS
<1> USE DEF DrainInv, DrainIsComplete
<1>1. CASE UNCHANGED <<mode, senders, queue, pending, drained>>
  BY <1>1
<1>2. ASSUME NEW n \in Nodes, Open(n) PROVE DrainInv'
  BY <1>2 DEF Open, TypeOK
<1>3. ASSUME NEW n \in Nodes, NEW i \in Items, EnqueueBegin(n, i) PROVE DrainInv'
  BY <1>3 DEF EnqueueBegin, TypeOK
<1>4. ASSUME NEW n \in Nodes, NEW i \in Items, EnqueueSend(n, i) PROVE DrainInv'
  <2>1. ~drained[n]
    BY <1>4 DEF EnqueueSend
  <2> QED
    BY <1>4, <2>1 DEF EnqueueSend, TypeOK
<1>5. ASSUME NEW n \in Nodes, NEW i \in Items, EnqueueRefuse(n, i) PROVE DrainInv'
  BY <1>5 DEF EnqueueRefuse, TypeOK
<1>6. ASSUME NEW n \in Nodes, Collect(n) PROVE DrainInv'
  <2>1. ~drained[n]
    BY <1>6 DEF Collect, Working
  <2> QED
    BY <1>6, <2>1 DEF Collect, TypeOK
<1>7. ASSUME NEW n \in Nodes, PublishOk(n) \/ AppendOk(n) PROVE DrainInv'
  <2>1. /\ pending' = [pending EXCEPT ![n] = {}]
        /\ UNCHANGED <<mode, senders, queue, drained>>
    BY <1>7 DEF PublishOk, AppendOk
  <2> QED
    BY <2>1 DEF TypeOK
<1>8. ASSUME NEW n \in Nodes, CloseBegin(n) PROVE DrainInv'
  BY <1>8 DEF CloseBegin, TypeOK
<1>9. ASSUME NEW n \in Nodes, CloseQueue(n) PROVE DrainInv'
  BY <1>9 DEF CloseQueue, TypeOK
<1>10. ASSUME NEW n \in Nodes, ProducerDrained(n) PROVE DrainInv'
  BY <1>10 DEF ProducerDrained, TypeOK
<1>11. ASSUME NEW n \in Nodes, ProducerCancelled(n) PROVE DrainInv'
  BY <1>11 DEF ProducerCancelled, TypeOK
<1>12. ASSUME NEW n \in Nodes, Forget(n) PROVE DrainInv'
  BY <1>12 DEF Forget, TypeOK
<1>13. ASSUME NEW n \in Nodes,
              \/ PublishFail(n) \/ AppendFail(n) \/ LateExecute(n) \/ LateDrop(n)
              \/ Replay(n) \/ Consume(n)
       PROVE  UNCHANGED <<mode, senders, queue, pending, drained>>
  <2>1. CASE PublishFail(n) \/ AppendFail(n) \/ LateExecute(n) \/ LateDrop(n)
    BY <2>1 DEF PublishFail, AppendFail, LateExecute, LateDrop
  <2>2. CASE Replay(n)
    BY <2>2 DEF Replay, ReplayBegin, ReplayLineOk, ReplayLineFail, ReplayPause,
       ReplayRemoveFile, ReplayRemoveOffset, ReplayCleanup
  <2>3. CASE Consume(n)
    BY <2>3 DEF Consume, ConsumeRead, ConsumeCommit, ConsumeAbort, ConsumeTrim
  <2> QED
    BY <1>13, <2>1, <2>2, <2>3
<1>14. CASE UNCHANGED vars
  BY <1>1, <1>14 DEF vars
<1> QED
  BY <1>1, <1>2, <1>3, <1>4, <1>5, <1>6, <1>7, <1>8, <1>9, <1>10, <1>11, <1>12,
     <1>13, <1>14
  DEF Next, Produce, Close, CloseFinish, Crash

\* Close: nobody sends on the closed queue, and what a drained producer leaves
\* behind is empty, however senders, the drain and its deadline interleave.
THEOREM DrainCorrect == Spec => []DrainIsComplete
<1>1. DrainInv => DrainIsComplete
  BY DEF DrainInv
<1> QED
  BY DrainInit, DrainNext, TypeCorrect, <1>1, PTL DEF Spec

-----------------------------------------------------------------------------
(***************************************************************************)
(* Trimming.  A consumer that has committed holds only entries up to the   *)
(* cursor, which never moves back: so does the trim, however late.         *)
(***************************************************************************)

TrimInv ==
  /\ low <= cursor
  /\ \A n \in Nodes : committed[n] => /\ fetched[n] # {}
                                     /\ \A e \in fetched[n] : e.id <= cursor

LEMMA TrimInit == Init => TrimInv
  BY DEF Init, TrimInv

\* A transaction moves the cursor forward, past everything it held.
LEMMA CommitAdvances ==
  ASSUME TypeOK, NEW n \in Nodes, Commit(n)
  PROVE  /\ cursor' \in Nat
         /\ cursor <= cursor'
         /\ \A e \in fetched[n] : e.id <= cursor'
<1>1. \A e \in fetched[n] : e.id \in Nat
  BY DEF TypeOK, Entry
<1>2. cursor \in Nat
  BY DEF TypeOK
<1>3. CASE New(n) = {} /\ UNCHANGED cursor
  BY <1>1, <1>2, <1>3 DEF New
<1>4. ASSUME NEW last \in New(n), \A e \in New(n) : e.id <= last.id, cursor' = last.id
      PROVE  /\ cursor' \in Nat
             /\ cursor <= cursor'
             /\ \A e \in fetched[n] : e.id <= cursor'
  BY <1>1, <1>2, <1>4 DEF New
<1> QED
  BY <1>3, <1>4 DEF Commit

LEMMA TrimNext == TypeOK /\ TrimInv /\ [Next]_vars => TrimInv'
<1> SUFFICES ASSUME TypeOK, TrimInv, [Next]_vars PROVE TrimInv'
  OBVIOUS
<1>0. /\ low \in Nat /\ cursor \in Nat
      /\ \A n \in Nodes : \A e \in fetched[n] : e.id \in Nat
      /\ fetched \in [Nodes -> SUBSET Entry]
      /\ committed \in [Nodes -> BOOLEAN]
  BY DEF TypeOK, Entry
<1>1. CASE UNCHANGED <<fetched, committed, low, cursor>>
  BY <1>1 DEF TrimInv
<1>2. ASSUME NEW n \in Nodes, ConsumeRead(n) PROVE TrimInv'
  BY <1>0, <1>2 DEF ConsumeRead, TrimInv
<1>3. ASSUME NEW n \in Nodes, ConsumeCommit(n) PROVE TrimInv'
  <2>1. /\ cursor' \in Nat
        /\ cursor <= cursor'
        /\ \A e \in fetched[n] : e.id <= cursor'
    BY <1>3, CommitAdvances DEF ConsumeCommit
  <2>2. low' <= cursor'
    BY <1>0, <1>3, <2>1 DEF ConsumeCommit, TrimInv
  <2>3. ASSUME NEW m \in Nodes, committed'[m]
        PROVE  fetched'[m] # {} /\ \A e \in fetched'[m] : e.id <= cursor'
    BY <1>0, <1>3, <2>1, <2>3 DEF ConsumeCommit, TrimInv
  <2> QED
    BY <2>2, <2>3 DEF TrimInv
<1>4. ASSUME NEW n \in Nodes, ConsumeAbort(n) PROVE TrimInv'
  BY <1>0, <1>4 DEF ConsumeAbort, TrimInv
<1>5. ASSUME NEW n \in Nodes, ConsumeTrim(n) PROVE TrimInv'
  BY <1>0, <1>5 DEF ConsumeTrim, TrimInv
<1>6. ASSUME NEW n \in Nodes, NEW b, RunPublish(b) PROVE UNCHANGED low
  BY <1>6 DEF RunPublish
<1>7. ASSUME NEW n \in Nodes, Forget(n), UNCHANGED <<low, cursor>> PROVE TrimInv'
  BY <1>0, <1>7 DEF Forget, TrimInv
<1>8. ASSUME NEW n \in Nodes, NEW ids, DeleteMarkers(n, ids) PROVE UNCHANGED low
  BY <1>8 DEF DeleteMarkers
<1>9. ASSUME NEW n \in Nodes,
             \/ Open(n)
             \/ \E i \in Items : EnqueueBegin(n, i) \/ EnqueueSend(n, i) \/ EnqueueRefuse(n, i)
             \/ Produce(n) \/ LateExecute(n) \/ LateDrop(n)
      PROVE  UNCHANGED <<fetched, committed, low, cursor>>
  <2>1. CASE Produce(n)
    BY <1>6, <2>1 DEF Produce, Collect, PublishOk, PublishFail, AppendOk, AppendFail
  <2>2. CASE LateExecute(n) \/ LateDrop(n)
    BY <1>6, <2>2 DEF LateExecute, LateDrop
  <2> QED
    BY <1>9, <2>1, <2>2 DEF Open, EnqueueBegin, EnqueueSend, EnqueueRefuse
<1>10. ASSUME NEW n \in Nodes, Replay(n)
       PROVE  UNCHANGED <<fetched, committed, low, cursor>>
  BY <1>6, <1>8, <1>10 DEF Replay, ReplayBegin, ReplayLineOk, ReplayLineFail,
     ReplayPause, ReplayRemoveFile, ReplayRemoveOffset, ReplayCleanup
<1>11. ASSUME NEW n \in Nodes, CloseBegin(n) \/ Close(n) \/ Crash(n)
       PROVE  \/ UNCHANGED <<fetched, committed, low, cursor>>
              \/ Forget(n) /\ UNCHANGED <<low, cursor>>
  BY <1>8, <1>11 DEF CloseBegin, Close, CloseQueue, ProducerDrained,
     ProducerCancelled, CloseFinish, Crash
<1>12. CASE UNCHANGED vars
  BY <1>1, <1>12 DEF vars
<1> QED
  BY <1>1, <1>2, <1>3, <1>4, <1>5, <1>7, <1>9, <1>10, <1>11, <1>12 DEF Next, Consume

\* Trimming, by whichever consumer and however long after its transaction, removes
\* only entries whose records are in the tables.
THEOREM TrimCorrect == Spec => []TrimKeepsUnread
<1>1. TypeOK /\ TrimInv => TrimKeepsUnread
  BY DEF TypeOK, Entry, TrimInv, TrimKeepsUnread
<1> QED
  BY TrimInit, TrimNext, TypeCorrect, <1>1, PTL DEF Spec

-----------------------------------------------------------------------------
(***************************************************************************)
(* The marker.  A batch that may still be sent is in a producer's hands,   *)
(* in a spool or in a command on its way; what may be sent next is always  *)
(* the first of its producer that Redis has not got.                       *)
(***************************************************************************)

\* The producers whose batches a volume may hold.
Foreign(n) == {LegacyLines[n][k].producer : k \in DOMAIN LegacyLines[n]}

Own(n) == {n} \cup Foreign(n)

Unsent(b) == marker[b.producer] < b.seq

\* Nothing of its producer that may still be sent comes before b.
Foremost(n, b) ==
  \A c \in Copies(n) : c.producer = b.producer /\ Unsent(c) => b.seq <= c.seq

Absent(file) == ~file.exists => file.lines = <<>>

\* What was in memory is gone with the process.
Resting(n) ==
  ~Running(n) => pending[n] = {} /\ queue[n] = <<>> /\ senders[n] = {} /\ stage[n] = "idle"

Numbered(n) ==
  /\ \A b \in pending[n] : b.producer = n /\ b.seq = sequence[n]
  /\ Running(n) => /\ marker[n] <= sequence[n]
                   /\ \A b \in Copies(n) : b.producer = n => b.seq <= sequence[n]

OneNumber(n) ==
  \A b, c \in Copies(n) : b.producer = c.producer /\ b.seq = c.seq => b = c

InOrder(lines) ==
  \A j, k \in DOMAIN lines :
    j <= k /\ lines[j].producer = lines[k].producer => lines[j].seq <= lines[k].seq

Sorted(n) ==
  /\ InOrder(rotated[n].lines) /\ InOrder(active[n].lines)
  /\ \A b \in Entries(rotated[n].lines), c \in Entries(active[n].lines) :
       b.producer = c.producer => b.seq <= c.seq

\* The replay has sent what it has passed, and passes no line that does not decode.
PassedSent(n) ==
  \A k \in DOMAIN rotated[n].lines :
    k <= offset[n] \/ (stage[n] = "lines" /\ k <= position[n]) =>
      rotated[n].lines[k] # Garbled /\ ~Unsent(rotated[n].lines[k])

\* A producer that does not spool has nothing in its spool.
SpoolFirst(n) == Running(n) /\ ~spooling[n] => SpoolEmpty(n)

\* No line before the g-th is of a later batch than b.
NoneLater(lines, g, b) ==
  \A j \in DOMAIN lines : j < g /\ lines[j].producer = b.producer => lines[j].seq <= b.seq

\* The line of b went into a torn one: the replay will not get past it.
Swallowed(n, b) ==
  \/ \E g \in DOMAIN rotated[n].lines :
       rotated[n].lines[g] = Garbled /\ NoneLater(rotated[n].lines, g, b)
  \/ /\ \E g \in DOMAIN active[n].lines :
          active[n].lines[g] = Garbled /\ NoneLater(active[n].lines, g, b)
     /\ \A c \in Entries(rotated[n].lines) : c.producer = b.producer => c.seq <= b.seq

\* A command on its way may run at any moment, so its batch is the next one; its
\* producer still has it, unless it was told to give up or the disk garbled it.
LateFirst(n) ==
  \A b \in inflight[n] :
    Unsent(b) =>
      /\ Foremost(n, b)
      /\ Running(n) => \/ b \in pending[n] \cup SpoolLines(n)
                       \/ mode[n] = "stopped" /\ b.producer = n /\ b.seq = sequence[n]
                       \/ Swallowed(n, b)

Exact(n) == \A b \in Copies(n) : Published(b) <=> ~Unsent(b)

Owned(n) == (\A b \in Copies(n) : b.producer \in Own(n)) /\ retired[n] \subseteq Foreign(n)

NodeInv(n) ==
  /\ Absent(active[n]) /\ Absent(rotated[n])
  /\ Resting(n) /\ Owned(n) /\ Numbered(n) /\ OneNumber(n) /\ Sorted(n)
  /\ PassedSent(n) /\ SpoolFirst(n) /\ LateFirst(n) /\ Exact(n)

\* Nothing that concerns m has changed.
Still(m) ==
  /\ mode'[m] = mode[m] /\ senders'[m] = senders[m] /\ queue'[m] = queue[m]
  /\ pending'[m] = pending[m] /\ sequence'[m] = sequence[m] /\ spooling'[m] = spooling[m]
  /\ stage'[m] = stage[m] /\ position'[m] = position[m]
  /\ active'[m] = active[m] /\ rotated'[m] = rotated[m] /\ offset'[m] = offset[m]
  /\ retired'[m] = retired[m] /\ inflight'[m] = inflight[m]
  /\ \A p \in Own(m) : marker'[p] = marker[p]
  /\ \A c : c.producer \in Own(m) => (Published(c)' <=> Published(c))

LEMMA StillKeeps ==
  ASSUME NEW m \in Nodes, NodeInv(m), Still(m)
  PROVE  NodeInv(m)' /\ Copies(m)' = Copies(m)
<1>1. /\ SpoolLines(m)' = SpoolLines(m) /\ Copies(m)' = Copies(m) /\ (Running(m)' <=> Running(m))
      /\ Copies(m) = pending[m] \cup (SpoolLines(m) \ {Garbled}) \cup inflight[m]
  BY DEF Still, SpoolLines, Copies, Running
<1>2. /\ \A c \in Copies(m) : c.producer \in Own(m)
      /\ \A k \in DOMAIN rotated[m].lines :
           rotated[m].lines[k] # Garbled => rotated[m].lines[k] \in Copies(m)
  BY DEF NodeInv, Owned, Copies, SpoolLines, Entries
<1>3. \A c \in Copies(m) : /\ Unsent(c)' <=> Unsent(c)
                           /\ Published(c)' <=> Published(c)
  BY <1>2 DEF Still, Unsent
<1>4. /\ Absent(active[m])' /\ Absent(rotated[m])' /\ Resting(m)' /\ Owned(m)'
  BY <1>1 DEF NodeInv, Still, Absent, Resting, Owned
<1>5. Numbered(m)' /\ OneNumber(m)'
  BY <1>1 DEF NodeInv, Still, Numbered, OneNumber, Own
<1>6. Sorted(m)' /\ SpoolFirst(m)'
  BY <1>1 DEF NodeInv, Still, Sorted, InOrder, SpoolFirst, SpoolEmpty
<1>7. PassedSent(m)'
  <2>1. ASSUME NEW k \in DOMAIN rotated[m].lines,
               k <= offset[m] \/ (stage[m] = "lines" /\ k <= position[m])
        PROVE  rotated[m].lines[k] # Garbled /\ ~Unsent(rotated[m].lines[k])'
    <3>1. rotated[m].lines[k] # Garbled /\ ~Unsent(rotated[m].lines[k])
      BY <2>1 DEF NodeInv, PassedSent
    <3> QED BY <1>2, <1>3, <3>1 DEF Still, Unsent
  <2> QED BY <2>1 DEF Still, PassedSent
<1>8. LateFirst(m)'
  <2>1. ASSUME NEW b \in inflight[m], Unsent(b)'
        PROVE  /\ \A c \in Copies(m)' : c.producer = b.producer /\ Unsent(c)' => b.seq <= c.seq
               /\ Running(m)' => \/ b \in pending'[m] \cup SpoolLines(m)'
                                 \/ mode'[m] = "stopped" /\ b.producer = m /\ b.seq = sequence'[m]
                                 \/ Swallowed(m, b)'
    <3>1. b \in Copies(m) /\ Unsent(b)
      BY <1>3, <2>1 DEF Copies
    <3>2. Swallowed(m, b) => Swallowed(m, b)'
      BY DEF Still, Swallowed, NoneLater
    <3>3. \A c \in Copies(m) : c.producer = b.producer /\ Unsent(c)' => b.seq <= c.seq
      BY <1>3, <3>1 DEF NodeInv, LateFirst, Foremost
    <3>4. Copies(m)' = Copies(m) /\ SpoolLines(m)' = SpoolLines(m)
      BY <1>1
    <3>5. Running(m)' => \/ b \in pending'[m] \cup SpoolLines(m)'
                         \/ mode'[m] = "stopped" /\ b.producer = m /\ b.seq = sequence'[m]
                         \/ Swallowed(m, b)'
      BY <1>1, <3>1, <3>2, <3>4 DEF NodeInv, Still, LateFirst, Running
    <3> QED BY <3>3, <3>4, <3>5
  <2> QED BY <1>1, <2>1 DEF LateFirst, Foremost, Still
<1>9. Exact(m)'
  <2>1. \A c \in Copies(m) : Published(c)' <=> ~Unsent(c)'
    BY <1>3 DEF NodeInv, Exact
  <2>2. Copies(m)' = Copies(m)
    BY <1>1
  <2> QED BY <2>1, <2>2 DEF Exact
<1> QED BY <1>1, <1>4, <1>5, <1>6, <1>7, <1>8, <1>9 DEF NodeInv

LEMMA Apart ==
  ASSUME NEW n \in Nodes
  PROVE  /\ Foreign(n) \subseteq Legacy /\ n \notin Foreign(n) /\ Own(n) \subseteq Producers
         /\ \A m \in Nodes : m # n => Own(m) \cap Own(n) = {}
<1>1. \A m \in Nodes : Foreign(m) \subseteq Legacy
  <2>1. ASSUME NEW m \in Nodes, NEW k \in DOMAIN LegacyLines[m]
        PROVE  LegacyLines[m][k].producer \in Legacy
    <3>1. LegacyLines[m] \in Seq([producer: Legacy, seq: Nat \ {0}, items: SUBSET Items])
      BY LegacyAssumption
    <3>2. k \in 1..Len(LegacyLines[m])
      BY <3>1, LenProperties
    <3>3. LegacyLines[m][k] \in [producer: Legacy, seq: Nat \ {0}, items: SUBSET Items]
      BY <3>1, <3>2, ElementOfSeq
    <3> QED BY <3>3
  <2> QED BY <2>1 DEF Foreign
<1>2. ASSUME NEW m \in Nodes, m # n PROVE Foreign(m) \cap Foreign(n) = {}
  BY <1>2, LegacyAssumption DEF Foreign
<1> QED BY <1>1, <1>2, IdentityAssumption DEF Own, Producers

LEMMA CopiesType ==
  ASSUME TypeOK, NEW n \in Nodes
  PROVE  /\ Copies(n) \subseteq Batch
         /\ \A b \in Copies(n) : b.producer \in Producers /\ b.seq \in Nat /\ b.seq > 0
                               /\ marker[b.producer] \in Nat
         /\ \A k \in DOMAIN rotated[n].lines : rotated[n].lines[k] \in Copies(n) \cup {Garbled}
         /\ \A k \in DOMAIN active[n].lines : active[n].lines[k] \in Copies(n) \cup {Garbled}
         /\ DOMAIN rotated[n].lines = 1..Len(rotated[n].lines) /\ Len(rotated[n].lines) \in Nat
         /\ DOMAIN active[n].lines = 1..Len(active[n].lines) /\ Len(active[n].lines) \in Nat
<1>1. active[n].lines \in Seq(Line) /\ rotated[n].lines \in Seq(Line)
  BY DEF TypeOK, File
<1>2. SpoolLines(n) \ {Garbled} \subseteq Batch
  BY <1>1 DEF SpoolLines, Entries, Line
<1>3. Copies(n) \subseteq Batch
  BY <1>2 DEF Copies, TypeOK
<1>4. \A b \in Batch : b.producer \in Producers /\ b.seq \in Nat /\ b.seq > 0
  BY DEF Batch
<1>5. \A p \in Producers : marker[p] \in Nat
  BY DEF TypeOK
<1>6. /\ \A k \in DOMAIN rotated[n].lines : rotated[n].lines[k] \in Copies(n) \cup {Garbled}
      /\ \A k \in DOMAIN active[n].lines : active[n].lines[k] \in Copies(n) \cup {Garbled}
  BY DEF Copies, SpoolLines, Entries
<1> QED BY <1>1, <1>3, <1>4, <1>5, <1>6, LenProperties

\* What is held is what was held, or less, and the markers have not moved back.
SentMore(n) ==
  /\ Copies(n)' \subseteq Copies(n)
  /\ \A c \in Copies(n)' : c.producer \in Own(n)
  /\ OneNumber(n)' /\ Exact(n)'
  /\ \A c \in Copies(n) : c \in Copies(n)' /\ Unsent(c)' => Unsent(c)
  /\ \A c \in Copies(n)' : Foremost(n, c) => Foremost(n, c)'

\* Fewer may be sent, and nothing was.
LEMMA FewerCopies ==
  ASSUME NEW n \in Nodes, NodeInv(n), Copies(n)' \subseteq Copies(n),
         \A c \in Copies(n)' : marker'[c.producer] = marker[c.producer],
         \A c \in Copies(n)' : Published(c)' <=> Published(c)
  PROVE  SentMore(n)
<1>1. \A b \in Copies(n)' : Unsent(b)' <=> Unsent(b)
  BY DEF Unsent
<1>2. \A b \in Copies(n)' : Foremost(n, b) => Foremost(n, b)'
  BY <1>1 DEF Foremost
<1> QED BY <1>1, <1>2 DEF SentMore, NodeInv, Owned, OneNumber, Exact

\* The script runs for b, the next of its producer if it is not yet in the stream.
LEMMA Publishing ==
  ASSUME TypeOK, NEW n \in Nodes, NodeInv(n), NEW b \in Copies(n), Unsent(b) => Foremost(n, b),
         RunPublish(b), Copies(n)' \subseteq Copies(n)
  PROVE  /\ SentMore(n)
         /\ ~Unsent(b)'
         /\ \A c \in Copies(n) : Unsent(c)' => Unsent(c)
         /\ marker'[n] = marker[n] \/ (b.producer = n /\ marker'[n] = b.seq)
         /\ \A m \in Nodes \ {n} :
              /\ \A p \in Own(m) : marker'[p] = marker[p]
              /\ \A c : c.producer \in Own(m) => (Published(c)' <=> Published(c))
         /\ \/ log' = log /\ lastId' = lastId
            \/ /\ ~Published(b) /\ lastId' = lastId + 1
               /\ log' = log \cup {[id |-> lastId + 1, batch |-> b]}
         /\ low' = low
<1>1. /\ b.producer \in Own(n) /\ b.producer \in Producers /\ b.seq \in Nat
      /\ \A c \in Copies(n) : c.producer \in Producers /\ c.seq \in Nat /\ marker[c.producer] \in Nat
      /\ \A c \in Copies(n) : c.producer \in Own(n) /\ (Published(c) <=> ~Unsent(c))
      /\ \A c, d \in Copies(n) : c.producer = d.producer /\ c.seq = d.seq => c = d
  BY CopiesType DEF NodeInv, Owned, Exact, OneNumber
<1>2. CASE ~Unsent(b)
  <2>1. UNCHANGED redis
    BY <1>1, <1>2 DEF RunPublish, Unsent
  <2>2. /\ \A c \in Copies(n)' : marker'[c.producer] = marker[c.producer]
        /\ \A c : Published(c)' <=> Published(c)
        /\ ~Unsent(b)' /\ \A c \in Copies(n) : Unsent(c)' => Unsent(c)
    BY <1>2, <2>1 DEF Published, Unsent
  <2>3. SentMore(n)
    BY <2>2, FewerCopies
  <2> QED BY <2>1, <2>2, <2>3
<1>3. CASE Unsent(b)
  <2>1. /\ lastId' = lastId + 1 /\ log' = log \cup {[id |-> lastId + 1, batch |-> b]} /\ low' = low
        /\ marker' = [marker EXCEPT ![b.producer] = b.seq]
    BY <1>1, <1>3 DEF RunPublish, Unsent
  <2>2. \A p \in Producers : marker'[p] = IF p = b.producer THEN b.seq ELSE marker[p]
    BY <1>1, <2>1 DEF TypeOK
  <2>3. ASSUME NEW c PROVE Published(c)' <=> (Published(c) \/ c = b)
    <3> DEFINE e0 == [id |-> lastId + 1, batch |-> b]
    <3>1. log' = log \cup {e0} /\ e0.batch = b
      BY <2>1
    <3> HIDE DEF e0
    <3> QED BY <3>1 DEF Published
  <2>4. ~Published(b) /\ marker[b.producer] < b.seq
    BY <1>1, <1>3 DEF Unsent
  <2>5. ASSUME NEW c \in Copies(n)
        PROVE  /\ Unsent(c)' => Unsent(c)
               /\ (Published(c)' <=> ~Unsent(c)')
               /\ (c = b => ~Unsent(c)')
    <3>1. Unsent(c)' <=> IF c.producer = b.producer THEN b.seq < c.seq ELSE marker[c.producer] < c.seq
      BY <1>1, <2>2 DEF Unsent
    <3>2. c.producer = b.producer /\ Unsent(c) => b.seq <= c.seq
      BY <1>3 DEF Foremost
    <3>3. Unsent(c) <=> marker[c.producer] < c.seq
      BY DEF Unsent
    <3> QED BY <1>1, <2>3, <2>4, <3>1, <3>2, <3>3
  <2>6. \A c \in Copies(n)' : Foremost(n, c) => Foremost(n, c)'
    BY <2>5 DEF Foremost
  <2>7. OneNumber(n)' /\ Exact(n)' /\ \A c \in Copies(n)' : c.producer \in Own(n)
    BY <1>1, <2>5 DEF OneNumber, Exact
  <2>10. SentMore(n)
    BY <2>5, <2>6, <2>7 DEF SentMore
  <2>8. ASSUME NEW m \in Nodes \ {n}
        PROVE  /\ \A p \in Own(m) : marker'[p] = marker[p]
               /\ \A c : c.producer \in Own(m) => (Published(c)' <=> Published(c))
    <3>1. b.producer \notin Own(m) /\ Own(m) \subseteq Producers
      BY <1>1, Apart
    <3> QED BY <2>2, <2>3, <3>1
  <2>9. marker'[n] = marker[n] \/ (b.producer = n /\ marker'[n] = b.seq)
    BY <2>2 DEF Producers
  <2> QED BY <2>1, <2>4, <2>5, <2>8, <2>9, <2>10
<1> QED BY <1>2, <1>3

\* Of what may be sent, a pending batch comes last and, when nothing is spooled, first.
LEMMA PendingForemost ==
  ASSUME TypeOK, NEW n \in Nodes, NodeInv(n), ~spooling[n], NEW b \in pending[n]
  PROVE  Foremost(n, b) /\ Running(n) /\ SpoolLines(n) = {} /\ pending[n] = {b}
<1>1. Running(n)
  BY DEF NodeInv, Resting
<1>2. SpoolLines(n) = {}
  BY <1>1 DEF NodeInv, SpoolFirst, SpoolEmpty, Absent, SpoolLines, Entries
<1>3. \A c \in pending[n] : c.producer = n /\ c.seq = sequence[n]
  BY DEF NodeInv, Numbered
<1>4. pending[n] = {b}
  BY <1>3 DEF NodeInv, OneNumber, Copies
<1>5. ASSUME NEW c \in Copies(n), c.producer = b.producer, Unsent(c) PROVE b.seq <= c.seq
  <2>1. b.seq \in Nat
    BY CopiesType DEF NodeInv, Copies
  <2>2. CASE c \in inflight[n]
    <3>1. ~Swallowed(n, c)
      BY <1>2 DEF Swallowed, SpoolLines, Entries
    <3> QED BY <1>1, <1>2, <1>3, <1>5, <2>1, <2>2, <3>1 DEF NodeInv, LateFirst
  <2>3. CASE c \in pending[n]
    BY <1>3, <2>1, <2>3
  <2> QED BY <1>2, <2>2, <2>3 DEF Copies
<1> QED BY <1>1, <1>2, <1>4, <1>5 DEF Foremost

\* And so does the next line of a replay.
LEMMA LineForemost ==
  ASSUME TypeOK, NEW n \in Nodes, NodeInv(n), HasLine(n), NextLine(n) # Garbled
  PROVE  /\ NextLine(n) \in SpoolLines(n) /\ NextLine(n) \in Copies(n)
         /\ Foremost(n, NextLine(n)) /\ Running(n)
         /\ position[n] \in Nat /\ position[n] + 1 \in DOMAIN rotated[n].lines
         /\ NextLine(n) = rotated[n].lines[position[n] + 1]
<1> DEFINE b == NextLine(n)
<1>1. /\ position[n] \in Nat /\ stage[n] = "lines" /\ position[n] < Len(rotated[n].lines)
  BY DEF HasLine, TypeOK, NodeInv
<1>2. position[n] + 1 \in DOMAIN rotated[n].lines /\ b = rotated[n].lines[position[n] + 1]
  BY <1>1, CopiesType DEF NextLine
<1>3. b \in Entries(rotated[n].lines) /\ b \in SpoolLines(n) /\ b \in Copies(n)
  BY <1>2 DEF Entries, SpoolLines, Copies
<1>4. Running(n)
  BY <1>1 DEF NodeInv, Resting
<1>5. \A c \in Copies(n) : c.seq \in Nat
  BY <1>1, CopiesType
<1> HIDE DEF b
<1>6. ASSUME NEW c \in Copies(n), c.producer = b.producer, Unsent(c) PROVE b.seq <= c.seq
  <2>1. CASE c \in Entries(rotated[n].lines)
    <3>1. PICK k \in DOMAIN rotated[n].lines : c = rotated[n].lines[k]
      BY <2>1 DEF Entries
    <3>2. ~(k <= position[n])
      BY <1>1, <1>6, <3>1 DEF NodeInv, PassedSent
    <3>3. position[n] + 1 <= k
      BY <1>1, <3>1, <3>2, CopiesType
    <3> QED BY <1>2, <1>6, <3>1, <3>3 DEF NodeInv, Sorted, InOrder
  <2>2. CASE c \in Entries(active[n].lines)
    BY <1>3, <1>6, <2>2 DEF NodeInv, Sorted
  <2>3. CASE c.producer = n /\ c.seq = sequence[n]
    BY <1>3, <1>4, <1>6, <2>3 DEF NodeInv, Numbered
  <2>4. CASE c \in pending[n]
    BY <2>3, <2>4 DEF NodeInv, Numbered
  <2>5. CASE c \in inflight[n]
    <3>1. \/ c \in pending[n] \cup SpoolLines(n) \/ (c.producer = n /\ c.seq = sequence[n])
          \/ Swallowed(n, c)
      BY <1>4, <1>6, <2>5 DEF NodeInv, LateFirst
    <3>2. CASE Swallowed(n, c)
      <4>1. CASE \A d \in Entries(rotated[n].lines) : d.producer = c.producer => d.seq <= c.seq
        BY <1>3, <1>6, <4>1
      <4>2. ASSUME NEW g \in DOMAIN rotated[n].lines, rotated[n].lines[g] = Garbled,
                   NoneLater(rotated[n].lines, g, c)
            PROVE  b.seq <= c.seq
        <5>1. ~(g <= position[n]) /\ g # position[n] + 1
          BY <1>1, <1>2, <4>2 DEF NodeInv, PassedSent, b
        <5>2. position[n] + 1 < g
          BY <1>1, <5>1, CopiesType
        <5> QED BY <1>2, <1>6, <4>2, <5>2 DEF NoneLater
      <4> QED BY <3>2, <4>1, <4>2 DEF Swallowed
    <3> QED BY <2>1, <2>2, <2>3, <2>4, <3>1, <3>2 DEF SpoolLines
  <2> QED BY <2>1, <2>2, <2>4, <2>5 DEF Copies, SpoolLines
<1> QED BY <1>1, <1>2, <1>3, <1>4, <1>6 DEF b, Foremost

-----------------------------------------------------------------------------
(***************************************************************************)
(* The steps of one gateway.                                               *)
(***************************************************************************)

\* What the stream may gain: a batch that is held and is not in it yet.
Logs(n) ==
  \/ log' = log /\ lastId' = lastId
  \/ \E b \in Copies(n) :
       ~Published(b) /\ lastId' = lastId + 1 /\ log' = log \cup {[id |-> lastId + 1, batch |-> b]}

Fine(n) ==
  /\ NodeInv(n)' /\ \A m \in Nodes \ {n} : Still(m)
  /\ Copies(n)' \subseteq Copies(n) /\ Logs(n)

\* A command on its way in the next state may run then.
MayRun(n) ==
  \A b \in inflight'[n] :
    b \in Copies(n) /\ Unsent(b) /\ Unsent(b)' =>
      /\ Foremost(n, b)
      /\ Running(n)' => \/ b \in pending'[n] \cup SpoolLines(n)'
                        \/ mode'[n] = "stopped" /\ b.producer = n /\ b.seq = sequence'[n]
                        \/ Swallowed(n, b)'

LEMMA MayRunIs ==
  ASSUME NEW n \in Nodes, SentMore(n), MayRun(n)
  PROVE  LateFirst(n)'
<1>1. \A b \in inflight'[n] : b \in Copies(n)' /\ b \in Copies(n)
  BY DEF SentMore, Copies
<1>2. ASSUME NEW b \in inflight'[n], Unsent(b)'
      PROVE  /\ Foremost(n, b)'
             /\ Running(n)' => \/ b \in pending'[n] \cup SpoolLines(n)'
                               \/ mode'[n] = "stopped" /\ b.producer = n /\ b.seq = sequence'[n]
                               \/ Swallowed(n, b)'
  BY <1>1, <1>2 DEF SentMore, MayRun
<1> QED BY <1>2 DEF LateFirst

\* The files stay as they are.
LEMMA FilesStay ==
  ASSUME TypeOK, NEW n \in Nodes, NodeInv(n), SentMore(n), MayRun(n),
         active'[n] = active[n], rotated'[n] = rotated[n],
         pending'[n] \subseteq pending[n], Resting(n)', Running(n)' => Running(n),
         Running(n)' => sequence'[n] = sequence[n] /\ marker'[n] <= sequence[n],
         \/ ~Running(n)' \/ spooling'[n] = spooling[n] \/ spooling'[n] = TRUE \/ SpoolEmpty(n),
         retired'[n] \subseteq Foreign(n), PassedSent(n)'
  PROVE  NodeInv(n)'
<1>1. Absent(active[n])' /\ Absent(rotated[n])' /\ Sorted(n)'
  BY DEF NodeInv, Absent, Sorted, InOrder
<1>2. Owned(n)' /\ OneNumber(n)' /\ Exact(n)'
  BY DEF SentMore, Owned
<1>3. Numbered(n)'
  BY DEF NodeInv, Numbered, SentMore, Resting
<1>4. SpoolFirst(n)'
  BY DEF NodeInv, SpoolFirst, SpoolEmpty
<1> QED BY <1>1, <1>2, <1>3, <1>4, MayRunIs DEF NodeInv

LEMMA PublishOkFine ==
  ASSUME TypeOK, NEW n \in Nodes, NodeInv(n), PublishOk(n)
  PROVE  Fine(n)
<1>1. PICK b \in pending[n] : RunPublish(b)
  BY DEF PublishOk
<1>2. /\ ~spooling[n] /\ pending'[n] = {} /\ UNCHANGED <<mode, senders, queue, sequence, spooling>>
      /\ UNCHANGED <<stage, position, active, rotated, offset, retired, inflight>>
      /\ \A m \in Nodes \ {n} : pending'[m] = pending[m]
  BY DEF PublishOk, TypeOK
<1>3. /\ Foremost(n, b) /\ Running(n) /\ SpoolLines(n) = {} /\ pending[n] = {b} /\ b \in Copies(n)
  BY <1>1, <1>2, PendingForemost DEF Copies
<1>4. SpoolLines(n)' = {} /\ Copies(n)' \subseteq Copies(n)
  BY <1>2, <1>3 DEF SpoolLines, Copies
<1>5. /\ SentMore(n) /\ ~Unsent(b)' /\ \A c \in Copies(n) : Unsent(c)' => Unsent(c)
      /\ marker'[n] = marker[n] \/ (b.producer = n /\ marker'[n] = b.seq)
      /\ \A m \in Nodes \ {n} :
           /\ \A p \in Own(m) : marker'[p] = marker[p]
           /\ \A c : c.producer \in Own(m) => (Published(c)' <=> Published(c))
      /\ Logs(n)
  BY <1>1, <1>3, <1>4, Publishing DEF Logs
<1>6. MayRun(n)
  BY <1>2, <1>3, <1>5 DEF MayRun, NodeInv, LateFirst, Running, Swallowed, NoneLater, SpoolLines
<1>7. PassedSent(n)'
  BY <1>2, <1>5, CopiesType DEF NodeInv, PassedSent
<1>8. Running(n)' => marker'[n] <= sequence[n]
  BY <1>3, <1>5 DEF NodeInv, Numbered, TypeOK
<1>9. NodeInv(n)'
  BY <1>2, <1>5, <1>6, <1>7, <1>8, FilesStay DEF NodeInv, Resting, Running, Owned
<1>10. \A m \in Nodes \ {n} : Still(m)
  BY <1>2, <1>5 DEF Still
<1> QED BY <1>4, <1>5, <1>9, <1>10 DEF Fine

LEMMA LateExecuteFine ==
  ASSUME TypeOK, NEW n \in Nodes, NodeInv(n), LateExecute(n)
  PROVE  Fine(n)
<1>1. PICK b \in inflight[n] : RunPublish(b) /\ inflight' = [inflight EXCEPT ![n] = @ \ {b}]
  BY DEF LateExecute
<1>2. /\ inflight'[n] \subseteq inflight[n]
      /\ UNCHANGED <<mode, senders, queue, pending, sequence, spooling>>
      /\ UNCHANGED <<stage, position, active, rotated, offset, retired>>
      /\ \A m \in Nodes \ {n} : inflight'[m] = inflight[m]
  BY <1>1 DEF LateExecute, TypeOK
<1>3. b \in Copies(n) /\ (Unsent(b) => Foremost(n, b))
  BY DEF Copies, NodeInv, LateFirst
<1>4. SpoolLines(n)' = SpoolLines(n) /\ Copies(n)' \subseteq Copies(n)
  BY <1>2 DEF SpoolLines, Copies
<1>5. /\ SentMore(n) /\ ~Unsent(b)' /\ \A c \in Copies(n) : Unsent(c)' => Unsent(c)
      /\ marker'[n] = marker[n] \/ (b.producer = n /\ marker'[n] = b.seq)
      /\ \A m \in Nodes \ {n} :
           /\ \A p \in Own(m) : marker'[p] = marker[p]
           /\ \A c : c.producer \in Own(m) => (Published(c)' <=> Published(c))
      /\ Logs(n)
  BY <1>1, <1>3, <1>4, Publishing DEF Logs
<1>6. MayRun(n)
  BY <1>2, <1>3, <1>4, <1>5 DEF MayRun, NodeInv, LateFirst, Running, Swallowed, NoneLater
<1>7. PassedSent(n)'
  BY <1>2, <1>5, CopiesType DEF NodeInv, PassedSent
<1>8. Running(n)' => marker'[n] <= sequence[n]
  BY <1>2, <1>3, <1>5 DEF NodeInv, Numbered, Running
<1>9. NodeInv(n)'
  BY <1>2, <1>5, <1>6, <1>7, <1>8, FilesStay DEF NodeInv, Resting, Running, Owned
<1>10. \A m \in Nodes \ {n} : Still(m)
  BY <1>2, <1>5 DEF Still
<1> QED BY <1>4, <1>5, <1>9, <1>10 DEF Fine

LEMMA TrackIs ==
  ASSUME TypeOK, NEW n \in Nodes, NodeInv(n), NEW b \in Copies(n), Track(n, b)
  PROVE  retired'[n] \subseteq Foreign(n) /\ \A m \in Nodes \ {n} : retired'[m] = retired[m]
BY DEF Track, NodeInv, Owned, Own, TypeOK

LEMMA ReplayLineOkFine ==
  ASSUME TypeOK, NEW n \in Nodes, NodeInv(n), ReplayLineOk(n)
  PROVE  Fine(n)
<1>0. HasLine(n) /\ NextLine(n) # Garbled
  BY DEF ReplayLineOk
<1> PICK b \in Copies(n) : b = NextLine(n)
  BY <1>0, LineForemost
<1>1. /\ HasLine(n) /\ Track(n, b) /\ RunPublish(b) /\ position'[n] = position[n] + 1
      /\ UNCHANGED <<mode, senders, queue, pending, sequence, spooling>>
      /\ UNCHANGED <<stage, active, rotated, offset, inflight>>
      /\ \A m \in Nodes \ {n} : position'[m] = position[m]
  BY DEF ReplayLineOk, TypeOK
<1>2. /\ b \in Copies(n) /\ Foremost(n, b) /\ Running(n) /\ position[n] \in Nat
      /\ b = rotated[n].lines[position[n] + 1] /\ b # Garbled
  BY <1>0, <1>1, LineForemost
<1>3. SpoolLines(n)' = SpoolLines(n) /\ Copies(n)' \subseteq Copies(n)
  BY <1>1 DEF SpoolLines, Copies
<1>4. /\ SentMore(n) /\ ~Unsent(b)' /\ \A c \in Copies(n) : Unsent(c)' => Unsent(c)
      /\ marker'[n] = marker[n] \/ (b.producer = n /\ marker'[n] = b.seq)
      /\ \A m \in Nodes \ {n} :
           /\ \A p \in Own(m) : marker'[p] = marker[p]
           /\ \A c : c.producer \in Own(m) => (Published(c)' <=> Published(c))
      /\ Logs(n)
  BY <1>1, <1>2, <1>3, Publishing DEF Logs
<1>5. MayRun(n)
  BY <1>1, <1>2, <1>3, <1>4 DEF MayRun, NodeInv, LateFirst, Running, Swallowed, NoneLater
<1>6. PassedSent(n)'
  <2>1. ASSUME NEW k \in DOMAIN rotated[n].lines,
               k <= offset[n] \/ (stage[n] = "lines" /\ k <= position[n] + 1)
        PROVE  rotated[n].lines[k] # Garbled /\ ~Unsent(rotated[n].lines[k])'
    <3>1. k \in Nat /\ rotated[n].lines[k] \in Copies(n) \cup {Garbled}
      BY CopiesType
    <3>2. CASE k = position[n] + 1
      BY <1>1, <1>2, <1>4, <3>2 DEF Unsent
    <3>3. CASE k # position[n] + 1
      <4>1. k <= offset[n] \/ (stage[n] = "lines" /\ k <= position[n])
        BY <1>2, <2>1, <3>1, <3>3
      <4> QED BY <1>1, <1>4, <3>1, <4>1 DEF NodeInv, PassedSent, Unsent
    <3> QED BY <3>2, <3>3
  <2> QED BY <1>1, <2>1 DEF PassedSent
<1>7. Running(n)' => marker'[n] <= sequence[n]
  BY <1>1, <1>2, <1>4 DEF NodeInv, Numbered, Running
<1>8. NodeInv(n)'
  BY <1>1, <1>2, <1>4, <1>5, <1>6, <1>7, FilesStay, TrackIs DEF NodeInv, Resting, Running, Owned
<1>9. \A m \in Nodes \ {n} : Still(m)
  BY <1>1, <1>2, <1>4, TrackIs DEF Still
<1> QED BY <1>3, <1>4, <1>8, <1>9 DEF Fine

\* Steps that send nothing.
LEMMA Unmoved ==
  ASSUME NEW n \in Nodes, NodeInv(n), log' = log, lastId' = lastId, marker' = marker,
         Copies(n)' \subseteq Copies(n)
  PROVE  /\ SentMore(n) /\ Logs(n) /\ \A c : Unsent(c)' <=> Unsent(c)
         /\ \A m \in Nodes \ {n} :
              /\ \A p \in Own(m) : marker'[p] = marker[p]
              /\ \A c : c.producer \in Own(m) => (Published(c)' <=> Published(c))
BY FewerCopies DEF Published, Unsent, Logs

LEMMA PublishFailFine ==
  ASSUME TypeOK, NEW n \in Nodes, NodeInv(n), PublishFail(n)
  PROVE  Fine(n)
<1>1. /\ ~spooling[n] /\ inflight'[n] = inflight[n] \cup pending[n] /\ spooling'[n] = TRUE
      /\ UNCHANGED <<mode, senders, queue, pending, sequence, log, lastId, marker>>
      /\ UNCHANGED <<stage, position, active, rotated, offset, retired>>
      /\ \A m \in Nodes \ {n} : inflight'[m] = inflight[m] /\ spooling'[m] = spooling[m]
  BY DEF PublishFail, TypeOK
<1>2. SpoolLines(n)' = SpoolLines(n) /\ Copies(n)' = Copies(n)
  BY <1>1 DEF SpoolLines, Copies
<1>3. /\ SentMore(n) /\ Logs(n) /\ \A c : Unsent(c)' <=> Unsent(c)
      /\ \A m \in Nodes \ {n} :
           /\ \A p \in Own(m) : marker'[p] = marker[p]
           /\ \A c : c.producer \in Own(m) => (Published(c)' <=> Published(c))
  BY <1>1, <1>2, Unmoved
<1>4. \A b \in pending[n] : Foremost(n, b)
  BY <1>1, PendingForemost
<1>5. MayRun(n)
  BY <1>1, <1>2, <1>3, <1>4 DEF MayRun, NodeInv, LateFirst, Running, Swallowed, NoneLater
<1>6. PassedSent(n)' /\ (Running(n)' => marker'[n] <= sequence[n])
  BY <1>1, <1>3 DEF NodeInv, PassedSent, Numbered, Running
<1>7. NodeInv(n)'
  BY <1>1, <1>3, <1>5, <1>6, FilesStay DEF NodeInv, Resting, Running, Owned
<1>8. \A m \in Nodes \ {n} : Still(m)
  BY <1>1, <1>3 DEF Still
<1> QED BY <1>2, <1>3, <1>7, <1>8 DEF Fine

LEMMA EndPassIs ==
  ASSUME TypeOK, NEW n \in Nodes, stage[n] = "lines", EndPass(n)
  PROVE  /\ stage'[n] = "idle" /\ offset'[n] \in {offset[n], position[n]}
         /\ \A m \in Nodes \ {n} : /\ stage'[m] = stage[m] /\ position'[m] = position[m]
                                   /\ offset'[m] = offset[m]
BY DEF EndPass, TypeOK

LEMMA ReplayStopsFine ==
  ASSUME TypeOK, NEW n \in Nodes, NodeInv(n), ReplayLineFail(n) \/ ReplayPause(n)
  PROVE  Fine(n)
<1>1. /\ stage[n] = "lines" /\ EndPass(n)
      /\ UNCHANGED <<mode, senders, queue, pending, sequence, spooling, log, lastId, marker>>
      /\ UNCHANGED <<active, rotated>>
  BY DEF ReplayLineFail, ReplayPause, HasLine
<1>2. /\ retired'[n] \subseteq Foreign(n)
      /\ \A b \in inflight'[n] : \/ b \in inflight[n]
                                 \/ b \in SpoolLines(n) /\ b \in Copies(n) /\ Foremost(n, b)
      /\ \A m \in Nodes \ {n} : inflight'[m] = inflight[m] /\ retired'[m] = retired[m]
  <2>1. CASE ReplayPause(n)
    BY <2>1 DEF ReplayPause, NodeInv, Owned
  <2>2. CASE ReplayLineFail(n)
    <3>1. HasLine(n) /\ NextLine(n) # Garbled /\ Track(n, NextLine(n)) /\ inflight' = [inflight EXCEPT ![n] = @ \cup {NextLine(n)}]
      BY <2>2 DEF ReplayLineFail
    <3>2. NextLine(n) \in SpoolLines(n) /\ NextLine(n) \in Copies(n) /\ Foremost(n, NextLine(n))
      BY <3>1, LineForemost
    <3>3. /\ inflight'[n] = inflight[n] \cup {NextLine(n)}
          /\ \A m \in Nodes \ {n} : inflight'[m] = inflight[m]
      BY <3>1 DEF TypeOK
    <3> QED BY <3>1, <3>2, <3>3, TrackIs
  <2> QED BY <2>1, <2>2
<1>3. SpoolLines(n)' = SpoolLines(n) /\ Copies(n)' \subseteq Copies(n)
  BY <1>1, <1>2 DEF SpoolLines, Copies
<1>4. /\ SentMore(n) /\ Logs(n) /\ \A c : Unsent(c)' <=> Unsent(c)
      /\ \A m \in Nodes \ {n} :
           /\ \A p \in Own(m) : marker'[p] = marker[p]
           /\ \A c : c.producer \in Own(m) => (Published(c)' <=> Published(c))
  BY <1>1, <1>3, Unmoved
<1>5. MayRun(n)
  BY <1>1, <1>2, <1>3, <1>4 DEF MayRun, NodeInv, LateFirst, Running, Swallowed, NoneLater
<1>6. PassedSent(n)'
  BY <1>1, <1>4, EndPassIs DEF NodeInv, PassedSent
<1>7. Running(n)' => marker'[n] <= sequence[n]
  BY <1>1 DEF NodeInv, Numbered, Running
<1>8. Resting(n)'
  BY <1>1, EndPassIs DEF NodeInv, Resting, Running
<1>9. NodeInv(n)'
  BY <1>1, <1>2, <1>4, <1>5, <1>6, <1>7, <1>8, FilesStay DEF Running
<1>10. \A m \in Nodes \ {n} : Still(m)
  BY <1>1, <1>2, <1>4, EndPassIs DEF Still
<1> QED BY <1>3, <1>4, <1>9, <1>10 DEF Fine

\* Steps of one gateway that send nothing, write no line and let go of a batch only
\* when the process stops.
LEMMA QuietFine ==
  ASSUME TypeOK, NEW n \in Nodes, NodeInv(n), log' = log, lastId' = lastId, marker' = marker,
         active'[n] = active[n], rotated'[n] = rotated[n], pending'[n] \subseteq pending[n],
         inflight'[n] \subseteq inflight[n], retired'[n] = retired[n],
         offset'[n] \in {offset[n], 0},
         stage'[n] = "lines" => stage[n] = "lines" /\ position'[n] = position[n],
         Resting(n)', Running(n)' => Running(n),
         Running(n)' => /\ sequence'[n] = sequence[n]
                        /\ spooling'[n] = spooling[n]
                        /\ mode[n] = "stopped" \/ pending'[n] # pending[n] => mode'[n] = "stopped"
  PROVE  NodeInv(n)' /\ Copies(n)' \subseteq Copies(n) /\ Logs(n)
<1>1. SpoolLines(n)' = SpoolLines(n) /\ Copies(n)' \subseteq Copies(n)
  BY DEF SpoolLines, Copies
<1>2. SentMore(n) /\ Logs(n) /\ \A c : Unsent(c)' <=> Unsent(c)
  BY <1>1, Unmoved
<1>3. MayRun(n)
  <2>1. ASSUME NEW b \in inflight'[n], Unsent(b)
        PROVE  /\ Foremost(n, b)
               /\ Running(n)' => \/ b \in pending'[n] \cup SpoolLines(n)'
                                 \/ mode'[n] = "stopped" /\ b.producer = n /\ b.seq = sequence'[n]
                                 \/ Swallowed(n, b)'
    <3>1. /\ Foremost(n, b)
          /\ Running(n) => \/ b \in pending[n] \cup SpoolLines(n)
                           \/ mode[n] = "stopped" /\ b.producer = n /\ b.seq = sequence[n]
                           \/ Swallowed(n, b)
      BY <2>1 DEF NodeInv, LateFirst
    <3>2. \A c \in pending[n] : c.producer = n /\ c.seq = sequence[n]
      BY DEF NodeInv, Numbered
    <3>3. Swallowed(n, b) => Swallowed(n, b)'
      BY DEF Swallowed, NoneLater
    <3> QED BY <1>1, <3>1, <3>2, <3>3
  <2> QED BY <2>1 DEF MayRun
<1>4. PassedSent(n)'
  <2>1. ASSUME NEW k \in DOMAIN rotated[n].lines,
               k <= offset'[n] \/ (stage'[n] = "lines" /\ k <= position'[n])
        PROVE  rotated[n].lines[k] # Garbled /\ ~Unsent(rotated[n].lines[k])
    <3>1. k \in Nat /\ k > 0
      BY CopiesType
    <3>2. k <= offset[n] \/ (stage[n] = "lines" /\ k <= position[n])
      BY <2>1, <3>1
    <3> QED BY <3>2 DEF NodeInv, PassedSent
  <2> QED BY <1>2, <2>1 DEF PassedSent
<1>5. Running(n)' => sequence'[n] = sequence[n] /\ marker'[n] <= sequence[n]
  BY DEF NodeInv, Numbered
<1> QED BY <1>1, <1>2, <1>3, <1>4, <1>5, FilesStay DEF NodeInv, Owned

LEMMA EnqueueFine ==
  ASSUME TypeOK, NEW n \in Nodes, NodeInv(n), NEW i \in Items,
         EnqueueBegin(n, i) \/ EnqueueSend(n, i) \/ EnqueueRefuse(n, i)
  PROVE  Fine(n)
<1>1. Running(n)
  BY DEF EnqueueBegin, EnqueueSend, EnqueueRefuse, NodeInv, Resting, Running
<1>2. /\ UNCHANGED <<mode, pending, sequence, spooling, stage, position, active, rotated, offset>>
      /\ UNCHANGED <<retired, inflight, log, lastId, marker>>
      /\ \A m \in Nodes \ {n} : senders'[m] = senders[m] /\ queue'[m] = queue[m]
  BY DEF EnqueueBegin, EnqueueSend, EnqueueRefuse, TypeOK
<1>3. Resting(n)' /\ Running(n)'
  BY <1>1, <1>2 DEF Resting, Running
<1>4. NodeInv(n)' /\ Copies(n)' \subseteq Copies(n) /\ Logs(n)
  BY <1>1, <1>2, <1>3, QuietFine
<1>5. \A m \in Nodes \ {n} : Still(m)
  BY <1>2 DEF Still, Published
<1> QED BY <1>4, <1>5 DEF Fine

LEMMA LateDropFine ==
  ASSUME TypeOK, NEW n \in Nodes, NodeInv(n), LateDrop(n)
  PROVE  Fine(n)
<1>1. PICK b \in inflight[n] : inflight' = [inflight EXCEPT ![n] = @ \ {b}]
  BY DEF LateDrop
<1>2. /\ UNCHANGED <<mode, senders, queue, pending, sequence, spooling, stage, position>>
      /\ UNCHANGED <<active, rotated, offset, retired, log, lastId, marker>>
      /\ inflight'[n] \subseteq inflight[n] /\ \A m \in Nodes \ {n} : inflight'[m] = inflight[m]
  BY <1>1 DEF LateDrop, TypeOK
<1>3. Resting(n)' /\ (Running(n)' <=> Running(n))
  BY <1>2 DEF NodeInv, Resting, Running
<1>4. NodeInv(n)' /\ Copies(n)' \subseteq Copies(n) /\ Logs(n)
  BY <1>2, <1>3, QuietFine
<1>5. \A m \in Nodes \ {n} : Still(m)
  BY <1>2 DEF Still, Published
<1> QED BY <1>4, <1>5 DEF Fine

LEMMA ReplayRemoveOffsetFine ==
  ASSUME TypeOK, NEW n \in Nodes, NodeInv(n), ReplayRemoveOffset(n)
  PROVE  Fine(n)
<1>1. /\ UNCHANGED <<mode, senders, queue, pending, sequence, spooling, position>>
      /\ UNCHANGED <<active, rotated, inflight, retired, log, lastId, marker>>
      /\ offset'[n] \in {offset[n], 0} /\ stage[n] = "offset" /\ stage'[n] \in {"cleanup", "idle"}
      /\ \A m \in Nodes \ {n} : offset'[m] = offset[m] /\ stage'[m] = stage[m]
  BY DEF ReplayRemoveOffset, TypeOK
<1>2. Resting(n)' /\ (Running(n)' <=> Running(n))
  BY <1>1 DEF NodeInv, Resting, Running
<1>3. NodeInv(n)' /\ Copies(n)' \subseteq Copies(n) /\ Logs(n)
  BY <1>1, <1>2, QuietFine
<1>4. \A m \in Nodes \ {n} : Still(m)
  BY <1>1 DEF Still, Published
<1> QED BY <1>3, <1>4 DEF Fine

LEMMA StoppingFine ==
  ASSUME TypeOK, NEW n \in Nodes, NodeInv(n),
         CloseBegin(n) \/ CloseQueue(n) \/ ProducerDrained(n) \/ ProducerCancelled(n)
  PROVE  Fine(n)
<1>1. /\ UNCHANGED <<senders, sequence, spooling, stage, position>>
      /\ UNCHANGED <<active, rotated, offset, inflight, retired, log, lastId, marker>>
      /\ Running(n) /\ mode'[n] \in {"closing", "draining", "stopped"} /\ mode[n] # "stopped"
      /\ pending'[n] \subseteq pending[n] /\ (pending'[n] # pending[n] => mode'[n] = "stopped")
      /\ \A m \in Nodes \ {n} :
           mode'[m] = mode[m] /\ queue'[m] = queue[m] /\ pending'[m] = pending[m]
  BY DEF CloseBegin, CloseQueue, ProducerDrained, ProducerCancelled, TypeOK, Running
<1>2. Resting(n)' /\ Running(n)'
  BY <1>1 DEF Resting, Running
<1>3. NodeInv(n)' /\ Copies(n)' \subseteq Copies(n) /\ Logs(n)
  BY <1>1, <1>2, QuietFine
<1>4. \A m \in Nodes \ {n} : Still(m)
  BY <1>1 DEF Still, Published
<1> QED BY <1>3, <1>4 DEF Fine

LEMMA ForgetIs ==
  ASSUME TypeOK, NEW n \in Nodes, Forget(n)
  PROVE  /\ ~Running(n)' /\ Resting(n)' /\ pending'[n] = {} /\ stage'[n] = "idle"
         /\ \A m \in Nodes \ {n} :
              /\ mode'[m] = mode[m] /\ senders'[m] = senders[m] /\ queue'[m] = queue[m]
              /\ pending'[m] = pending[m] /\ sequence'[m] = sequence[m]
              /\ spooling'[m] = spooling[m] /\ stage'[m] = stage[m] /\ position'[m] = position[m]
BY DEF Forget, TypeOK, Running, Resting

LEMMA CrashFine ==
  ASSUME TypeOK, NEW n \in Nodes, NodeInv(n), Crash(n)
  PROVE  Fine(n)
<1>1. Forget(n) /\ UNCHANGED <<active, rotated, offset, retired, inflight, log, lastId, marker>>
  BY DEF Crash
<1>2. NodeInv(n)' /\ Copies(n)' \subseteq Copies(n) /\ Logs(n)
  BY <1>1, ForgetIs, QuietFine
<1>3. \A m \in Nodes \ {n} : Still(m)
  BY <1>1, ForgetIs DEF Still, Published
<1> QED BY <1>2, <1>3 DEF Fine

\* Deleting the markers of producers the volume has nothing of.
LEMMA DeletedFine ==
  ASSUME TypeOK, NEW n \in Nodes, NodeInv(n), NEW ids \in SUBSET Own(n), DeleteMarkers(n, ids),
         SpoolEmpty(n), n \in ids => pending[n] = {} /\ ~Running(n)',
         active'[n] = active[n], rotated'[n] = rotated[n], pending'[n] \subseteq pending[n],
         inflight' = inflight, stage'[n] = "idle", offset'[n] = offset[n],
         Resting(n)', Running(n)' => Running(n),
         Running(n)' => sequence'[n] = sequence[n] /\ pending'[n] = pending[n] /\ mode'[n] = mode[n]
  PROVE  /\ NodeInv(n)' /\ Copies(n)' \subseteq Copies(n) /\ Logs(n)
         /\ \A m \in Nodes \ {n} :
              /\ retired'[m] = retired[m]
              /\ \A p \in Own(m) : marker'[p] = marker[p]
              /\ \A c : c.producer \in Own(m) => (Published(c)' <=> Published(c))
<1>1. /\ log' = log /\ lastId' = lastId /\ low' = low
      /\ retired'[n] \subseteq Foreign(n) /\ \A m \in Nodes \ {n} : retired'[m] = retired[m]
      /\ \/ marker' = marker
         \/ inflight[n] = {} /\ \A p \in Producers : marker'[p] = IF p \in ids THEN 0 ELSE marker[p]
  BY DEF DeleteMarkers, TypeOK, NodeInv, Owned
<1>2. /\ SpoolLines(n) = {} /\ SpoolLines(n)' = {} /\ Copies(n)' \subseteq Copies(n)
      /\ Copies(n) = pending[n] \cup inflight[n]
  BY DEF NodeInv, SpoolEmpty, Absent, SpoolLines, Entries, Copies
<1>3. \A c \in Copies(n) : marker'[c.producer] = marker[c.producer]
  <2>1. CASE marker' = marker
    BY <2>1
  <2>2. CASE inflight[n] = {} /\ \A p \in Producers : marker'[p] = IF p \in ids THEN 0 ELSE marker[p]
    BY <1>2, <2>2 DEF NodeInv, Numbered, Producers
  <2> QED BY <1>1, <2>1, <2>2
<1>4. SentMore(n) /\ Logs(n)
  BY <1>1, <1>2, <1>3, FewerCopies DEF Published, Logs
<1>5. Running(n)' => marker'[n] = marker[n]
  BY <1>1 DEF Producers
<1>6. MayRun(n)
  <2>1. ASSUME NEW b \in inflight[n], Unsent(b)'
        PROVE  /\ Foremost(n, b)
               /\ Running(n)' => \/ b \in pending'[n] \cup SpoolLines(n)'
                                 \/ mode'[n] = "stopped" /\ b.producer = n /\ b.seq = sequence'[n]
                                 \/ Swallowed(n, b)'
    <3>1. Unsent(b)
      BY <1>2, <1>3, <2>1 DEF Unsent
    <3>2. ~Swallowed(n, b)
      BY <1>2 DEF Swallowed, SpoolLines, Entries
    <3> QED BY <1>2, <3>1, <3>2 DEF NodeInv, LateFirst
  <2> QED BY <2>1 DEF MayRun
<1>7. PassedSent(n)'
  BY DEF NodeInv, SpoolEmpty, Absent, PassedSent
<1>8. NodeInv(n)'
  BY <1>1, <1>4, <1>5, <1>6, <1>7, FilesStay DEF NodeInv, Numbered
<1>9. ASSUME NEW m \in Nodes \ {n}, NEW p \in Own(m) PROVE marker'[p] = marker[p]
  <2>1. p \in Producers /\ p \notin ids
    BY Apart
  <2> QED BY <1>1, <2>1
<1> QED BY <1>1, <1>2, <1>4, <1>8, <1>9 DEF Published

LEMMA ReplayCleanupFine ==
  ASSUME TypeOK, NEW n \in Nodes, NodeInv(n), ReplayCleanup(n)
  PROVE  Fine(n)
<1>1. /\ UNCHANGED <<mode, senders, queue, pending, sequence, position>>
      /\ UNCHANGED <<active, rotated, offset, inflight>>
      /\ stage[n] = "cleanup" /\ stage'[n] = "idle"
      /\ \A m \in Nodes \ {n} : stage'[m] = stage[m] /\ spooling'[m] = spooling[m]
  BY DEF ReplayCleanup, TypeOK
<1>2. Resting(n)' /\ (Running(n)' <=> Running(n))
  BY <1>1 DEF NodeInv, Resting, Running
<1>3. CASE SpoolEmpty(n) /\ DeleteMarkers(n, retired[n])
  <2>1. retired[n] \subseteq Own(n) /\ n \notin retired[n]
    BY Apart DEF NodeInv, Owned, Own
  <2>2. /\ NodeInv(n)' /\ Copies(n)' \subseteq Copies(n) /\ Logs(n)
        /\ \A m \in Nodes \ {n} :
              /\ retired'[m] = retired[m]
              /\ \A p \in Own(m) : marker'[p] = marker[p]
              /\ \A c : c.producer \in Own(m) => (Published(c)' <=> Published(c))
    BY <1>1, <1>2, <1>3, <2>1, DeletedFine
  <2> QED BY <1>1, <2>2 DEF Fine, Still
<1>4. CASE ~SpoolEmpty(n) /\ UNCHANGED <<spooling, redis, retired>>
  <2>1. NodeInv(n)' /\ Copies(n)' \subseteq Copies(n) /\ Logs(n)
    BY <1>1, <1>2, <1>4, QuietFine
  <2> QED BY <1>1, <1>4, <2>1 DEF Fine, Still, Published
<1> QED BY <1>3, <1>4 DEF ReplayCleanup

LEMMA CloseFinishFine ==
  ASSUME TypeOK, DrainInv, NEW n \in Nodes, NodeInv(n), CloseFinish(n)
  PROVE  Fine(n)
<1>1. Forget(n) /\ UNCHANGED <<active, rotated, offset, inflight>>
  BY DEF CloseFinish
<1> DEFINE ids == retired[n] \cup (IF drained[n] THEN {n} ELSE {})
<1>2. CASE SpoolEmpty(n) /\ DeleteMarkers(n, ids)
  <2>1. ids \subseteq Own(n) /\ (n \in ids => pending[n] = {})
    BY Apart DEF NodeInv, Owned, Own, DrainInv, DrainIsComplete
  <2> HIDE DEF ids
  <2>2. /\ NodeInv(n)' /\ Copies(n)' \subseteq Copies(n) /\ Logs(n)
        /\ \A m \in Nodes \ {n} :
              /\ retired'[m] = retired[m]
              /\ \A p \in Own(m) : marker'[p] = marker[p]
              /\ \A c : c.producer \in Own(m) => (Published(c)' <=> Published(c))
    BY <1>1, <1>2, <2>1, ForgetIs, DeletedFine
  <2> QED BY <1>1, <2>2, ForgetIs DEF Fine, Still
<1>3. CASE ~SpoolEmpty(n) /\ UNCHANGED <<redis, retired>>
  <2>1. NodeInv(n)' /\ Copies(n)' \subseteq Copies(n) /\ Logs(n)
    BY <1>1, <1>3, ForgetIs, QuietFine
  <2> QED BY <1>1, <1>3, <2>1, ForgetIs DEF Fine, Still, Published
<1> QED BY <1>2, <1>3 DEF CloseFinish

\* The pass has sent every line of the file it removes.
LEMMA ReplayRemoveFileFine ==
  ASSUME TypeOK, NEW n \in Nodes, NodeInv(n), ReplayRemoveFile(n)
  PROVE  Fine(n)
<1>1. /\ stage[n] = "lines" /\ position[n] = Len(rotated[n].lines)
      /\ rotated'[n] = NoFile /\ stage'[n] = "offset"
      /\ UNCHANGED <<mode, senders, queue, pending, sequence, spooling>>
      /\ UNCHANGED <<active, offset, inflight, retired, log, lastId, marker>>
      /\ \A m \in Nodes \ {n} :
           rotated'[m] = rotated[m] /\ stage'[m] = stage[m] /\ position'[m] = position[m]
  BY DEF ReplayRemoveFile, TypeOK
<1>2. NoFile.lines = <<>> /\ NoFile.exists = FALSE /\ NoFile.torn = FALSE
  BY DEF NoFile
<1>3. \A b \in Entries(rotated[n].lines) : b # Garbled /\ ~Unsent(b)
  <2>1. \A k \in DOMAIN rotated[n].lines : k <= position[n]
    BY <1>1, CopiesType DEF NodeInv
  <2> QED BY <1>1, <2>1 DEF NodeInv, PassedSent, Entries
<1>4. /\ Entries(rotated'[n].lines) = {} /\ SpoolLines(n)' = Entries(active[n].lines)
      /\ Copies(n)' \subseteq Copies(n)
  BY <1>1, <1>2 DEF Entries, SpoolLines, Copies
<1>5. SentMore(n) /\ Logs(n) /\ \A c : Unsent(c)' <=> Unsent(c)
  BY <1>1, <1>4, Unmoved
<1>6. MayRun(n)
  <2>1. ASSUME NEW b, Swallowed(n, b) PROVE Swallowed(n, b)'
    <3>1. \A g \in DOMAIN rotated[n].lines : rotated[n].lines[g] # Garbled
      BY <1>3 DEF Entries
    <3> QED BY <1>1, <1>4, <2>1, <3>1 DEF Swallowed, NoneLater
  <2> QED BY <1>1, <1>3, <1>4, <1>5, <2>1 DEF MayRun, NodeInv, LateFirst, Running, SpoolLines
<1>7. LateFirst(n)'
  BY <1>5, <1>6, MayRunIs
<1>8. Absent(active[n])' /\ Absent(rotated[n])'
  BY <1>1, <1>2, <1>4 DEF NodeInv, Absent
<1>9. Resting(n)' /\ Owned(n)' /\ OneNumber(n)' /\ Exact(n)'
  BY <1>1, <1>5 DEF NodeInv, Resting, Running, Owned, SentMore
<1>10. Numbered(n)'
  BY <1>1, <1>4 DEF NodeInv, Numbered, Running
<1>11. Sorted(n)' /\ PassedSent(n)'
  BY <1>1, <1>2, <1>4 DEF NodeInv, Sorted, InOrder, PassedSent
<1>12. SpoolFirst(n)'
  BY <1>1, <1>2 DEF NodeInv, SpoolFirst, SpoolEmpty, Running
<1>13. \A m \in Nodes \ {n} : Still(m)
  BY <1>1 DEF Still, Published
<1> QED
  BY <1>4, <1>5, <1>7, <1>8, <1>9, <1>10, <1>11, <1>12, <1>13 DEF Fine, NodeInv

LEMMA ReplayBeginFine ==
  ASSUME TypeOK, NEW n \in Nodes, NodeInv(n), ReplayBegin(n)
  PROVE  Fine(n)
<1>1. /\ Working(n) /\ Running(n) /\ stage[n] = "idle"
      /\ UNCHANGED <<mode, senders, queue, pending, sequence, inflight, retired, log, lastId, marker>>
      /\ \A m \in Nodes \ {n} :
           /\ spooling'[m] = spooling[m] /\ active'[m] = active[m] /\ rotated'[m] = rotated[m]
           /\ stage'[m] = stage[m] /\ position'[m] = position[m] /\ offset'[m] = offset[m]
  BY DEF ReplayBegin, TypeOK, Working, Running
<1>2. Resting(n)' /\ Running(n)' /\ \A m \in Nodes \ {n} : Still(m)
  BY <1>1 DEF Resting, Running, Still, Published
<1>3. marker'[n] <= sequence[n]
  BY <1>1 DEF NodeInv, Numbered
<1>4. NodeInv(n)' /\ Copies(n)' = Copies(n)
  <2>1. CASE \/ /\ UNCHANGED <<active, rotated, offset>> /\ spooling'[n] = TRUE
                /\ position'[n] = offset[n]
             \/ /\ UNCHANGED <<active, rotated, stage, position>> /\ SpoolEmpty(n)
                /\ offset'[n] = 0
    <3>1. SpoolLines(n)' = SpoolLines(n) /\ Copies(n)' = Copies(n)
      BY <1>1, <2>1 DEF SpoolLines, Copies
    <3>2. SentMore(n) /\ \A c : Unsent(c)' <=> Unsent(c)
      BY <1>1, <3>1, Unmoved
    <3>0. UNCHANGED <<active, rotated>>
      BY <2>1
    <3>3. MayRun(n)
      BY <1>1, <3>0, <3>1, <3>2 DEF MayRun, NodeInv, LateFirst, Running, Swallowed, NoneLater
    <3>4. PassedSent(n)'
      BY <1>1, <2>1, <3>2 DEF NodeInv, PassedSent, SpoolEmpty, Absent
    <3> QED BY <1>1, <1>2, <1>3, <2>1, <3>1, <3>2, <3>3, <3>4, FilesStay DEF NodeInv, Owned
  <2>2. CASE /\ ~rotated[n].exists /\ rotated'[n] = active[n] /\ active'[n] = NoFile
             /\ offset'[n] = 0 /\ position'[n] = 0 /\ spooling'[n] = TRUE
    <3>1. /\ NoFile.lines = <<>> /\ NoFile.exists = FALSE /\ NoFile.torn = FALSE
          /\ rotated[n].lines = <<>>
      BY <2>2 DEF NoFile, NodeInv, Absent
    <3>2. /\ Entries(active'[n].lines) = {} /\ Entries(rotated[n].lines) = {}
          /\ SpoolLines(n)' = SpoolLines(n) /\ Copies(n)' = Copies(n)
      BY <1>1, <2>2, <3>1 DEF Entries, SpoolLines, Copies
    <3>3. SentMore(n) /\ \A c : Unsent(c)' <=> Unsent(c)
      BY <1>1, <3>2, Unmoved
    <3>10. ASSUME NEW b, Swallowed(n, b) PROVE Swallowed(n, b)'
      BY <2>2, <3>1, <3>2, <3>10 DEF Swallowed, NoneLater
    <3>4. MayRun(n)
      BY <1>1, <3>2, <3>3, <3>10 DEF MayRun, NodeInv, LateFirst, Running
    <3>5. LateFirst(n)' /\ Owned(n)' /\ OneNumber(n)' /\ Exact(n)'
      BY <1>1, <3>3, <3>4, MayRunIs DEF NodeInv, Owned, SentMore
    <3>6. Absent(active[n])' /\ Absent(rotated[n])'
      BY <2>2, <3>1, <3>2 DEF NodeInv, Absent
    <3>7. Numbered(n)'
      BY <1>1, <3>2 DEF NodeInv, Numbered, Running
    <3>8. Sorted(n)' /\ SpoolFirst(n)'
      BY <2>2, <3>1, <3>2 DEF NodeInv, Sorted, InOrder, SpoolFirst
    <3>9. PassedSent(n)'
      <4>1. \A k \in DOMAIN active[n].lines : ~(k <= 0)
        BY CopiesType DEF NodeInv
      <4> QED BY <2>2, <4>1 DEF PassedSent
    <3> QED BY <1>2, <3>2, <3>5, <3>6, <3>7, <3>8, <3>9 DEF NodeInv
  <2> QED BY <2>1, <2>2 DEF ReplayBegin, SpoolEmpty, TypeOK
<1> QED BY <1>1, <1>2, <1>4 DEF Fine, Logs

\* A line for the pending batch goes behind every line of its producer.
LEMMA AppendedFine ==
  ASSUME TypeOK, NEW n \in Nodes, NodeInv(n), spooling[n], NEW b \in pending[n],
         active'[n] = Appended(active[n], b), pending'[n] \subseteq pending[n],
         UNCHANGED <<mode, senders, queue, sequence, spooling, stage, position>>,
         UNCHANGED <<rotated, offset, inflight, retired, log, lastId, marker>>
  PROVE  /\ NodeInv(n)' /\ Copies(n)' \subseteq Copies(n) /\ Logs(n) /\ pending[n] = {b}
         /\ SpoolLines(n)' = SpoolLines(n) \cup {IF active[n].torn THEN Garbled ELSE b}
<1>1. /\ b \in Batch /\ b # Garbled /\ b.producer = n /\ b.seq = sequence[n] /\ Running(n)
      /\ pending[n] = {b} /\ b \in Copies(n)
  <2>1. b \in Batch /\ b.producer \in Producers
    BY DEF TypeOK, Batch
  <2>2. b # Garbled
    BY <2>1, IdentityAssumption DEF Garbled
  <2> QED BY <2>1, <2>2 DEF NodeInv, Numbered, Resting, OneNumber, Copies
<1> DEFINE lines == active[n].lines
           x == IF active[n].torn THEN Garbled ELSE b
           longer == Append(active[n].lines, x)
<1>2. active[n].lines \in Seq(Line) /\ x \in Line /\ x \in {Garbled, b}
  BY <1>1, LineType DEF TypeOK, File
<1>3. active'[n].lines = longer /\ active'[n].exists
  BY DEF Appended
<1> HIDE DEF x
<1>4. /\ Len(lines) \in Nat /\ Len(longer) = Len(lines) + 1 /\ longer \in Seq(Line)
      /\ DOMAIN longer = 1..Len(longer) /\ DOMAIN lines = 1..Len(lines)
      /\ \A k \in 1..Len(lines) : longer[k] = lines[k]
      /\ longer[Len(lines) + 1] = x
  BY <1>2
<1> HIDE DEF lines, longer
<1>5. Entries(longer) = Entries(lines) \cup {x}
  <2>1. \A k \in DOMAIN longer : longer[k] \in Entries(lines) \cup {x}
    BY <1>4 DEF Entries
  <2>2. \A k \in DOMAIN lines : lines[k] \in Entries(longer)
    BY <1>4 DEF Entries
  <2>3. x \in Entries(longer)
    BY <1>4 DEF Entries
  <2> QED BY <2>1, <2>2, <2>3 DEF Entries
<1>6. /\ SpoolLines(n)' = SpoolLines(n) \cup {x} /\ Copies(n)' \subseteq Copies(n)
      /\ SpoolLines(n) = Entries(rotated[n].lines) \cup Entries(lines)
      /\ SpoolLines(n) \subseteq Copies(n) \cup {Garbled}
  BY <1>1, <1>2, <1>3, <1>5 DEF SpoolLines, Copies, lines
<1>7. /\ \A c \in Copies(n) : c.producer = n => c.seq <= sequence[n]
      /\ Garbled.producer # n /\ Garbled.producer \notin Producers /\ Garbled.seq = 0
      /\ \A c \in Copies(n) : c.producer \in Producers
      /\ \A c \in SpoolLines(n) : c.producer = n => c.seq <= sequence[n]
  <2>1. Garbled.producer \notin Producers /\ Garbled.seq = 0 /\ n \in Producers
    BY IdentityAssumption DEF Garbled, Producers
  <2>2. \A c \in Copies(n) : c.producer = n => c.seq <= sequence[n]
    BY <1>1 DEF NodeInv, Numbered
  <2> QED BY <1>6, <2>1, <2>2, CopiesType
<1>8. InOrder(longer)
  <2>1. ASSUME NEW j \in DOMAIN longer, NEW k \in DOMAIN longer, j <= k,
               longer[j].producer = longer[k].producer
        PROVE  longer[j].seq <= longer[k].seq
    <3>1. CASE k = Len(lines) + 1
      <4>1. longer[j] \in SpoolLines(n) \cup {x}
        BY <1>5, <1>6 DEF Entries
      <4>2. CASE x = b
        BY <1>1, <1>4, <1>7, <2>1, <3>1, <4>1, <4>2, CopiesType
      <4>3. CASE x = Garbled
        <5>1. longer[j] = Garbled
          BY <1>4, <1>6, <1>7, <2>1, <3>1, <4>1, <4>3
        <5> QED BY <1>4, <1>7, <3>1, <4>3, <5>1
      <4> QED BY <1>2, <4>2, <4>3
    <3>2. CASE k # Len(lines) + 1
      <4>1. j \in DOMAIN lines /\ k \in DOMAIN lines
        BY <1>4, <2>1, <3>2
      <4> QED BY <1>4, <2>1, <4>1 DEF NodeInv, Sorted, InOrder, lines
    <3> QED BY <3>1, <3>2
  <2> QED BY <2>1 DEF InOrder
<1>9. SentMore(n) /\ Logs(n) /\ \A c : Unsent(c)' <=> Unsent(c)
  BY <1>6, Unmoved
<1>10. ASSUME NEW c, Swallowed(n, c) \/ (c = b /\ x = Garbled) PROVE Swallowed(n, c)'
  <2>1. CASE \E g \in DOMAIN rotated[n].lines :
               rotated[n].lines[g] = Garbled /\ NoneLater(rotated[n].lines, g, c)
    BY <2>1 DEF Swallowed, NoneLater
  <2>2. ASSUME NEW g \in DOMAIN lines, lines[g] = Garbled, NoneLater(lines, g, c),
               \A d \in Entries(rotated[n].lines) : d.producer = c.producer => d.seq <= c.seq
        PROVE  Swallowed(n, c)'
    <3>1. g \in DOMAIN longer /\ longer[g] = Garbled
      BY <1>4, <2>2
    <3>2. NoneLater(longer, g, c)
      BY <1>4, <2>2 DEF NoneLater
    <3> QED BY <1>3, <2>2, <3>1, <3>2 DEF Swallowed, NoneLater
  <2>3. CASE c = b /\ x = Garbled
    <3> DEFINE g == Len(lines) + 1
    <3>1. g \in DOMAIN longer /\ longer[g] = Garbled
      BY <1>4, <2>3
    <3>2. NoneLater(longer, g, b)
      <4>1. ASSUME NEW j \in DOMAIN longer, j < g, longer[j].producer = n
            PROVE  longer[j].seq <= sequence[n]
        <5>1. j \in DOMAIN lines /\ longer[j] = lines[j]
          BY <1>4, <4>1
        <5> QED BY <1>6, <1>7, <4>1, <5>1 DEF Entries
      <4> QED BY <1>1, <4>1 DEF NoneLater
    <3>3. \A d \in Entries(rotated[n].lines) : d.producer = b.producer => d.seq <= b.seq
      BY <1>1, <1>6, <1>7
    <3> HIDE DEF g
    <3> QED BY <1>3, <2>3, <3>1, <3>2, <3>3 DEF Swallowed, NoneLater
  <2> QED BY <1>10, <2>1, <2>2, <2>3 DEF Swallowed, lines
<1>16. MayRun(n)
  <2>1. ASSUME NEW c \in inflight[n], Unsent(c)
        PROVE  Foremost(n, c) /\ (c \in pending[n] \cup SpoolLines(n) \/ Swallowed(n, c)
                                  \/ (mode[n] = "stopped" /\ c.producer = n /\ c.seq = sequence[n]))
    BY <1>1, <2>1 DEF NodeInv, LateFirst
  <2>2. ASSUME NEW c \in inflight[n], Unsent(c)
        PROVE  \/ c \in SpoolLines(n)' \/ Swallowed(n, c)'
               \/ mode'[n] = "stopped" /\ c.producer = n /\ c.seq = sequence'[n]
    BY <1>1, <1>2, <1>6, <1>10, <2>1, <2>2
  <2> QED BY <1>9, <2>1, <2>2 DEF MayRun
<1>11. LateFirst(n)' /\ Owned(n)' /\ OneNumber(n)' /\ Exact(n)'
  BY <1>9, <1>16, MayRunIs DEF NodeInv, Owned, SentMore
<1>12. Absent(active[n])' /\ Absent(rotated[n])'
  BY <1>3 DEF NodeInv, Absent
<1>13. Numbered(n)' /\ Resting(n)'
  BY <1>1, <1>6 DEF NodeInv, Numbered, Running, Resting
<1>14. Sorted(n)'
  <2>1. ASSUME NEW c \in Entries(rotated[n].lines), c.producer = x.producer PROVE c.seq <= x.seq
    <3>1. CASE x = b
      BY <1>1, <1>6, <1>7, <2>1, <3>1
    <3>2. CASE x = Garbled
      <4>1. c = Garbled
        BY <1>6, <1>7, <2>1, <3>2
      <4> QED BY <1>7, <3>2, <4>1
    <3> QED BY <1>2, <3>1, <3>2
  <2> QED BY <1>3, <1>5, <1>8, <2>1 DEF NodeInv, Sorted, lines
<1>15. PassedSent(n)' /\ SpoolFirst(n)'
  BY <1>9 DEF NodeInv, PassedSent, SpoolFirst
<1>17. NodeInv(n)'
  BY <1>11, <1>12, <1>13, <1>14, <1>15 DEF NodeInv
<1> QED BY <1>1, <1>6, <1>9, <1>17 DEF x

LEMMA AppendOkFine ==
  ASSUME TypeOK, NEW n \in Nodes, NodeInv(n), AppendOk(n)
  PROVE  Fine(n)
<1>1. PICK b \in pending[n] : active' = [active EXCEPT ![n] = Appended(@, b)]
  BY DEF AppendOk
<1>2. /\ active'[n] = Appended(active[n], b) /\ pending'[n] \subseteq pending[n] /\ spooling[n]
      /\ UNCHANGED <<mode, senders, queue, sequence, spooling, stage, position>>
      /\ UNCHANGED <<rotated, offset, inflight, retired, log, lastId, marker>>
      /\ \A m \in Nodes \ {n} : active'[m] = active[m] /\ pending'[m] = pending[m]
  BY <1>1 DEF AppendOk, TypeOK
<1>3. NodeInv(n)' /\ Copies(n)' \subseteq Copies(n) /\ Logs(n)
  BY <1>2, AppendedFine
<1> QED BY <1>2, <1>3 DEF Fine, Still, Published

LEMMA AppendFailFine ==
  ASSUME TypeOK, NEW n \in Nodes, NodeInv(n), AppendFail(n)
  PROVE  Fine(n)
<1>1. /\ UNCHANGED <<mode, senders, queue, pending, sequence, spooling, stage, position>>
      /\ UNCHANGED <<rotated, offset, inflight, retired, log, lastId, marker>> /\ spooling[n]
  BY DEF AppendFail
<1>2. PICK b \in pending[n] : \/ active' = [active EXCEPT ![n].exists = TRUE]
                             \/ active' = [active EXCEPT ![n] = Appended(@, b)]
                             \/ active' = [active EXCEPT ![n].exists = TRUE, ![n].torn = TRUE]
  BY DEF AppendFail
<1>3. CASE active' = [active EXCEPT ![n] = Appended(@, b)]
  <2>1. active'[n] = Appended(active[n], b) /\ \A m \in Nodes \ {n} : active'[m] = active[m]
    BY <1>3 DEF TypeOK
  <2>2. NodeInv(n)' /\ Copies(n)' \subseteq Copies(n) /\ Logs(n)
    BY <1>1, <2>1, AppendedFine
  <2> QED BY <1>1, <2>1, <2>2 DEF Fine, Still, Published
<1>4. CASE \/ active' = [active EXCEPT ![n].exists = TRUE]
           \/ active' = [active EXCEPT ![n].exists = TRUE, ![n].torn = TRUE]
  <2>1. /\ active'[n].lines = active[n].lines /\ active'[n].exists = TRUE /\ \A m \in Nodes \ {n} : active'[m] = active[m]
    <3>1. active[n] \in File
      BY DEF TypeOK
    <3> QED BY <1>4, <3>1 DEF TypeOK, File
  <2>2. SpoolLines(n)' = SpoolLines(n) /\ Copies(n)' = Copies(n)
    BY <1>1, <2>1 DEF SpoolLines, Copies
  <2>3. SentMore(n) /\ Logs(n) /\ \A c : Unsent(c)' <=> Unsent(c)
    BY <1>1, <2>2, Unmoved
  <2>4. MayRun(n)
    BY <1>1, <2>1, <2>2, <2>3 DEF MayRun, NodeInv, LateFirst, Running, Swallowed, NoneLater
  <2>5. LateFirst(n)' /\ Owned(n)' /\ OneNumber(n)' /\ Exact(n)'
    BY <1>1, <2>3, <2>4, MayRunIs DEF NodeInv, Owned, SentMore
  <2>6. Absent(active[n])' /\ Absent(rotated[n])' /\ Sorted(n)'
    BY <1>1, <2>1 DEF NodeInv, Absent, Sorted, InOrder
  <2>7. Numbered(n)' /\ Resting(n)' /\ PassedSent(n)' /\ SpoolFirst(n)'
    BY <1>1, <2>2, <2>3 DEF NodeInv, Numbered, Running, Resting, PassedSent, SpoolFirst
  <2> QED BY <1>1, <2>1, <2>2, <2>3, <2>5, <2>6, <2>7 DEF Fine, Still, Published, NodeInv
<1> QED BY <1>2, <1>3, <1>4

\* A gateway starts behind every number its volume and Redis have seen.
LEMMA OpenFine ==
  ASSUME TypeOK, NEW n \in Nodes, NodeInv(n), Open(n)
  PROVE  Fine(n)
<1>1. /\ ~Running(n) /\ inflight[n] = {} /\ mode'[n] = "open" /\ Garbled \notin SpoolLines(n)
      /\ \A s \in KnownSequences(n) : s <= sequence'[n]
      /\ spooling'[n] = (active[n].exists \/ rotated[n].exists)
      /\ retired'[n] = retired[n] \cup ({b.producer : b \in SpoolLines(n)} \ {n})
      /\ UNCHANGED <<senders, queue, pending, stage, position>>
      /\ UNCHANGED <<active, rotated, offset, inflight, log, lastId, marker>>
      /\ \A m \in Nodes \ {n} :
           /\ mode'[m] = mode[m] /\ sequence'[m] = sequence[m]
           /\ spooling'[m] = spooling[m] /\ retired'[m] = retired[m]
  BY DEF Open, TypeOK, Running
<1>2. /\ pending[n] = {} /\ SpoolLines(n)' = SpoolLines(n) /\ Copies(n)' = Copies(n)
      /\ Copies(n) = SpoolLines(n) \ {Garbled}
  BY <1>1 DEF NodeInv, Resting, SpoolLines, Copies
<1>3. SentMore(n) /\ Logs(n) /\ \A c : Unsent(c)' <=> Unsent(c)
  BY <1>1, <1>2, Unmoved
<1>4. Absent(active[n])' /\ Absent(rotated[n])' /\ Sorted(n)' /\ LateFirst(n)'
  BY <1>1 DEF NodeInv, Absent, Sorted, InOrder, LateFirst
<1>5. OneNumber(n)' /\ Exact(n)' /\ PassedSent(n)' /\ SpoolFirst(n)' /\ Resting(n)'
  BY <1>1, <1>3 DEF NodeInv, SentMore, PassedSent, SpoolFirst, SpoolEmpty, Resting, Running
<1>6. Owned(n)'
  BY <1>1, <1>2, <1>3 DEF NodeInv, Owned, Own, SentMore
<1>7. Numbered(n)'
  BY <1>1, <1>2 DEF Numbered, KnownSequences
<1>8. \A m \in Nodes \ {n} : Still(m)
  BY <1>1 DEF Still, Published
<1> QED BY <1>2, <1>3, <1>4, <1>5, <1>6, <1>7, <1>8 DEF Fine, NodeInv

\* A new batch comes behind all others of its producer.
LEMMA CollectFine ==
  ASSUME TypeOK, NEW n \in Nodes, NodeInv(n), NEW b, ~Published(b), Working(n), pending[n] = {},
         b.producer = n, b.seq = sequence[n] + 1, pending'[n] = {b}, sequence'[n] = sequence[n] + 1,
         UNCHANGED <<mode, senders, spooling, stage, position>>,
         UNCHANGED <<active, rotated, offset, inflight, retired, log, lastId, marker>>
  PROVE  NodeInv(n)' /\ Copies(n)' = Copies(n) \cup {b}
<1>1. Running(n) /\ Running(n)' /\ mode[n] # "stopped" /\ sequence[n] \in Nat
  BY DEF Working, Running, TypeOK
<1>2. /\ SpoolLines(n)' = SpoolLines(n) /\ Copies(n)' = Copies(n) \cup {b}
      /\ Copies(n) = (SpoolLines(n) \ {Garbled}) \cup inflight[n]
  BY DEF SpoolLines, Copies
<1>3. /\ \A c : Unsent(c)' <=> Unsent(c)
      /\ \A c : Published(c)' <=> Published(c)
  BY DEF Unsent, Published
<1>4. /\ marker[n] \in Nat /\ marker[n] <= sequence[n]
      /\ \A c \in Copies(n) : c.producer = n => c.seq <= sequence[n] /\ c.seq \in Nat
  BY <1>1, CopiesType DEF NodeInv, Numbered, TypeOK, Producers
<1>5. Absent(active[n])' /\ Absent(rotated[n])' /\ Sorted(n)' /\ PassedSent(n)' /\ SpoolFirst(n)'
  BY <1>3 DEF NodeInv, Absent, Sorted, InOrder, PassedSent, SpoolFirst, SpoolEmpty, Running
<1>6. Resting(n)' /\ Owned(n)'
  BY <1>1, <1>2 DEF NodeInv, Resting, Owned, Own
<1>7. Numbered(n)'
  BY <1>1, <1>2, <1>4 DEF Numbered
<1>8. OneNumber(n)'
  BY <1>1, <1>2, <1>4 DEF NodeInv, OneNumber
<1>9. Exact(n)'
  <2>1. Unsent(b)
    BY <1>1, <1>4 DEF Unsent
  <2> QED BY <1>2, <1>3, <2>1 DEF NodeInv, Exact
<1>10. LateFirst(n)'
  <2>1. ASSUME NEW c \in inflight[n], Unsent(c)
        PROVE  Foremost(n, c)' /\ (c \in SpoolLines(n) \/ Swallowed(n, c)')
    <3>1. Foremost(n, c) /\ (c \in SpoolLines(n) \/ Swallowed(n, c)) /\ c \in Copies(n)
      BY <1>1, <1>2, <2>1 DEF NodeInv, LateFirst
    <3>3. Swallowed(n, c) => Swallowed(n, c)'
      BY DEF Swallowed, NoneLater
    <3>2. c.producer = n => c.seq <= b.seq
      BY <1>1, <1>4, <3>1
    <3> QED BY <1>2, <1>3, <3>1, <3>2, <3>3 DEF Foremost
  <2> QED BY <1>2, <1>3, <2>1 DEF LateFirst
<1> QED BY <1>2, <1>5, <1>6, <1>7, <1>8, <1>9, <1>10 DEF NodeInv

\* Consumers do not touch what concerns a producer.
LEMMA ConsumeFine ==
  ASSUME NEW n \in Nodes, NodeInv(n), Consume(n)
  PROVE  Fine(n)
<1>1. /\ UNCHANGED <<mode, senders, queue, pending, sequence, spooling, stage, position>>
      /\ UNCHANGED <<active, rotated, offset, retired, inflight, log, lastId, marker>>
  BY DEF Consume, ConsumeRead, ConsumeCommit, ConsumeAbort, ConsumeTrim
<1>2. \A m \in Nodes : Still(m)
  BY <1>1 DEF Still, Published
<1>3. NodeInv(n)' /\ Copies(n)' = Copies(n)
  BY <1>2, StillKeeps
<1> QED BY <1>1, <1>2, <1>3 DEF Fine, Logs

-----------------------------------------------------------------------------
(***************************************************************************)
(* The records.  Each is in one batch at most, a batch is in the stream at *)
(* most once, and a consumer's page has no gap behind the cursor.          *)
(***************************************************************************)

Batches == {e.batch : e \in log} \cup UNION {Copies(n) : n \in Nodes}

OneBatchEach ==
  /\ \A b, c \in Batches : b.items \cap c.items # {} => b = c
  /\ \A b \in Batches : b.items \subseteq accepted

\* What waits in a queue or at its door is in no batch and nowhere else.
Waits ==
  \A n \in Nodes :
    /\ \A j, k \in DOMAIN queue[n] : queue[n][j] = queue[n][k] => j = k
    /\ ContentsOf(queue[n]) \subseteq accepted
    /\ \A b \in Batches : b.items \cap ContentsOf(queue[n]) = {}
    /\ senders[n] \cap accepted = {}
    /\ \A m \in Nodes \ {n} : /\ senders[m] \cap senders[n] = {}
                              /\ ContentsOf(queue[n]) \cap ContentsOf(queue[m]) = {}

LogInv ==
  /\ \A e \in log : e.id <= lastId
  /\ \A e, f \in log : e.id = f.id \/ e.batch = f.batch => e = f
  /\ cursor <= lastId

PageInv ==
  \A n \in Nodes :
    /\ fetched[n] \subseteq log
    /\ \A f \in fetched[n], e \in log : e.id <= f.id /\ e.id > cursor => e \in fetched[n]

\* Some applied entry holds the record.
Behind(i) == \E e \in log : e.id <= cursor /\ i \in e.batch.items

AppliedInv == \A i \in Items : applied[i] = IF Behind(i) THEN 1 ELSE 0

NodesInv == \A n \in Nodes : NodeInv(n)

ItemInv == OneBatchEach /\ Waits /\ LogInv /\ PageInv /\ AppliedInv

PipeInv == NodesInv /\ ItemInv

\* A step that sends at most a batch it holds makes no new batch.
LEMMA FineKeeps ==
  ASSUME NodesInv, NEW n \in Nodes, Fine(n)
  PROVE  NodesInv' /\ Batches' \subseteq Batches
<1>1. \A m \in Nodes \ {n} : NodeInv(m)' /\ Copies(m)' = Copies(m)
  BY StillKeeps DEF Fine, NodesInv
<1>2. \A m \in Nodes : NodeInv(m)' /\ Copies(m)' \subseteq Copies(m)
  BY <1>1 DEF Fine
<1>3. ASSUME NEW e \in log' PROVE e.batch \in Batches
  <2>1. CASE e \in log
    BY <2>1 DEF Batches
  <2>2. CASE e \notin log
    <3>1. PICK b \in Copies(n) : log' = log \cup {[id |-> lastId + 1, batch |-> b]}
      BY <2>2 DEF Fine, Logs
    <3> DEFINE e0 == [id |-> lastId + 1, batch |-> b]
    <3>2. e0.batch = b /\ e = e0
      BY <2>2, <3>1
    <3> HIDE DEF e0
    <3> QED BY <3>2 DEF Batches
  <2> QED BY <2>1, <2>2
<1> QED BY <1>2, <1>3 DEF NodesInv, Batches

\* The stream stays in order, and what is new in it is behind every page.
LEMMA LogsKeep ==
  ASSUME TypeOK, NEW n \in Nodes, Logs(n), LogInv, PageInv, AppliedInv,
         \A m \in Nodes : fetched'[m] \in {fetched[m], {}}, UNCHANGED <<cursor, applied>>
  PROVE  LogInv' /\ PageInv' /\ AppliedInv'
<1>1. /\ lastId \in Nat /\ cursor \in Nat /\ \A e \in log : e.id \in Nat
      /\ \A m \in Nodes : \A e \in fetched[m] : e.id \in Nat
  BY DEF TypeOK, Entry
<1>2. CASE log' = log /\ lastId' = lastId
  BY <1>2 DEF LogInv, PageInv, AppliedInv, Behind
<1>3. ASSUME NEW b \in Copies(n), ~Published(b), lastId' = lastId + 1,
             log' = log \cup {[id |-> lastId + 1, batch |-> b]}
      PROVE  LogInv' /\ PageInv' /\ AppliedInv'
  <2> DEFINE e0 == [id |-> lastId + 1, batch |-> b]
  <2>1. log' = log \cup {e0} /\ e0.id = lastId + 1 /\ e0.batch = b
    BY <1>3
  <2> HIDE DEF e0
  <2>2. \A e \in log : e.batch # b /\ e.id <= lastId
    BY <1>3 DEF Published, LogInv
  <2>3. LogInv'
    BY <1>1, <1>3, <2>1, <2>2 DEF LogInv
  <2>4. PageInv'
    BY <1>1, <2>1, <2>2 DEF PageInv
  <2>5. \A i \in Items : Behind(i)' <=> Behind(i)
    BY <1>1, <2>1 DEF Behind, LogInv
  <2> QED BY <2>3, <2>4, <2>5 DEF AppliedInv
<1> QED BY <1>2, <1>3 DEF Logs

\* No record is added and none changes its place, but to leave memory.
LEMMA WaitsKeeps ==
  ASSUME Waits, OneBatchEach, Batches' \subseteq Batches, accepted' = accepted,
         \A m \in Nodes : queue'[m] \in {queue[m], <<>>} /\ senders'[m] \subseteq senders[m]
  PROVE  Waits' /\ OneBatchEach'
<1>1. OneBatchEach'
  BY DEF OneBatchEach
<1>2. \A m \in Nodes : /\ ContentsOf(queue'[m]) \subseteq ContentsOf(queue[m])
                       /\ queue'[m] = queue[m] \/ DOMAIN queue'[m] = {}
  BY DEF ContentsOf
<1>3. ASSUME NEW m \in Nodes
      PROVE  /\ \A j, k \in DOMAIN queue'[m] : queue'[m][j] = queue'[m][k] => j = k
             /\ ContentsOf(queue'[m]) \subseteq accepted
             /\ \A b \in Batches' : b.items \cap ContentsOf(queue'[m]) = {}
             /\ senders'[m] \cap accepted = {}
             /\ \A l \in Nodes \ {m} : /\ senders'[l] \cap senders'[m] = {}
                                       /\ ContentsOf(queue'[m]) \cap ContentsOf(queue'[l]) = {}
  <2>1. \A j, k \in DOMAIN queue'[m] : queue'[m][j] = queue'[m][k] => j = k
    BY <1>2 DEF Waits
  <2>2. \A b \in Batches' : b.items \cap ContentsOf(queue'[m]) = {}
    BY <1>2 DEF Waits
  <2>3. \A l \in Nodes \ {m} : /\ senders'[l] \cap senders'[m] = {}
                               /\ ContentsOf(queue'[m]) \cap ContentsOf(queue'[l]) = {}
    BY <1>2 DEF Waits
  <2> QED BY <1>2, <2>1, <2>2, <2>3 DEF Waits
<1> QED BY <1>1, <1>3 DEF Waits, ContentsOf

\* Every step of a gateway but an accepted record, a new batch and the consumer's.
LEMMA MovesKeep ==
  ASSUME TypeOK, PipeInv, NEW n \in Nodes, Fine(n), UNCHANGED <<cursor, applied, accepted>>,
         \A m \in Nodes : /\ queue'[m] \in {queue[m], <<>>} /\ senders'[m] \subseteq senders[m]
                          /\ fetched'[m] \in {fetched[m], {}}
  PROVE  PipeInv'
BY FineKeeps, LogsKeep, WaitsKeeps DEF PipeInv, ItemInv, Fine

LEMMA BeginKeeps ==
  ASSUME TypeOK, PipeInv, NEW n \in Nodes, NEW i \in Items, EnqueueBegin(n, i)
  PROVE  PipeInv'
<1>1. Fine(n)
  BY EnqueueFine DEF PipeInv, NodesInv
<1>2. /\ senders'[n] = senders[n] \cup {i} /\ \A m \in Nodes \ {n} : senders'[m] = senders[m]
      /\ UNCHANGED <<queue, fetched, cursor, applied, accepted>>
      /\ i \notin accepted /\ \A m \in Nodes : i \notin senders[m]
  BY DEF EnqueueBegin, TypeOK, Fresh
<1>3. NodesInv' /\ Batches' \subseteq Batches
  BY <1>1, FineKeeps DEF PipeInv
<1>4. LogInv' /\ PageInv' /\ AppliedInv'
  BY <1>1, <1>2, LogsKeep DEF Fine, PipeInv, ItemInv
<1>5. OneBatchEach'
  BY <1>2, <1>3 DEF PipeInv, ItemInv, OneBatchEach
<1>6. Waits'
  BY <1>2, <1>3 DEF PipeInv, ItemInv, Waits
<1> QED BY <1>3, <1>4, <1>5, <1>6 DEF PipeInv, ItemInv

\* What the queue holds after a send.
LEMMA SentQueue ==
  ASSUME TypeOK, NEW n \in Nodes, NEW i \in Items, EnqueueSend(n, i)
  PROVE  /\ DOMAIN queue[n] = 1..Len(queue[n]) /\ Len(queue[n]) \in Nat
         /\ DOMAIN queue'[n] = 1..Len(queue[n]) + 1
         /\ queue'[n][Len(queue[n]) + 1] = i
         /\ \A k \in 1..Len(queue[n]) : queue'[n][k] = queue[n][k]
         /\ ContentsOf(queue'[n]) = ContentsOf(queue[n]) \cup {i}
<1>1. queue'[n] = Append(queue[n], i) /\ queue[n] \in Seq(Items)
  BY DEF EnqueueSend, TypeOK
<1>2. /\ DOMAIN queue[n] = 1..Len(queue[n]) /\ Len(queue[n]) \in Nat
      /\ DOMAIN queue'[n] = 1..Len(queue[n]) + 1
      /\ queue'[n][Len(queue[n]) + 1] = i
      /\ \A k \in 1..Len(queue[n]) : queue'[n][k] = queue[n][k]
  BY <1>1
<1>3. \A k \in DOMAIN queue'[n] : queue'[n][k] \in ContentsOf(queue[n]) \cup {i}
  BY <1>2 DEF ContentsOf
<1>4. \A k \in DOMAIN queue[n] : queue[n][k] \in ContentsOf(queue'[n])
  BY <1>2 DEF ContentsOf
<1>5. i \in ContentsOf(queue'[n])
  BY <1>2 DEF ContentsOf
<1> QED BY <1>2, <1>3, <1>4, <1>5 DEF ContentsOf

LEMMA SendKeeps ==
  ASSUME TypeOK, PipeInv, NEW n \in Nodes, NEW i \in Items, EnqueueSend(n, i)
  PROVE  PipeInv'
<1>1. Fine(n)
  BY EnqueueFine DEF PipeInv, NodesInv
<1>2. /\ senders'[n] = senders[n] \ {i} /\ \A m \in Nodes \ {n} : senders'[m] = senders[m]
      /\ \A m \in Nodes \ {n} : queue'[m] = queue[m]
      /\ UNCHANGED <<fetched, cursor, applied>> /\ accepted' = accepted \cup {i}
      /\ i \in senders[n]
  BY DEF EnqueueSend, TypeOK
<1>3. NodesInv' /\ Batches' \subseteq Batches
  BY <1>1, FineKeeps DEF PipeInv
<1>4. LogInv' /\ PageInv' /\ AppliedInv'
  BY <1>1, <1>2, LogsKeep DEF Fine, PipeInv, ItemInv
<1>5. OneBatchEach'
  BY <1>2, <1>3 DEF PipeInv, ItemInv, OneBatchEach
<1>6. /\ i \notin accepted /\ \A m \in Nodes : i \notin ContentsOf(queue[m])
      /\ \A b \in Batches : i \notin b.items
      /\ \A m \in Nodes \ {n} : i \notin senders[m]
  BY <1>2 DEF PipeInv, ItemInv, Waits, OneBatchEach
<1>7. ContentsOf(queue'[n]) = ContentsOf(queue[n]) \cup {i}
  BY SentQueue
<1>8. \A m \in Nodes \ {n} : ContentsOf(queue'[m]) = ContentsOf(queue[m])
  BY <1>2
<1>9. ASSUME NEW j \in DOMAIN queue'[n], NEW k \in DOMAIN queue'[n], queue'[n][j] = queue'[n][k]
      PROVE  j = k
  <2>1. /\ DOMAIN queue[n] = 1..Len(queue[n]) /\ Len(queue[n]) \in Nat
        /\ DOMAIN queue'[n] = 1..Len(queue[n]) + 1
        /\ queue'[n][Len(queue[n]) + 1] = i
        /\ \A l \in 1..Len(queue[n]) : queue'[n][l] = queue[n][l]
    BY SentQueue
  <2>2. \A l \in 1..Len(queue[n]) : queue'[n][l] # i
    BY <1>6, <2>1 DEF ContentsOf
  <2>3. j \in 1..Len(queue[n]) \/ j = Len(queue[n]) + 1
    BY <2>1
  <2>4. k \in 1..Len(queue[n]) \/ k = Len(queue[n]) + 1
    BY <2>1
  <2>5. CASE j = Len(queue[n]) + 1 \/ k = Len(queue[n]) + 1
    BY <1>9, <2>1, <2>2, <2>3, <2>4, <2>5
  <2>6. CASE j \in 1..Len(queue[n]) /\ k \in 1..Len(queue[n])
    <3>1. queue[n][j] = queue[n][k]
      BY <1>9, <2>1, <2>6
    <3> QED BY <2>1, <2>6, <3>1 DEF PipeInv, ItemInv, Waits
  <2> QED BY <2>3, <2>4, <2>5, <2>6
<1>10. ASSUME NEW m \in Nodes
       PROVE  /\ \A j, k \in DOMAIN queue'[m] : queue'[m][j] = queue'[m][k] => j = k
              /\ ContentsOf(queue'[m]) \subseteq accepted'
              /\ \A b \in Batches' : b.items \cap ContentsOf(queue'[m]) = {}
              /\ senders'[m] \cap accepted' = {}
              /\ \A l \in Nodes \ {m} :
                   /\ senders'[l] \cap senders'[m] = {}
                   /\ ContentsOf(queue'[m]) \cap ContentsOf(queue'[l]) = {}
  <2>1. \A j, k \in DOMAIN queue'[m] : queue'[m][j] = queue'[m][k] => j = k
    BY <1>2, <1>9 DEF PipeInv, ItemInv, Waits
  <2>2. /\ ContentsOf(queue'[m]) \subseteq accepted'
        /\ \A b \in Batches' : b.items \cap ContentsOf(queue'[m]) = {}
        /\ senders'[m] \cap accepted' = {}
    BY <1>2, <1>3, <1>6, <1>7, <1>8 DEF PipeInv, ItemInv, Waits
  <2>3. \A l \in Nodes \ {m} : senders'[l] \cap senders'[m] = {}
    BY <1>2 DEF PipeInv, ItemInv, Waits
  <2>4. \A l \in Nodes \ {m} : ContentsOf(queue[m]) \cap ContentsOf(queue[l]) = {}
    BY DEF PipeInv, ItemInv, Waits
  <2>5. \A l \in Nodes \ {m} : ContentsOf(queue'[m]) \cap ContentsOf(queue'[l]) = {}
    BY <1>6, <1>7, <1>8, <2>4
  <2> QED BY <2>1, <2>2, <2>3, <2>5
<1>11. Waits'
  BY <1>10 DEF Waits, ContentsOf
<1> QED BY <1>3, <1>4, <1>5, <1>11 DEF PipeInv, ItemInv

\* The first k of a queue of different records, and the rest.
LEMMA SplitQueue ==
  ASSUME NEW q \in Seq(Items), NEW k \in 1..Len(q)
  PROVE  /\ ContentsOf(SubSeq(q, 1, k)) # {}
         /\ ContentsOf(SubSeq(q, 1, k)) \subseteq ContentsOf(q)
         /\ ContentsOf(SubSeq(q, k + 1, Len(q))) \subseteq ContentsOf(q)
         /\ ContentsOf(q) \subseteq ContentsOf(SubSeq(q, 1, k)) \cup ContentsOf(SubSeq(q, k + 1, Len(q)))
         /\ (\A i, j \in DOMAIN q : q[i] = q[j] => i = j) =>
              /\ ContentsOf(SubSeq(q, 1, k)) \cap ContentsOf(SubSeq(q, k + 1, Len(q))) = {}
              /\ \A i, j \in DOMAIN SubSeq(q, k + 1, Len(q)) :
                   SubSeq(q, k + 1, Len(q))[i] = SubSeq(q, k + 1, Len(q))[j] => i = j
<1> DEFINE a == SubSeq(q, 1, k)
           z == SubSeq(q, k + 1, Len(q))
<1>1. /\ Len(q) \in Nat /\ k \in Nat /\ k >= 1 /\ k <= Len(q) /\ DOMAIN q = 1..Len(q)
      /\ DOMAIN a = 1..k /\ \A i \in 1..k : a[i] = q[i]
      /\ DOMAIN z = 1..(Len(q) - k) /\ \A i \in 1..(Len(q) - k) : z[i] = q[k + i]
  OBVIOUS
<1> HIDE DEF a, z
<1>2. a[1] \in ContentsOf(a)
  BY <1>1 DEF ContentsOf
<1>3. ContentsOf(a) \subseteq ContentsOf(q)
  BY <1>1 DEF ContentsOf
<1>4. ASSUME NEW i \in DOMAIN z PROVE k + i \in DOMAIN q /\ z[i] = q[k + i] /\ i \in Nat /\ i > 0
  BY <1>1, <1>4
<1>5. ContentsOf(z) \subseteq ContentsOf(q)
  BY <1>4 DEF ContentsOf
<1>6. ContentsOf(q) \subseteq ContentsOf(a) \cup ContentsOf(z)
  <2>1. ASSUME NEW j \in DOMAIN q PROVE q[j] \in ContentsOf(a) \cup ContentsOf(z)
    <3>1. CASE j <= k
      BY <1>1, <2>1, <3>1 DEF ContentsOf
    <3>2. CASE ~(j <= k)
      <4>1. j - k \in 1..(Len(q) - k) /\ k + (j - k) = j
        BY <1>1, <2>1, <3>2
      <4>2. z[j - k] = q[j] /\ j - k \in DOMAIN z
        BY <1>1, <4>1
      <4> QED BY <4>2 DEF ContentsOf
    <3> QED BY <3>1, <3>2
  <2> QED BY <2>1 DEF ContentsOf
<1>7. ASSUME \A i, j \in DOMAIN q : q[i] = q[j] => i = j
      PROVE  /\ ContentsOf(a) \cap ContentsOf(z) = {}
             /\ \A i, j \in DOMAIN z : z[i] = z[j] => i = j
  <2>1. ASSUME NEW i \in DOMAIN a, NEW j \in DOMAIN z PROVE a[i] # z[j]
    BY <1>1, <1>4, <1>7
  <2>2. ASSUME NEW i \in DOMAIN z, NEW j \in DOMAIN z, z[i] = z[j] PROVE i = j
    <3>1. k + i = k + j
      BY <1>4, <1>7, <2>2
    <3> QED BY <1>1, <1>4, <3>1
  <2> QED BY <2>1, <2>2 DEF ContentsOf
<1> QED BY <1>2, <1>3, <1>5, <1>6, <1>7 DEF a, z

LEMMA CollectKeeps ==
  ASSUME TypeOK, PipeInv, NEW n \in Nodes, Collect(n)
  PROVE  PipeInv'
<1>1. PICK k \in 1..Len(queue[n]) :
        /\ pending' = [pending EXCEPT ![n] = {[producer |-> n, seq |-> sequence[n] + 1,
                                              items |-> ContentsOf(SubSeq(queue[n], 1, k))]}]
        /\ queue' = [queue EXCEPT ![n] = SubSeq(@, k + 1, Len(@))]
  BY DEF Collect
<1>2. PICK b : b = [producer |-> n, seq |-> sequence[n] + 1, items |-> ContentsOf(SubSeq(queue[n], 1, k))]
  OBVIOUS
<1>3. /\ b.producer = n /\ b.seq = sequence[n] + 1 /\ b.items = ContentsOf(SubSeq(queue[n], 1, k))
      /\ pending'[n] = {b} /\ queue'[n] = SubSeq(queue[n], k + 1, Len(queue[n]))
      /\ sequence'[n] = sequence[n] + 1 /\ Working(n) /\ pending[n] = {}
      /\ UNCHANGED <<mode, senders, spooling, stage, position, fetched, cursor, applied, accepted>>
      /\ UNCHANGED <<active, rotated, offset, inflight, retired, log, lastId, marker>>
      /\ \A m \in Nodes \ {n} : /\ pending'[m] = pending[m] /\ queue'[m] = queue[m]
                               /\ sequence'[m] = sequence[m]
  BY <1>1, <1>2 DEF Collect, TypeOK
<1>4. queue[n] \in Seq(Items)
  BY DEF TypeOK
<1>5. /\ b.items # {} /\ b.items \subseteq ContentsOf(queue[n])
      /\ ContentsOf(queue'[n]) \subseteq ContentsOf(queue[n])
      /\ b.items \cap ContentsOf(queue'[n]) = {}
      /\ \A i, j \in DOMAIN queue'[n] : queue'[n][i] = queue'[n][j] => i = j
  BY <1>3, <1>4, SplitQueue DEF PipeInv, ItemInv, Waits
<1>6. \A c \in Batches : b.items \cap c.items = {} /\ c # b
  BY <1>5 DEF PipeInv, ItemInv, Waits
<1>7. ~Published(b)
  BY <1>6 DEF Published, Batches
<1>8. NodeInv(n)' /\ Copies(n)' = Copies(n) \cup {b}
  BY <1>3, <1>7, CollectFine DEF PipeInv, NodesInv
<1>9. \A m \in Nodes \ {n} : NodeInv(m)' /\ Copies(m)' = Copies(m)
  BY <1>3, StillKeeps DEF Still, Published, PipeInv, NodesInv
<1>10. NodesInv' /\ Batches' \subseteq Batches \cup {b}
  BY <1>3, <1>8, <1>9 DEF NodesInv, Batches
<1>11. LogInv' /\ PageInv' /\ AppliedInv'
  BY <1>3 DEF PipeInv, ItemInv, LogInv, PageInv, AppliedInv, Behind
<1>12. ContentsOf(queue[n]) \subseteq accepted
  BY DEF PipeInv, ItemInv, Waits
<1>13. OneBatchEach'
  BY <1>3, <1>5, <1>6, <1>10, <1>12 DEF PipeInv, ItemInv, OneBatchEach
<1>14. ASSUME NEW m \in Nodes
       PROVE  /\ \A i, j \in DOMAIN queue'[m] : queue'[m][i] = queue'[m][j] => i = j
              /\ ContentsOf(queue'[m]) \subseteq ContentsOf(queue[m])
              /\ b.items \cap ContentsOf(queue'[m]) = {}
  <2>1. CASE m = n
    BY <1>5, <2>1
  <2>2. CASE m # n
    <3>1. queue'[m] = queue[m]
      BY <1>3, <2>2
    <3>2. /\ \A i, j \in DOMAIN queue[m] : queue[m][i] = queue[m][j] => i = j
          /\ ContentsOf(queue[n]) \cap ContentsOf(queue[m]) = {}
      BY <2>2 DEF PipeInv, ItemInv, Waits
    <3> QED BY <1>5, <3>1, <3>2
  <2> QED BY <2>1, <2>2
<1>15. Waits'
  <2>1. ASSUME NEW m \in Nodes
        PROVE  /\ \A b2 \in Batches' : b2.items \cap ContentsOf(queue'[m]) = {}
               /\ ContentsOf(queue'[m]) \subseteq accepted
               /\ senders[m] \cap accepted = {}
               /\ \A l \in Nodes \ {m} :
                    /\ senders[l] \cap senders[m] = {}
                    /\ ContentsOf(queue'[m]) \cap ContentsOf(queue'[l]) = {}
    <3>1. \A l \in Nodes : ContentsOf(queue'[l]) \subseteq ContentsOf(queue[l])
      BY <1>14
    <3>2. /\ ContentsOf(queue[m]) \subseteq accepted /\ senders[m] \cap accepted = {}
          /\ \A c \in Batches : c.items \cap ContentsOf(queue[m]) = {}
          /\ \A l \in Nodes \ {m} : senders[l] \cap senders[m] = {}
          /\ \A l \in Nodes \ {m} : ContentsOf(queue[m]) \cap ContentsOf(queue[l]) = {}
      BY DEF PipeInv, ItemInv, Waits
    <3>3. \A c \in Batches' : c.items \cap ContentsOf(queue'[m]) = {}
      BY <1>10, <1>14, <3>2
    <3>4. \A l \in Nodes \ {m} : ContentsOf(queue'[m]) \cap ContentsOf(queue'[l]) = {}
      BY <3>1, <3>2
    <3> QED BY <3>1, <3>2, <3>3, <3>4
  <2>2. senders' = senders /\ accepted' = accepted
    BY <1>3
  <2>3. \A m \in Nodes : \A i, j \in DOMAIN queue'[m] : queue'[m][i] = queue'[m][j] => i = j
    BY <1>14
  <2>4. \A m \in Nodes : ContentsOf(queue[m])' = ContentsOf(queue'[m])
    BY DEF ContentsOf
  <2> QED BY <2>1, <2>2, <2>3, <2>4 DEF Waits
<1> QED BY <1>10, <1>11, <1>13, <1>15 DEF PipeInv, ItemInv

\* A page: no unread entry before its last one is missing.
LEMMA ReadKeeps ==
  ASSUME TypeOK, TrimInv, PipeInv, NEW n \in Nodes, ConsumeRead(n)
  PROVE  PipeInv'
<1>1. PICK top \in Unread :
        fetched' = [fetched EXCEPT ![n] = {e \in Unread : e.id <= top.id}]
  BY DEF ConsumeRead
<1>2. /\ fetched'[n] = {e \in Unread : e.id <= top.id}
      /\ \A m \in Nodes \ {n} : fetched'[m] = fetched[m]
      /\ UNCHANGED <<mode, senders, queue, pending, sequence, spooling, stage, position, active>>
      /\ UNCHANGED <<rotated, offset, retired, inflight, log, lastId, marker>>
      /\ UNCHANGED <<cursor, applied, accepted>>
  BY <1>1 DEF ConsumeRead, TypeOK
<1>3. /\ low \in Nat /\ cursor \in Nat /\ low <= cursor /\ \A e \in log : e.id \in Nat
  BY DEF TypeOK, Entry, TrimInv
<1>4. Unread = {e \in log : e.id > cursor} /\ top \in log
  BY <1>3 DEF Unread, Stream
<1>5. PageInv'
  <2>1. /\ fetched'[n] \subseteq log
        /\ \A f \in fetched'[n], e \in log : e.id <= f.id /\ e.id > cursor => e \in fetched'[n]
    BY <1>2, <1>3, <1>4
  <2> QED BY <1>2, <2>1 DEF PipeInv, ItemInv, PageInv
<1>6. LogInv' /\ AppliedInv'
  BY <1>2 DEF PipeInv, ItemInv, LogInv, AppliedInv, Behind
<1>7. Fine(n)
  BY ConsumeFine DEF Consume, PipeInv, NodesInv
<1>8. NodesInv' /\ Batches' \subseteq Batches
  BY <1>7, FineKeeps DEF PipeInv
<1>9. Waits' /\ OneBatchEach'
  BY <1>2, <1>8, WaitsKeeps DEF PipeInv, ItemInv
<1> QED BY <1>5, <1>6, <1>8, <1>9 DEF PipeInv, ItemInv

\* The transaction adds exactly what lies between the old cursor and the new.
LEMMA CommitAdds ==
  ASSUME TypeOK, PipeInv, NEW n \in Nodes, Commit(n)
  PROVE  /\ \A e \in log : e.id <= cursor' <=> e.id <= cursor \/ e \in New(n)
         /\ cursor <= cursor' /\ cursor' <= lastId /\ New(n) \subseteq log
<1>1. /\ cursor \in Nat /\ lastId \in Nat /\ cursor <= lastId
      /\ \A e \in log : e.id \in Nat /\ e.id <= lastId
  BY DEF TypeOK, Entry, PipeInv, ItemInv, LogInv
<1>2. New(n) \subseteq log /\ \A e \in New(n) : e \in fetched[n] /\ e.id > cursor
  BY DEF New, PipeInv, ItemInv, PageInv
<1>3. CASE New(n) = {} /\ UNCHANGED cursor
  BY <1>1, <1>2, <1>3
<1>4. ASSUME NEW last \in New(n), \A e \in New(n) : e.id <= last.id, cursor' = last.id
      PROVE  /\ \A e \in log : e.id <= cursor' <=> e.id <= cursor \/ e \in New(n)
             /\ cursor <= cursor' /\ cursor' <= lastId
  <2>1. \A e \in log : e.id <= last.id /\ e.id > cursor => e \in New(n)
    BY <1>2 DEF New, PipeInv, ItemInv, PageInv
  <2> QED BY <1>1, <1>2, <1>4, <2>1
<1> QED BY <1>2, <1>3, <1>4 DEF Commit

\* Entries that share a record are one entry.
LEMMA OneEntryEach ==
  ASSUME PipeInv, NEW i, NEW e \in log, NEW f \in log, i \in e.batch.items, i \in f.batch.items
  PROVE  e = f
<1>1. e.batch \in Batches /\ f.batch \in Batches
  BY DEF Batches
<1>2. e.batch = f.batch
  BY <1>1 DEF PipeInv, ItemInv, OneBatchEach
<1> QED BY <1>2 DEF PipeInv, ItemInv, LogInv

LEMMA CommitKeeps ==
  ASSUME TypeOK, PipeInv, NEW n \in Nodes, ConsumeCommit(n)
  PROVE  PipeInv'
<1>1. /\ Commit(n) /\ fetched'[n] \in {fetched[n], {}}
      /\ \A m \in Nodes \ {n} : fetched'[m] = fetched[m]
      /\ UNCHANGED <<senders, queue, log, lastId, accepted>>
  BY DEF ConsumeCommit, TypeOK
<1>2. /\ \A e \in log : e.id <= cursor' <=> e.id <= cursor \/ e \in New(n)
      /\ cursor <= cursor' /\ cursor' <= lastId /\ New(n) \subseteq log
  BY <1>1, CommitAdds
<1>3. /\ cursor \in Nat /\ cursor' \in Nat /\ \A e \in log : e.id \in Nat
  BY <1>1, CommitType DEF TypeOK, Entry
<1>4. LogInv'
  BY <1>1, <1>2 DEF PipeInv, ItemInv, LogInv
<1>5. PageInv'
  <2>1. \A m \in Nodes : fetched'[m] \in {fetched[m], {}}
    BY <1>1
  <2>2. \A e \in log : e.id > cursor' => e.id > cursor
    BY <1>2, <1>3
  <2> QED BY <1>1, <2>1, <2>2 DEF PipeInv, ItemInv, PageInv
<1>6. ASSUME NEW i \in Items PROVE applied'[i] = IF Behind(i)' THEN 1 ELSE 0
  <2>1. applied'[i] = Count(i, New(n)) /\ applied[i] = IF Behind(i) THEN 1 ELSE 0
    BY <1>1 DEF Commit, PipeInv, ItemInv, AppliedInv
  <2>2. Behind(i)' <=> Behind(i) \/ \E e \in New(n) : i \in e.batch.items
    BY <1>1, <1>2 DEF Behind
  <2>3. CASE \A e \in New(n) : i \notin e.batch.items
    BY <2>1, <2>2, <2>3 DEF Count
  <2>4. CASE \E e \in New(n) : i \in e.batch.items
    <3>1. PICK e \in New(n) : i \in e.batch.items
      BY <2>4
    <3>2. ~Behind(i)
      <4>1. ~(e.id <= cursor)
        BY <1>2, <1>3 DEF New
      <4> QED BY <1>2, <3>1, <4>1, OneEntryEach DEF Behind
    <3>3. \A f, g \in New(n) : i \in f.batch.items /\ i \in g.batch.items => f = g
      BY <1>2, OneEntryEach
    <3> QED BY <2>1, <2>2, <2>4, <3>2, <3>3 DEF Count
  <2> QED BY <2>3, <2>4
<1>7. Fine(n)
  BY ConsumeFine DEF Consume, PipeInv, NodesInv
<1>8. NodesInv' /\ Batches' \subseteq Batches
  BY <1>7, FineKeeps DEF PipeInv
<1>9. Waits' /\ OneBatchEach'
  BY <1>1, <1>8, WaitsKeeps DEF PipeInv, ItemInv
<1> QED BY <1>4, <1>5, <1>6, <1>8, <1>9 DEF PipeInv, ItemInv, AppliedInv

LEMMA PipeNext == TypeOK /\ DrainInv /\ TrimInv /\ PipeInv /\ [Next]_vars => PipeInv'
<1> SUFFICES ASSUME TypeOK, DrainInv, TrimInv, PipeInv, [Next]_vars PROVE PipeInv'
  OBVIOUS
<1> USE DEF PipeInv, NodesInv
<1>1. CASE UNCHANGED vars
  <2>1. \A m \in Nodes : Still(m)
    BY <1>1 DEF vars, Still, Published
  <2>2. \A m \in Nodes : NodeInv(m)' /\ Copies(m)' = Copies(m)
    BY <2>1, StillKeeps
  <2>3. Batches' = Batches
    BY <1>1, <2>2 DEF vars, Batches
  <2> QED
    BY <1>1, <2>2, <2>3
    DEF vars, ItemInv, OneBatchEach, Waits, LogInv, PageInv, AppliedInv, Behind
<1>2. ASSUME NEW n \in Nodes, Open(n) PROVE PipeInv'
  BY <1>2, OpenFine, MovesKeep DEF Open
<1>3. ASSUME NEW n \in Nodes, NEW i \in Items, EnqueueRefuse(n, i) PROVE PipeInv'
  BY <1>3, EnqueueFine, MovesKeep DEF EnqueueRefuse, TypeOK
<1>4. ASSUME NEW n \in Nodes, PublishOk(n) PROVE PipeInv'
  BY <1>4, PublishOkFine, MovesKeep DEF PublishOk
<1>5. ASSUME NEW n \in Nodes, PublishFail(n) PROVE PipeInv'
  BY <1>5, PublishFailFine, MovesKeep DEF PublishFail
<1>6. ASSUME NEW n \in Nodes, AppendOk(n) PROVE PipeInv'
  BY <1>6, AppendOkFine, MovesKeep DEF AppendOk
<1>7. ASSUME NEW n \in Nodes, AppendFail(n) PROVE PipeInv'
  BY <1>7, AppendFailFine, MovesKeep DEF AppendFail
<1>8. ASSUME NEW n \in Nodes, LateExecute(n) PROVE PipeInv'
  BY <1>8, LateExecuteFine, MovesKeep DEF LateExecute
<1>9. ASSUME NEW n \in Nodes, LateDrop(n) PROVE PipeInv'
  BY <1>9, LateDropFine, MovesKeep DEF LateDrop
<1>10. ASSUME NEW n \in Nodes, ReplayBegin(n) PROVE PipeInv'
  BY <1>10, ReplayBeginFine, MovesKeep DEF ReplayBegin
<1>11. ASSUME NEW n \in Nodes, ReplayLineOk(n) PROVE PipeInv'
  BY <1>11, ReplayLineOkFine, MovesKeep DEF ReplayLineOk
<1>12. ASSUME NEW n \in Nodes, ReplayLineFail(n) \/ ReplayPause(n) PROVE PipeInv'
  BY <1>12, ReplayStopsFine, MovesKeep DEF ReplayLineFail, ReplayPause
<1>13. ASSUME NEW n \in Nodes, ReplayRemoveFile(n) PROVE PipeInv'
  BY <1>13, ReplayRemoveFileFine, MovesKeep DEF ReplayRemoveFile
<1>14. ASSUME NEW n \in Nodes, ReplayRemoveOffset(n) PROVE PipeInv'
  BY <1>14, ReplayRemoveOffsetFine, MovesKeep DEF ReplayRemoveOffset
<1>15. ASSUME NEW n \in Nodes, ReplayCleanup(n) PROVE PipeInv'
  BY <1>15, ReplayCleanupFine, MovesKeep DEF ReplayCleanup
<1>16. ASSUME NEW n \in Nodes, ConsumeAbort(n) \/ ConsumeTrim(n) PROVE PipeInv'
  <2>1. /\ UNCHANGED <<senders, queue, cursor, applied, accepted>>
        /\ \A m \in Nodes : fetched'[m] \in {fetched[m], {}}
    BY <1>16 DEF ConsumeAbort, ConsumeTrim, TypeOK
  <2> QED BY <1>16, <2>1, ConsumeFine, MovesKeep DEF Consume
<1>17. ASSUME NEW n \in Nodes,
              CloseBegin(n) \/ CloseQueue(n) \/ ProducerDrained(n) \/ ProducerCancelled(n)
       PROVE  PipeInv'
  <2>1. /\ UNCHANGED <<senders, fetched, cursor, applied, accepted>>
        /\ \A m \in Nodes : queue'[m] \in {queue[m], <<>>}
    BY <1>17 DEF CloseBegin, CloseQueue, ProducerDrained, ProducerCancelled, TypeOK
  <2> QED BY <1>17, <2>1, StoppingFine, MovesKeep
<1>18. ASSUME NEW n \in Nodes, CloseFinish(n) \/ Crash(n) PROVE PipeInv'
  <2>1. Forget(n) /\ UNCHANGED <<cursor, applied, accepted>>
    BY <1>18 DEF CloseFinish, Crash
  <2>2. \A m \in Nodes : /\ queue'[m] \in {queue[m], <<>>} /\ senders'[m] \subseteq senders[m]
                         /\ fetched'[m] \in {fetched[m], {}}
    BY <2>1 DEF Forget, TypeOK
  <2> QED BY <1>18, <2>1, <2>2, CloseFinishFine, CrashFine, MovesKeep
<1> QED
  BY <1>1, <1>2, <1>3, <1>4, <1>5, <1>6, <1>7, <1>8, <1>9, <1>10, <1>11, <1>12, <1>13, <1>14,
     <1>15, <1>16, <1>17, <1>18, BeginKeeps, SendKeeps, CollectKeeps, ReadKeeps, CommitKeeps
  DEF Next, Produce, Replay, Consume, Close

LEMMA LegacyCopies ==
  ASSUME Init, NEW n \in Nodes
  PROVE  /\ active[n].lines = LegacyLines[n] /\ active[n].exists = (LegacyLines[n] # <<>>)
         /\ active[n].torn = FALSE /\ rotated[n].lines = <<>> /\ rotated[n].exists = FALSE
         /\ rotated[n].torn = FALSE
         /\ Entries(rotated[n].lines) = {}
         /\ Copies(n) = Entries(LegacyLines[n])
         /\ DOMAIN LegacyLines[n] = 1..Len(LegacyLines[n]) /\ Len(LegacyLines[n]) \in Nat
         /\ \A k \in DOMAIN LegacyLines[n] :
              /\ LegacyLines[n][k].producer \in Legacy /\ LegacyLines[n][k].producer \in Foreign(n)
              /\ LegacyLines[n][k].seq \in Nat \ {0}
              /\ LegacyLines[n][k].items \subseteq accepted
<1>1. LegacyLines[n] \in Seq([producer: Legacy, seq: Nat \ {0}, items: SUBSET Items])
  BY LegacyAssumption
<1>2. DOMAIN LegacyLines[n] = 1..Len(LegacyLines[n]) /\ Len(LegacyLines[n]) \in Nat
  BY <1>1, LenProperties
<1>3. ASSUME NEW k \in DOMAIN LegacyLines[n]
      PROVE  /\ LegacyLines[n][k].producer \in Legacy /\ LegacyLines[n][k].producer \in Foreign(n)
             /\ LegacyLines[n][k].seq \in Nat \ {0}
             /\ LegacyLines[n][k].items \subseteq accepted
  <2>1. LegacyLines[n][k] \in [producer: Legacy, seq: Nat \ {0}, items: SUBSET Items]
    BY <1>1, <1>2, ElementOfSeq
  <2> QED BY <2>1 DEF Foreign, Init, ItemsOf
<1>4. /\ active[n].lines = LegacyLines[n] /\ active[n].exists = (LegacyLines[n] # <<>>)
      /\ active[n].torn = FALSE /\ rotated[n].lines = <<>> /\ rotated[n].exists = FALSE
      /\ rotated[n].torn = FALSE
  BY DEF Init, NoFile
<1>5. Entries(rotated[n].lines) = {} /\ pending[n] = {} /\ inflight[n] = {}
  BY <1>4 DEF Entries, Init
<1>6. Copies(n) = Entries(LegacyLines[n])
  <2>1. \A k \in DOMAIN LegacyLines[n] : LegacyLines[n][k] # Garbled
    BY <1>3, IdentityAssumption DEF Garbled, Producers
  <2>2. SpoolLines(n) = Entries(LegacyLines[n]) /\ Garbled \notin SpoolLines(n)
    BY <1>4, <1>5, <2>1 DEF SpoolLines, Entries
  <2> QED BY <1>5, <2>2 DEF Copies
<1> QED BY <1>2, <1>3, <1>4, <1>5, <1>6

LEMMA PipeInit == Init => PipeInv
<1> SUFFICES ASSUME Init PROVE PipeInv
  OBVIOUS
<1>1. /\ log = {} /\ lastId = 0 /\ cursor = 0 /\ \A p \in Producers : marker[p] = 0
      /\ \A i \in Items : applied[i] = 0
      /\ \A n \in Nodes : /\ mode[n] = "down" /\ pending[n] = {} /\ queue[n] = <<>>
                          /\ senders[n] = {} /\ inflight[n] = {} /\ fetched[n] = {}
                          /\ stage[n] = "idle" /\ retired[n] = {} /\ offset[n] = 0
  BY DEF Init
<1>2. ASSUME NEW n \in Nodes PROVE NodeInv(n)
  <2>0. /\ active[n].lines = LegacyLines[n] /\ active[n].torn = FALSE
        /\ active[n].exists = (LegacyLines[n] # <<>>)
        /\ rotated[n].lines = <<>> /\ rotated[n].exists = FALSE /\ rotated[n].torn = FALSE
        /\ Entries(rotated[n].lines) = {} /\ Copies(n) = Entries(LegacyLines[n])
        /\ \A k \in DOMAIN LegacyLines[n] :
             /\ LegacyLines[n][k].producer \in Legacy /\ LegacyLines[n][k].producer \in Foreign(n)
             /\ LegacyLines[n][k].seq \in Nat \ {0}
    BY LegacyCopies
  <2>1. \A b \in Copies(n) : /\ b.producer \in Legacy /\ b.producer \in Foreign(n)
                            /\ b.seq \in Nat \ {0} /\ b \in Entries(LegacyLines[n])
    BY <2>0 DEF Entries
  <2>2. Absent(active[n]) /\ Absent(rotated[n])
    BY <2>0 DEF Absent
  <2>3. Resting(n) /\ ~Running(n)
    BY <1>1 DEF Resting, Running
  <2>4. Owned(n) /\ Numbered(n)
    BY <1>1, <2>1, <2>3 DEF Owned, Own, Numbered
  <2>5. OneNumber(n)
    <3>1. ASSUME NEW b \in Copies(n), NEW c \in Copies(n), b.producer = c.producer, b.seq = c.seq
          PROVE  b = c
      <4>1. PICK j \in DOMAIN LegacyLines[n] : b = LegacyLines[n][j]
        BY <2>1 DEF Entries
      <4>2. PICK k \in DOMAIN LegacyLines[n] : c = LegacyLines[n][k]
        BY <2>1 DEF Entries
      <4> QED BY <3>1, <4>1, <4>2, LegacyAssumption
    <3> QED BY <3>1 DEF OneNumber
  <2>6. Sorted(n)
    BY <2>0, LegacyAssumption DEF Sorted, InOrder
  <2>7. PassedSent(n) /\ SpoolFirst(n) /\ LateFirst(n)
    BY <1>1, <2>0, <2>3 DEF PassedSent, SpoolFirst, LateFirst
  <2>8. Exact(n)
    BY <1>1, <2>1 DEF Exact, Published, Unsent, Producers
  <2> QED BY <2>2, <2>3, <2>4, <2>5, <2>6, <2>7, <2>8 DEF NodeInv
<1>3. ASSUME NEW b \in Batches PROVE \E n \in Nodes : \E k \in DOMAIN LegacyLines[n] : b = LegacyLines[n][k]
  <2>1. PICK n \in Nodes : b \in Copies(n)
    BY <1>1 DEF Batches
  <2>2. Copies(n) = Entries(LegacyLines[n])
    BY LegacyCopies
  <2> QED BY <2>1, <2>2 DEF Entries
<1>4. OneBatchEach
  <2>1. ASSUME NEW b \in Batches, NEW c \in Batches, b.items \cap c.items # {} PROVE b = c
    <3>1. PICK n \in Nodes : \E k \in DOMAIN LegacyLines[n] : b = LegacyLines[n][k]
      BY <1>3
    <3>2. PICK m \in Nodes : \E k \in DOMAIN LegacyLines[m] : c = LegacyLines[m][k]
      BY <1>3
    <3>3. PICK j \in DOMAIN LegacyLines[n] : b = LegacyLines[n][j]
      BY <3>1
    <3>4. PICK k \in DOMAIN LegacyLines[m] : c = LegacyLines[m][k]
      BY <3>2
    <3> QED BY <2>1, <3>3, <3>4, LegacyAssumption
  <2>2. ASSUME NEW b \in Batches PROVE b.items \subseteq accepted
    <3>1. PICK n \in Nodes : \E k \in DOMAIN LegacyLines[n] : b = LegacyLines[n][k]
      BY <1>3
    <3>2. PICK k \in DOMAIN LegacyLines[n] : b = LegacyLines[n][k]
      BY <3>1
    <3> QED BY <3>2 , LegacyCopies
  <2> QED BY <2>1, <2>2 DEF OneBatchEach
<1>5. Waits
  <2>1. \A n \in Nodes : ContentsOf(queue[n]) = {} /\ DOMAIN queue[n] = {}
    BY <1>1 DEF ContentsOf
  <2> QED BY <1>1, <2>1 DEF Waits
<1>6. LogInv /\ PageInv /\ AppliedInv
  BY <1>1 DEF LogInv, PageInv, AppliedInv, Behind
<1> QED BY <1>2, <1>4, <1>5, <1>6 DEF PipeInv, NodesInv, ItemInv

\* The five invariants the pipeline rests on hold together.
Inv == TypeOK /\ DrainInv /\ TrimInv /\ PipeInv

LEMMA Inductive == Spec => []Inv
<1>1. Init => Inv
  BY InitType, DrainInit, TrimInit, PipeInit DEF Inv
<1>2. Inv /\ [Next]_vars => Inv'
  BY NextType, DrainNext, TrimNext, PipeNext DEF Inv
<1> QED BY <1>1, <1>2, PTL DEF Spec

\* Exactly-once into the stream: a batch that may still be sent, from a producer's
\* hands, a spool or a late command, is in the stream exactly when its producer's
\* marker says so, whatever replies are lost, whatever the disk leaves of a line and
\* whenever gateways die.
THEOREM MarkersAreExact == Spec => []MarkerExact
<1>1. Inv => MarkerExact
  <2> SUFFICES ASSUME Inv, NEW n \in Nodes, NEW b \in Copies(n)
               PROVE  Published(b) <=> marker[b.producer] >= b.seq
    BY DEF MarkerExact
  <2>1. b \in Copies(n) /\ NodeInv(n)
    BY DEF Inv, PipeInv, NodesInv
  <2>2. marker[b.producer] \in Nat /\ b.seq \in Nat
    BY <2>1, CopiesType DEF NodeInv, Inv
  <2> QED BY <2>1, <2>2 DEF NodeInv, Exact, Unsent
<1> QED BY <1>1, Inductive, PTL

\* The tables hold each record of the stream up to the cursor once, and no other,
\* whichever consumers race and whatever replies they lose.
THEOREM LedgerIsExact == Spec => []LedgerIsPrefix
<1>1. Inv => LedgerIsPrefix
  <2> SUFFICES ASSUME Inv, NEW i \in Items
               PROVE  applied[i] = Cardinality({e \in log : e.id <= cursor /\ i \in e.batch.items})
    BY DEF LedgerIsPrefix
  <2> DEFINE S == {e \in log : e.id <= cursor /\ i \in e.batch.items}
  <2>1. applied[i] = IF Behind(i) THEN 1 ELSE 0
    BY DEF Inv, PipeInv, ItemInv, AppliedInv
  <2>2. CASE ~Behind(i)
    <3>1. S = {}
      BY <2>2 DEF Behind
    <3> QED BY <2>1, <2>2, <3>1, FS_EmptySet
  <2>3. CASE Behind(i)
    <3>1. PICK e \in log : e.id <= cursor /\ i \in e.batch.items
      BY <2>3 DEF Behind
    <3>2. S = {e}
      BY <3>1, OneEntryEach DEF Inv
    <3> QED BY <2>1, <2>3, <3>2, FS_Singleton
  <2> QED BY <2>2, <2>3
<1> QED BY <1>1, Inductive, PTL

-----------------------------------------------------------------------------
(***************************************************************************)
(* The ledger.  A record is durable exactly when the stream or a spool has *)
(* it: what a replay has passed is in the stream.                          *)
(***************************************************************************)

Logged(i) == \E e \in log : i \in e.batch.items

Spooled(i) == \E n \in Nodes : \E b \in SpoolLines(n) : i \in b.items

Stored(i) == Logged(i) \/ Spooled(i)

\* The records in a process's memory or on their way.
Carried(n) == ContentsOf(queue[n]) \cup UNION {b.items : b \in pending[n] \cup inflight[n]}

Phased ==
  \A i \in Items :
    /\ Durable(i) <=> Stored(i)
    /\ PhaseOf(i) = IF applied[i] = 1 THEN "applied"
                    ELSE IF Stored(i) THEN "durable"
                    ELSE IF InMemory(i) THEN "accepted"
                    ELSE IF i \in accepted THEN "lost" ELSE "new"

LEMMA DurableIs ==
  ASSUME Inv, NEW i
  PROVE  Durable(i) <=> Stored(i)
<1>1. Garbled.items = {}
  BY DEF Garbled
<1>2. ASSUME Durable(i) PROVE Stored(i)
  <2>1. \A n \in Nodes : Waiting(n) \subseteq SpoolLines(n)
    BY DEF Waiting, SpoolLines, Entries
  <2> QED BY <1>2, <2>1 DEF Durable, Stored, Logged, Spooled
<1>3. ASSUME NEW n \in Nodes, NEW b \in SpoolLines(n), i \in b.items
      PROVE  Durable(i)
  <2>1. /\ b # Garbled /\ b \in Copies(n) /\ NodeInv(n)
    BY <1>1, <1>3 DEF Copies, Inv, PipeInv, NodesInv
  <2>2. CASE ~Unsent(b)
    BY <1>3, <2>1, <2>2 DEF NodeInv, Exact, Published, Durable
  <2>3. CASE Unsent(b)
    <3>1. b \in Waiting(n)
      <4>1. CASE b \in Entries(active[n].lines)
        BY <4>1 DEF Waiting
      <4>2. CASE b \in Entries(rotated[n].lines)
        <5>1. PICK k \in DOMAIN rotated[n].lines : b = rotated[n].lines[k]
          BY <4>2 DEF Entries
        <5>2. k \in Nat /\ position[n] \in Nat /\ offset[n] \in Nat
          BY CopiesType DEF TypeOK, Inv
        <5>3. ~(k <= IF stage[n] = "lines" THEN position[n] ELSE offset[n])
          BY <2>1, <2>3, <5>1 DEF NodeInv, PassedSent
        <5>4. k > IF stage[n] = "lines" THEN position[n] ELSE offset[n]
          BY <5>2, <5>3
        <5> QED BY <5>1, <5>4 DEF Waiting
      <4> QED BY <4>1, <4>2 DEF SpoolLines
    <3> QED BY <1>3, <2>1, <2>3, <3>1 DEF Unsent, Durable
  <2> QED BY <2>2, <2>3
<1>4. ASSUME Logged(i) PROVE Durable(i)
  BY <1>4 DEF Logged, Durable
<1> QED BY <1>2, <1>3, <1>4 DEF Stored, Spooled

LEMMA InMemoryIs ==
  ASSUME NEW i
  PROVE  InMemory(i) <=> \E n \in Nodes : i \in Carried(n)
BY DEF InMemory, Carried

LEMMA PhasedIs == Inv => Phased
<1> SUFFICES ASSUME Inv, NEW i \in Items
             PROVE  /\ Durable(i) <=> Stored(i)
                    /\ PhaseOf(i) = IF applied[i] = 1 THEN "applied"
                                    ELSE IF Stored(i) THEN "durable"
                                    ELSE IF InMemory(i) THEN "accepted"
                                    ELSE IF i \in accepted THEN "lost" ELSE "new"
  BY DEF Phased
<1>1. Durable(i) <=> Stored(i)
  BY DurableIs
<1>2. applied[i] \in {0, 1}
  BY DEF Inv, PipeInv, ItemInv, AppliedInv
<1> QED BY <1>1, <1>2 DEF PhaseOf

LEMMA PhasedNext == Inv' => Phased'
BY PhasedIs, PTL

\* Nothing that was stored is lost; what memory gains was there or is stored, and
\* what is stored now was in memory; a step does not both store and lose.
LEMMA MovesAre ==
  ASSUME Inv, Inv', UNCHANGED <<applied, accepted>>,
         \A i \in Items : Stored(i) => Stored(i)',
         \A i \in Items : InMemory(i)' => InMemory(i) \/ Stored(i)',
         \A i \in Items : Stored(i)' => Stored(i) \/ InMemory(i),
         \/ \A i \in Items : InMemory(i) => InMemory(i)' \/ Stored(i)'
         \/ \A i \in Items : Stored(i)' => Stored(i)
  PROVE  L!Next
<1>1. Phased /\ Phased'
  BY PhasedIs, PhasedNext
<1>2. CASE \A i \in Items : InMemory(i) => InMemory(i)' \/ Stored(i)'
  <2> DEFINE S == {i \in Items : applied[i] # 1 /\ ~Stored(i) /\ Stored(i)'}
  <2>1. ASSUME NEW i \in Items
        PROVE  /\ i \in S => PhaseOf(i) = "accepted" /\ PhaseOf(i)' = "durable"
               /\ i \notin S => PhaseOf(i)' = PhaseOf(i)
    BY <1>1, <1>2 DEF Phased
  <2> HIDE DEF S
  <2>2. S \subseteq Items
    BY DEF S
  <2>3. L!Persist(S)
    BY <2>1, <2>2 DEF L!Persist, L!Move
  <2> QED BY <2>2, <2>3 DEF L!Next
<1>3. CASE \A i \in Items : Stored(i)' => Stored(i)
  <2> DEFINE S == {i \in Items : applied[i] # 1 /\ ~Stored(i) /\ InMemory(i) /\ ~InMemory(i)'}
  <2>0. \A i \in Items : InMemory(i) => i \in accepted
    BY DEF InMemory, Inv, PipeInv, ItemInv, Waits, OneBatchEach, Batches, Copies
  <2>1. ASSUME NEW i \in Items
        PROVE  /\ i \in S => PhaseOf(i) = "accepted" /\ PhaseOf(i)' = "lost"
               /\ i \notin S => PhaseOf(i)' = PhaseOf(i)
    BY <1>1, <1>3, <2>0 DEF Phased
  <2> HIDE DEF S
  <2>2. S \subseteq Items
    BY DEF S
  <2>3. L!Lose(S)
    BY <2>1, <2>2 DEF L!Lose, L!Move
  <2> QED BY <2>2, <2>3 DEF L!Next
<1> QED BY <1>2, <1>3

\* Steps that send nothing and write nothing down.
LEMMA QuietMoves ==
  ASSUME Inv, Inv', UNCHANGED <<applied, accepted, log>>,
         \A m \in Nodes : SpoolLines(m)' = SpoolLines(m),
         \A m \in Nodes : Carried(m)' \subseteq Carried(m) \cup UNION {b.items : b \in SpoolLines(m)}
  PROVE  L!Next
<1>1. \A i \in Items : Stored(i)' <=> Stored(i)
  BY DEF Stored, Logged, Spooled
<1>2. ASSUME NEW i \in Items, InMemory(i)' PROVE InMemory(i) \/ Stored(i)'
  <2>1. PICK m \in Nodes : i \in Carried(m)'
    BY <1>2 DEF InMemory, Carried
  <2>2. CASE i \in Carried(m)
    BY <2>2, InMemoryIs
  <2>3. CASE i \in UNION {b.items : b \in SpoolLines(m)}
    BY <1>1, <2>3 DEF Stored, Spooled
  <2> QED BY <2>1, <2>2, <2>3
<1> QED BY <1>1, <1>2, MovesAre

\* A gateway's memory loses records, or shares those it has with a late command.
LEMMA MemoryMoves ==
  ASSUME Inv, Inv', UNCHANGED <<applied, accepted, log>>,
         \A m \in Nodes : SpoolLines(m)' = SpoolLines(m),
         \A m \in Nodes : /\ queue'[m] \in {queue[m], <<>>} /\ pending'[m] \subseteq pending[m]
                          /\ inflight'[m] \subseteq inflight[m] \cup pending[m] \cup SpoolLines(m)
  PROVE  L!Next
<1>1. ASSUME NEW m \in Nodes
      PROVE  Carried(m)' \subseteq Carried(m) \cup UNION {b.items : b \in SpoolLines(m)}
  <2>1. ContentsOf(queue'[m]) \subseteq ContentsOf(queue[m])
    BY DEF ContentsOf
  <2>2. ContentsOf(queue[m])' = ContentsOf(queue'[m])
    BY DEF ContentsOf
  <2> QED BY <2>1, <2>2 DEF Carried
<1> QED BY <1>1, QuietMoves

\* The script runs for a batch in hand or in the spool.
LEMMA SentMoves ==
  ASSUME Inv, Inv', NEW n \in Nodes, NEW b \in Copies(n), RunPublish(b),
         UNCHANGED <<applied, accepted, queue>>,
         \A m \in Nodes : SpoolLines(m)' = SpoolLines(m),
         \A m \in Nodes : /\ pending'[m] \subseteq pending[m] /\ pending[m] \subseteq pending'[m] \cup {b}
                          /\ inflight'[m] \subseteq inflight[m] /\ inflight[m] \subseteq inflight'[m] \cup {b}
  PROVE  L!Next /\ Published(b)'
<1>1. /\ log \subseteq log' /\ \E e \in log' : e.batch = b
      /\ \A e \in log' : e \in log \/ e.batch = b
  <2>1. Published(b) <=> marker[b.producer] >= b.seq
    <3>1. marker[b.producer] \in Nat /\ b.seq \in Nat
      BY CopiesType DEF Inv
    <3> QED BY <3>1 DEF Inv, PipeInv, NodesInv, NodeInv, Exact, Unsent
  <2>2. CASE UNCHANGED redis /\ marker[b.producer] >= b.seq
    BY <2>1, <2>2 DEF Published
  <2>3. CASE log' = log \cup {[id |-> lastId + 1, batch |-> b]}
    <3> DEFINE e0 == [id |-> lastId + 1, batch |-> b]
    <3>1. log' = log \cup {e0} /\ e0.batch = b
      BY <2>3
    <3> HIDE DEF e0
    <3> QED BY <3>1
  <2> QED BY <2>2, <2>3 DEF RunPublish
<1>2. \A i \in Items : Stored(i)' <=> Stored(i) \/ i \in b.items
  BY <1>1 DEF Stored, Logged, Spooled
<1>3. \A i \in b.items : Stored(i) \/ InMemory(i)
  BY DEF Copies, Stored, Spooled, InMemory
<1>4. ASSUME NEW m \in Nodes PROVE Carried(m)' \subseteq Carried(m) /\ Carried(m) \subseteq Carried(m)' \cup b.items
  BY DEF Carried
<1>5. \A i \in Items : InMemory(i)' => InMemory(i)
  BY <1>4 DEF InMemory, Carried
<1>6. ASSUME NEW i \in Items, InMemory(i) PROVE InMemory(i)' \/ Stored(i)'
  BY <1>2, <1>4, <1>6 DEF InMemory, Carried
<1>7. L!Next
  BY <1>2, <1>3, <1>5, <1>6, MovesAre
<1> QED BY <1>1, <1>7 DEF Published

\* A line for the pending batch, garbled behind a torn one.
LEMMA AppendedMoves ==
  ASSUME Inv, Inv', NEW n \in Nodes, NEW b \in pending[n], UNCHANGED <<applied, accepted, log, queue, inflight>>,
         spooling[n], active'[n] = Appended(active[n], b), pending'[n] \in {pending[n], {}},
         UNCHANGED <<mode, senders, sequence, spooling, stage, position>>,
         UNCHANGED <<rotated, offset, retired, lastId, marker>>,
         \A m \in Nodes \ {n} : active'[m] = active[m] /\ pending'[m] = pending[m]
  PROVE  L!Next /\ (~active[n].torn => \A i \in b.items : Stored(i)')
<1>1. PICK x \in {Garbled, b} : /\ SpoolLines(n)' = SpoolLines(n) \cup {x} /\ pending[n] = {b}
                               /\ (~active[n].torn => x = b)
  BY AppendedFine DEF Inv, PipeInv, NodesInv
<1>2. \A m \in Nodes \ {n} : SpoolLines(m)' = SpoolLines(m)
  BY DEF SpoolLines
<1>3. \A i : Stored(i)' <=> Stored(i) \/ i \in x.items
  BY <1>1, <1>2 DEF Stored, Logged, Spooled
<1>4. ASSUME NEW m \in Nodes PROVE Carried(m)' \subseteq Carried(m) /\ Carried(m) \subseteq Carried(m)' \cup b.items
  BY <1>1 DEF Carried
<1>5. \A i \in Items : InMemory(i)' => InMemory(i)
  BY <1>4 DEF InMemory, Carried
<1>6. \A i \in b.items : InMemory(i)
  BY DEF InMemory
<1>7. CASE x = b
  <2>1. ASSUME NEW i \in Items, InMemory(i) PROVE InMemory(i)' \/ Stored(i)'
    BY <1>3, <1>4, <1>7, <2>1 DEF InMemory, Carried
  <2>2. L!Next
    BY <1>3, <1>5, <1>6, <1>7, <2>1, MovesAre
  <2> QED BY <1>3, <1>7, <2>2
<1>8. CASE x = Garbled
  <2>1. \A i \in Items : Stored(i)' <=> Stored(i)
    BY <1>3, <1>8 DEF Garbled
  <2>2. L!Next
    BY <1>5, <2>1, MovesAre
  <2> QED BY <1>1, <1>3, <2>2
<1> QED BY <1>7, <1>8

LEMMA SendMoves ==
  ASSUME Inv, Inv', NEW n \in Nodes, NEW i \in Items, EnqueueSend(n, i)
  PROVE  L!Next
<1>1. /\ UNCHANGED <<applied, log, active, rotated, pending, inflight>> /\ accepted' = accepted \cup {i}
      /\ i \in senders[n] /\ \A m \in Nodes \ {n} : queue'[m] = queue[m]
  BY DEF EnqueueSend, Inv, TypeOK
<1>2. ContentsOf(queue'[n]) = ContentsOf(queue[n]) \cup {i}
  BY SentQueue DEF Inv
<1>3. \A j : Stored(j)' <=> Stored(j)
  BY <1>1 DEF Stored, Logged, Spooled, SpoolLines
<1>4. \A m \in Nodes : Carried(m)' = IF m = n THEN Carried(m) \cup {i} ELSE Carried(m)
  <2>1. \A m \in Nodes : ContentsOf(queue[m])' = ContentsOf(queue'[m])
    BY DEF ContentsOf
  <2> QED BY <1>1, <1>2, <2>1 DEF Carried
<1>5. ASSUME NEW j PROVE InMemory(j)' <=> (InMemory(j) \/ j = i)
  <2>1. InMemory(j)' <=> \E m \in Nodes : j \in Carried(m)'
    BY DEF InMemory, Carried
  <2> QED BY <1>4, <2>1, InMemoryIs
<1>6. i \notin accepted
  BY <1>1 DEF Inv, PipeInv, ItemInv, Waits
<1>7. ~InMemory(i) /\ ~Stored(i) /\ applied[i] # 1
  <2>1. \A b \in Batches : i \notin b.items
    BY <1>6 DEF Inv, PipeInv, ItemInv, OneBatchEach
  <2>2. \A m \in Nodes : i \notin ContentsOf(queue[m])
    BY <1>6 DEF Inv, PipeInv, ItemInv, Waits
  <2>3. Garbled.items = {}
    BY DEF Garbled
  <2>4. ~InMemory(i) /\ ~Stored(i)
    BY <2>1, <2>2, <2>3 DEF InMemory, Stored, Logged, Spooled, Batches, Copies
  <2>5. ~Behind(i)
    BY <2>1 DEF Behind, Batches
  <2> QED BY <2>4, <2>5 DEF Inv, PipeInv, ItemInv, AppliedInv
<1>8. Phased /\ Phased'
  BY PhasedIs, PhasedNext
<1>9. ASSUME NEW j \in Items
      PROVE  /\ j = i => PhaseOf(j) = "new" /\ PhaseOf(j)' = "accepted"
             /\ j # i => PhaseOf(j)' = PhaseOf(j)
  BY <1>1, <1>3, <1>5, <1>6, <1>7, <1>8 DEF Phased
<1>10. L!Accept({i})
  BY <1>9 DEF L!Accept, L!Move
<1> QED BY <1>10 DEF L!Next

LEMMA CommitMoves ==
  ASSUME Inv, Inv', NEW n \in Nodes, ConsumeCommit(n)
  PROVE  L!Next
<1>1. UNCHANGED <<log, active, rotated, pending, inflight, queue, accepted>> /\ Commit(n)
  BY DEF ConsumeCommit
<1>2. /\ \A i : Stored(i)' <=> Stored(i)
      /\ \A i : InMemory(i)' <=> InMemory(i)
  BY <1>1 DEF Stored, Logged, Spooled, SpoolLines, InMemory, ContentsOf
<1>3. Phased /\ Phased'
  BY PhasedIs, PhasedNext
<1>4. /\ cursor \in Nat /\ cursor' \in Nat /\ cursor <= cursor' /\ \A e \in log : e.id \in Nat
  BY <1>1, CommitAdvances DEF Inv, TypeOK, Entry
<1>5. \A i \in Items : applied[i] = 1 => applied'[i] = 1
  BY <1>1, <1>4 DEF Inv, PipeInv, ItemInv, AppliedInv, Behind
<1>6. \A i \in Items : applied'[i] = 1 => Stored(i)
  BY <1>1 DEF Inv, PipeInv, ItemInv, AppliedInv, Behind, Stored, Logged
<1> DEFINE S == {i \in Items : applied[i] # 1 /\ applied'[i] = 1}
<1>7. ASSUME NEW i \in Items
      PROVE  /\ i \in S => PhaseOf(i) = "durable" /\ PhaseOf(i)' = "applied"
             /\ i \notin S => PhaseOf(i)' = PhaseOf(i)
  BY <1>1, <1>2, <1>3, <1>5, <1>6 DEF Phased
<1> HIDE DEF S
<1>8. S \subseteq Items
  BY DEF S
<1>9. L!Apply(S)
  BY <1>7, <1>8 DEF L!Apply, L!Move
<1> QED BY <1>8, <1>9 DEF L!Next

LEMMA CollectMoves ==
  ASSUME Inv, Inv', NEW n \in Nodes, Collect(n)
  PROVE  L!Next
<1>1. PICK k \in 1..Len(queue[n]) :
        /\ pending' = [pending EXCEPT ![n] = {[producer |-> n, seq |-> sequence[n] + 1,
                                              items |-> ContentsOf(SubSeq(queue[n], 1, k))]}]
        /\ queue' = [queue EXCEPT ![n] = SubSeq(@, k + 1, Len(@))]
  BY DEF Collect
<1>2. PICK b : b = [producer |-> n, seq |-> sequence[n] + 1, items |-> ContentsOf(SubSeq(queue[n], 1, k))]
  OBVIOUS
<1>3. /\ b.items = ContentsOf(SubSeq(queue[n], 1, k)) /\ pending'[n] = {b}
      /\ queue'[n] = SubSeq(queue[n], k + 1, Len(queue[n]))
      /\ UNCHANGED <<log, active, rotated, inflight, applied, accepted>>
      /\ \A m \in Nodes \ {n} : pending'[m] = pending[m] /\ queue'[m] = queue[m]
  BY <1>1, <1>2 DEF Collect, Inv, TypeOK
<1>4. queue[n] \in Seq(Items)
  BY DEF Inv, TypeOK
<1>5. b.items \subseteq ContentsOf(queue[n]) /\ ContentsOf(queue'[n]) \subseteq ContentsOf(queue[n])
  BY <1>3, <1>4, SplitQueue
<1>6. \A m \in Nodes : SpoolLines(m)' = SpoolLines(m)
  BY <1>3 DEF SpoolLines
<1>7. ASSUME NEW m \in Nodes PROVE Carried(m)' \subseteq Carried(m)
  <2>1. ContentsOf(queue[m])' = ContentsOf(queue'[m])
    BY DEF ContentsOf
  <2>2. CASE m = n
    <3>1. pending'[m] = {b} /\ inflight'[m] = inflight[m] /\ queue'[m] = queue'[n]
      BY <1>3, <2>2
    <3>2. UNION {c.items : c \in pending'[m] \cup inflight'[m]}
            \subseteq b.items \cup UNION {c.items : c \in pending[m] \cup inflight[m]}
      BY <3>1
    <3> QED BY <1>5, <2>1, <2>2, <3>1, <3>2 DEF Carried
  <2>3. CASE m # n
    <3>1. pending'[m] = pending[m] /\ inflight'[m] = inflight[m] /\ queue'[m] = queue[m]
      BY <1>3, <2>3
    <3> QED BY <2>1, <3>1 DEF Carried
  <2> QED BY <2>2, <2>3
<1> QED BY <1>3, <1>6, <1>7, QuietMoves

\* Every line of the file a replay removes is in the stream.
LEMMA RemoveMoves ==
  ASSUME Inv, Inv', NEW n \in Nodes, ReplayRemoveFile(n)
  PROVE  L!Next
<1>1. /\ stage[n] = "lines" /\ position[n] = Len(rotated[n].lines) /\ rotated'[n] = NoFile
      /\ UNCHANGED <<log, active, pending, inflight, queue, applied, accepted>>
      /\ \A m \in Nodes \ {n} : rotated'[m] = rotated[m]
  BY DEF ReplayRemoveFile, Inv, TypeOK
<1>2. ASSUME NEW b \in Entries(rotated[n].lines) PROVE Published(b)
  <2>1. PICK k \in DOMAIN rotated[n].lines : b = rotated[n].lines[k]
    BY DEF Entries
  <2>2. k <= position[n]
    BY <1>1, CopiesType DEF Inv
  <2>3. b # Garbled /\ ~Unsent(b) /\ NodeInv(n)
    BY <1>1, <2>1, <2>2 DEF Inv, PipeInv, NodesInv, NodeInv, PassedSent
  <2>4. b \in Copies(n)
    BY <2>3 DEF Copies, SpoolLines
  <2> QED BY <2>3, <2>4 DEF NodeInv, Exact
<1>3. Entries(rotated'[n].lines) = {}
  BY <1>1 DEF Entries, NoFile
<1>4. /\ \A m \in Nodes : SpoolLines(m)' \subseteq SpoolLines(m)
      /\ \A m \in Nodes : \A b \in SpoolLines(m) : b \in SpoolLines(m)' \/ Published(b)
  BY <1>1, <1>2, <1>3 DEF SpoolLines
<1>5. ASSUME NEW i \in Items PROVE Stored(i)' <=> Stored(i)
  <2>1. Logged(i)' <=> Logged(i)
    BY <1>1 DEF Logged
  <2>2. Spooled(i)' => Spooled(i)
    BY <1>4 DEF Spooled
  <2>3. Spooled(i) => Spooled(i)' \/ Logged(i)
    BY <1>4 DEF Spooled, Logged, Published
  <2> QED BY <2>1, <2>2, <2>3 DEF Stored
<1>6. \A i \in Items : InMemory(i)' <=> InMemory(i)
  BY <1>1 DEF InMemory, ContentsOf
<1> QED BY <1>1, <1>5, <1>6, MovesAre

LEMMA LedgerInit == Init => L!Init
<1> SUFFICES ASSUME Init PROVE L!Init
  OBVIOUS
<1>1. /\ \A n \in Nodes : queue[n] = <<>> /\ pending[n] = {} /\ inflight[n] = {} /\ offset[n] = 0
      /\ \A n \in Nodes : stage[n] = "idle"
      /\ \A i \in Items : applied[i] = 0
  BY DEF Init
<1>2. \A i \in Items : ~InMemory(i)
  BY <1>1 DEF InMemory, ContentsOf
<1>3. Inv
  BY InitType, DrainInit, TrimInit, PipeInit DEF Inv
<1>4. Phased
  BY <1>3, PhasedIs
<1>5. ASSUME NEW i \in accepted PROVE Stored(i)
  <2>1. PICK n \in Nodes : i \in ItemsOf(LegacyLines[n])
    BY DEF Init
  <2>2. PICK k \in DOMAIN LegacyLines[n] : i \in LegacyLines[n][k].items
    BY <2>1 DEF ItemsOf
  <2>3. active[n].lines = LegacyLines[n]
    BY LegacyCopies
  <2> QED BY <2>2, <2>3 DEF Stored, Spooled, SpoolLines, Entries
<1>6. ASSUME NEW i \in Items PROVE PhaseOf(i) \in {"new", "durable"}
  BY <1>1, <1>2, <1>4, <1>5 DEF Phased
<1> QED BY <1>6 DEF L!Init

LEMMA LedgerNext ==
  ASSUME Inv, Inv', [Next]_vars
  PROVE  [L!Next]_[i \in Items |-> PhaseOf(i)]
<1>0. \A n \in Nodes : NodeInv(n)
  BY DEF Inv, PipeInv, NodesInv
<1>1. CASE UNCHANGED vars
  BY <1>1, MemoryMoves DEF vars, SpoolLines
<1>2. ASSUME NEW n \in Nodes,
             \/ Open(n) \/ \E i \in Items : EnqueueBegin(n, i) \/ EnqueueRefuse(n, i)
             \/ PublishFail(n) \/ LateDrop(n)
      PROVE  L!Next
  <2>1. UNCHANGED <<applied, accepted, log, active, rotated, queue, pending>>
    BY <1>2 DEF Open, EnqueueBegin, EnqueueRefuse, PublishFail, LateDrop
  <2>2. inflight \in [Nodes -> SUBSET Batch] /\ pending \in [Nodes -> SUBSET Batch]
    BY DEF Inv, TypeOK
  <2>3. \A m \in Nodes : inflight'[m] \subseteq inflight[m] \cup pending[m]
    <3>1. CASE PublishFail(n)
      BY <2>2, <3>1 DEF PublishFail
    <3>2. CASE LateDrop(n)
      BY <2>2, <3>2 DEF LateDrop
    <3>3. CASE UNCHANGED inflight
      BY <3>3
    <3> QED BY <1>2, <3>1, <3>2, <3>3 DEF Open, EnqueueBegin, EnqueueRefuse
  <2> QED BY <2>1, <2>3, MemoryMoves DEF SpoolLines
<1>3. ASSUME NEW n \in Nodes, PublishOk(n) PROVE L!Next
  <2>1. PICK b \in pending[n] : RunPublish(b)
    BY <1>3 DEF PublishOk
  <2>2. /\ UNCHANGED <<applied, accepted, queue, active, rotated, inflight>> /\ pending'[n] = {}
        /\ \A m \in Nodes \ {n} : pending'[m] = pending[m]
        /\ pending[n] = {b} /\ b \in Copies(n)
    BY <1>0, <1>3, PendingForemost DEF PublishOk, Inv, TypeOK, Copies
  <2>3. \A m \in Nodes : SpoolLines(m)' = SpoolLines(m)
    BY <2>2 DEF SpoolLines
  <2> QED BY <2>1, <2>2, <2>3, SentMoves
<1>4. ASSUME NEW n \in Nodes, LateExecute(n) PROVE L!Next
  <2>1. PICK b \in inflight[n] : RunPublish(b) /\ inflight' = [inflight EXCEPT ![n] = @ \ {b}]
    BY <1>4 DEF LateExecute
  <2>2. /\ UNCHANGED <<applied, accepted, queue, active, rotated, pending>> /\ b \in Copies(n)
        /\ \A m \in Nodes : inflight'[m] \subseteq inflight[m] /\ inflight[m] \subseteq inflight'[m] \cup {b}
    BY <1>4, <2>1 DEF LateExecute, Inv, TypeOK, Copies
  <2>3. \A m \in Nodes : SpoolLines(m)' = SpoolLines(m)
    BY <2>2 DEF SpoolLines
  <2> QED BY <2>1, <2>2, <2>3, SentMoves
<1>5. ASSUME NEW n \in Nodes, ReplayLineOk(n) PROVE L!Next
  <2>1. HasLine(n) /\ NextLine(n) # Garbled /\ RunPublish(NextLine(n))
    BY <1>5 DEF ReplayLineOk
  <2>2. PICK b \in Copies(n) : b = NextLine(n)
    BY <1>0, <2>1, LineForemost DEF Inv
  <2>3. UNCHANGED <<applied, accepted, queue, active, rotated, pending, inflight>>
    BY <1>5 DEF ReplayLineOk
  <2>4. \A m \in Nodes : SpoolLines(m)' = SpoolLines(m)
    BY <2>3 DEF SpoolLines
  <2> QED BY <2>1, <2>2, <2>3, <2>4, SentMoves
<1>6. ASSUME NEW n \in Nodes, AppendOk(n) PROVE L!Next
  <2>1. PICK b \in pending[n] : active' = [active EXCEPT ![n] = Appended(@, b)]
    BY <1>6 DEF AppendOk
  <2>2. /\ active'[n] = Appended(active[n], b) /\ pending'[n] = {}
        /\ \A m \in Nodes \ {n} : active'[m] = active[m] /\ pending'[m] = pending[m]
    BY <1>6, <2>1 DEF AppendOk, Inv, TypeOK
  <2> QED BY <1>6, <2>2, AppendedMoves DEF AppendOk
<1>7. ASSUME NEW n \in Nodes, AppendFail(n) PROVE L!Next
  <2>1. PICK b \in pending[n] : \/ active' = [active EXCEPT ![n] = Appended(@, b)]
                               \/ active' = [active EXCEPT ![n].exists = TRUE]
                               \/ active' = [active EXCEPT ![n].exists = TRUE, ![n].torn = TRUE]
    BY <1>7 DEF AppendFail
  <2>2. CASE active' = [active EXCEPT ![n] = Appended(@, b)]
    <3>1. /\ active'[n] = Appended(active[n], b)
          /\ \A m \in Nodes \ {n} : active'[m] = active[m]
      BY <2>2 DEF Inv, TypeOK
    <3> QED BY <1>7, <3>1, AppendedMoves DEF AppendFail
  <2>3. CASE \/ active' = [active EXCEPT ![n].exists = TRUE]
             \/ active' = [active EXCEPT ![n].exists = TRUE, ![n].torn = TRUE]
    <3>1. \A m \in Nodes : active'[m].lines = active[m].lines
      <4>1. active[n] \in File /\ active \in [Nodes -> File]
        BY DEF Inv, TypeOK
      <4>2. active'[n].lines = active[n].lines
        BY <2>3, <4>1 DEF File
      <4>3. \A m \in Nodes \ {n} : active'[m] = active[m]
        BY <2>3, <4>1
      <4> QED BY <4>2, <4>3
    <3>2. UNCHANGED <<applied, accepted, log, rotated, queue, pending, inflight>>
      BY <1>7 DEF AppendFail
    <3>3. \A m \in Nodes : SpoolLines(m)' = SpoolLines(m)
      BY <3>1, <3>2 DEF SpoolLines
    <3> QED BY <3>2, <3>3, MemoryMoves
  <2> QED BY <2>1, <2>2, <2>3
<1>8. ASSUME NEW n \in Nodes, ReplayBegin(n) PROVE L!Next
  <2>1. UNCHANGED <<applied, accepted, log, queue, pending, inflight>>
    BY <1>8 DEF ReplayBegin
  <2>2. \A m \in Nodes : SpoolLines(m)' = SpoolLines(m)
    <3>1. \/ UNCHANGED <<active, rotated>>
          \/ /\ ~rotated[n].exists /\ rotated' = [rotated EXCEPT ![n] = active[n]]
             /\ active' = [active EXCEPT ![n] = NoFile]
      BY <1>8 DEF ReplayBegin
    <3>2. ASSUME ~rotated[n].exists, rotated' = [rotated EXCEPT ![n] = active[n]],
                 active' = [active EXCEPT ![n] = NoFile]
          PROVE  \A m \in Nodes : SpoolLines(m)' = SpoolLines(m)
      <4>1. /\ rotated'[n] = active[n] /\ active'[n] = NoFile
            /\ \A m \in Nodes \ {n} : rotated'[m] = rotated[m] /\ active'[m] = active[m]
        BY <3>2 DEF Inv, TypeOK
      <4>2. Entries(rotated[n].lines) = {} /\ Entries(NoFile.lines) = {}
        BY <1>0, <3>2 DEF NodeInv, Absent, Entries, NoFile
      <4> QED BY <4>1, <4>2 DEF SpoolLines
    <3> QED BY <3>1, <3>2 DEF SpoolLines
  <2> QED BY <2>1, <2>2, MemoryMoves
<1>9. ASSUME NEW n \in Nodes, ReplayLineFail(n) \/ ReplayPause(n) PROVE L!Next
  <2>1. UNCHANGED <<applied, accepted, log, active, rotated, queue, pending>>
    BY <1>9 DEF ReplayLineFail, ReplayPause
  <2>2. \A m \in Nodes : inflight'[m] \subseteq inflight[m] \cup SpoolLines(m)
    <3>1. CASE ReplayPause(n)
      BY <3>1 DEF ReplayPause
    <3>2. CASE ReplayLineFail(n)
      <4>1. NextLine(n) \in SpoolLines(n)
        BY <1>0, <3>2, LineForemost DEF ReplayLineFail, Inv
      <4> QED BY <3>2, <4>1 DEF ReplayLineFail, Inv, TypeOK
    <3> QED BY <1>9, <3>1, <3>2
  <2> QED BY <2>1, <2>2, MemoryMoves DEF SpoolLines
<1>10. ASSUME NEW n \in Nodes, ReplayRemoveOffset(n) \/ ReplayCleanup(n) PROVE L!Next
  <2>1. UNCHANGED <<applied, accepted, log, active, rotated, queue, pending, inflight>>
    BY <1>10 DEF ReplayRemoveOffset, ReplayCleanup, DeleteMarkers
  <2> QED BY <2>1, MemoryMoves DEF SpoolLines
<1>11. ASSUME NEW n \in Nodes, ConsumeRead(n) \/ ConsumeAbort(n) \/ ConsumeTrim(n) PROVE L!Next
  <2>1. UNCHANGED <<applied, accepted, log, active, rotated, queue, pending, inflight>>
    BY <1>11 DEF ConsumeRead, ConsumeAbort, ConsumeTrim
  <2> QED BY <2>1, MemoryMoves DEF SpoolLines
<1>12. ASSUME NEW n \in Nodes,
              CloseBegin(n) \/ CloseQueue(n) \/ ProducerDrained(n) \/ ProducerCancelled(n)
       PROVE  L!Next
  <2>1. /\ UNCHANGED <<applied, accepted, log, active, rotated, inflight>>
        /\ \A m \in Nodes : queue'[m] \in {queue[m], <<>>} /\ pending'[m] \subseteq pending[m]
    BY <1>12 DEF CloseBegin, CloseQueue, ProducerDrained, ProducerCancelled, Inv, TypeOK
  <2> QED BY <2>1, MemoryMoves DEF SpoolLines
<1>13. ASSUME NEW n \in Nodes, CloseFinish(n) \/ Crash(n) PROVE L!Next
  <2>1. /\ Forget(n) /\ UNCHANGED <<applied, accepted, log, active, rotated, inflight>>
    BY <1>13 DEF CloseFinish, Crash, DeleteMarkers
  <2>2. \A m \in Nodes : queue'[m] \in {queue[m], <<>>} /\ pending'[m] \subseteq pending[m]
    BY <2>1 DEF Forget, Inv, TypeOK
  <2> QED BY <2>1, <2>2, MemoryMoves DEF SpoolLines
<1> QED
  BY <1>1, <1>2, <1>3, <1>4, <1>5, <1>6, <1>7, <1>8, <1>9, <1>10, <1>11, <1>12, <1>13,
     SendMoves, CollectMoves, RemoveMoves, CommitMoves
  DEF Next, Produce, Replay, Consume, Close

\* The pipeline implements Ledger: no record is added to the tables twice, and one
\* that the stream or a spool has is never lost, through lost replies, late commands,
\* failed and torn appends, kills between any two steps of a replay, restarts and
\* shutdowns.
THEOREM LedgerIsRefined == Spec => LedgerRefined
<1>1. Inv /\ Inv' /\ [Next]_vars => [L!Next]_[i \in Items |-> PhaseOf(i)]
  BY LedgerNext
<1> QED BY <1>1, LedgerInit, Inductive, PTL DEF Spec, LedgerRefined, L!Spec

-----------------------------------------------------------------------------
(***************************************************************************)
(* Acknowledging.  Only these two theorems suppose that a refused write    *)
(* leaves nothing of its line behind: with torn lines neither holds.       *)
(***************************************************************************)

Whole == \A n \in Nodes : ~active[n].torn /\ Garbled \notin SpoolLines(n)

LEMMA WholeInit == Init => Whole
<1> SUFFICES ASSUME Init, NEW n \in Nodes
             PROVE  ~active[n].torn /\ Garbled \notin SpoolLines(n)
  BY DEF Whole
<1>1. /\ active[n].lines = LegacyLines[n] /\ ~active[n].torn
      /\ rotated[n].lines = <<>>
  BY DEF Init, NoFile
<1>2. ASSUME NEW k \in DOMAIN LegacyLines[n] PROVE LegacyLines[n][k] # Garbled
  <2>1. LegacyLines[n] \in Seq([producer: Legacy, seq: Nat \ {0}, items: SUBSET Items])
    BY LegacyAssumption
  <2>2. k \in 1..Len(LegacyLines[n])
    BY <2>1, LenProperties
  <2>3. LegacyLines[n][k] \in [producer: Legacy, seq: Nat \ {0}, items: SUBSET Items]
    BY <2>1, <2>2, ElementOfSeq
  <2>4. LegacyLines[n][k].seq # 0
    BY <2>3
  <2> QED BY <2>4 DEF Garbled
<1> QED BY <1>1, <1>2 DEF SpoolLines, Entries

\* What a step does to the two files of a node.
LEMMA FilesMove ==
  ASSUME TypeOK, [Next]_vars, "torn" \notin Faults, NEW n \in Nodes
  PROVE  \/ active'[n] = active[n] /\ rotated'[n] \in {rotated[n], NoFile}
         \/ active'[n] = NoFile /\ rotated'[n] = active[n]
         \/ /\ rotated'[n] = rotated[n]
            /\ active'[n].torn = active[n].torn /\ active'[n].lines = active[n].lines
         \/ rotated'[n] = rotated[n] /\ \E b \in pending[n] : active'[n] = Appended(active[n], b)
<1>0. /\ active \in [Nodes -> File] /\ rotated \in [Nodes -> File]
      /\ active[n] \in File
  BY DEF TypeOK
<1>1. CASE UNCHANGED <<active, rotated>>
  BY <1>1
<1>2. ASSUME NEW m \in Nodes, AppendOk(m)
      PROVE  \/ UNCHANGED <<active[n], rotated[n]>>
             \/ rotated'[n] = rotated[n] /\ \E b \in pending[n] : active'[n] = Appended(active[n], b)
  BY <1>0, <1>2 DEF AppendOk
<1>3. ASSUME NEW m \in Nodes, AppendFail(m)
      PROVE  \/ UNCHANGED <<active[n], rotated[n]>>
             \/ /\ rotated'[n] = rotated[n]
                /\ active'[n].torn = active[n].torn /\ active'[n].lines = active[n].lines
             \/ rotated'[n] = rotated[n] /\ \E b \in pending[n] : active'[n] = Appended(active[n], b)
  <2>1. PICK b \in pending[m] : \/ active' = [active EXCEPT ![m].exists = TRUE]
                               \/ active' = [active EXCEPT ![m] = Appended(@, b)]
    BY <1>3 DEF AppendFail
  <2>2. rotated' = rotated
    BY <1>3 DEF AppendFail
  <2>3. CASE m # n
    BY <1>0, <2>1, <2>2, <2>3
  <2>4. CASE m = n /\ active' = [active EXCEPT ![m].exists = TRUE]
    BY <1>0, <2>2, <2>4 DEF File
  <2>5. CASE m = n /\ active' = [active EXCEPT ![m] = Appended(@, b)]
    BY <1>0, <2>2, <2>5
  <2> QED BY <2>1, <2>3, <2>4, <2>5
<1>4. ASSUME NEW m \in Nodes, ReplayBegin(m)
      PROVE  \/ UNCHANGED <<active[n], rotated[n]>>
             \/ active'[n] = NoFile /\ rotated'[n] = active[n]
  BY <1>0, <1>4 DEF ReplayBegin
<1>5. ASSUME NEW m \in Nodes, ReplayRemoveFile(m)
      PROVE  active'[n] = active[n] /\ rotated'[n] \in {rotated[n], NoFile}
  BY <1>0, <1>5 DEF ReplayRemoveFile
<1>6. ASSUME NEW m \in Nodes,
             \/ Open(m)
             \/ \E i \in Items : EnqueueBegin(m, i) \/ EnqueueSend(m, i) \/ EnqueueRefuse(m, i)
             \/ Collect(m) \/ PublishOk(m) \/ PublishFail(m) \/ LateExecute(m) \/ LateDrop(m)
             \/ ReplayLineOk(m) \/ ReplayLineFail(m) \/ ReplayPause(m)
             \/ ReplayRemoveOffset(m) \/ ReplayCleanup(m)
             \/ Consume(m) \/ CloseBegin(m) \/ Close(m) \/ Crash(m)
      PROVE  UNCHANGED <<active, rotated>>
  BY <1>6 DEF Open, EnqueueBegin, EnqueueSend, EnqueueRefuse, Collect, PublishOk, PublishFail,
     LateExecute, LateDrop, ReplayLineOk, ReplayLineFail, ReplayPause, ReplayRemoveOffset,
     ReplayCleanup, Consume, ConsumeRead, ConsumeCommit, ConsumeAbort, ConsumeTrim,
     CloseBegin, Close, CloseQueue, ProducerDrained, ProducerCancelled, CloseFinish, Crash
<1>7. CASE UNCHANGED vars
  BY <1>1, <1>7 DEF vars
<1> QED BY <1>1, <1>2, <1>3, <1>4, <1>5, <1>6, <1>7 DEF Next, Produce, Replay

LEMMA WholeNext ==
  ASSUME TypeOK, Whole, [Next]_vars, "torn" \notin Faults
  PROVE  Whole'
<1> SUFFICES ASSUME NEW n \in Nodes
             PROVE  ~active'[n].torn /\ Garbled \notin SpoolLines(n)'
  BY DEF Whole
<1>1. /\ ~active[n].torn /\ Garbled \notin Entries(active[n].lines)
      /\ Garbled \notin Entries(rotated[n].lines)
  BY DEF Whole, SpoolLines
<1>2. ~NoFile.torn /\ Entries(NoFile.lines) = {}
  BY DEF NoFile, Entries
<1>3. SpoolLines(n)' = Entries(rotated'[n].lines) \cup Entries(active'[n].lines)
  BY DEF SpoolLines, Entries
<1>4. ASSUME NEW b \in pending[n], active'[n] = Appended(active[n], b)
      PROVE  ~active'[n].torn /\ Garbled \notin Entries(active'[n].lines)
  <2>1. active[n].lines \in Seq(Line) /\ b \in Batch
    BY DEF TypeOK, File
  <2>2. b # Garbled
    BY <2>1 DEF Batch, Garbled
  <2>3. active'[n].lines = Append(active[n].lines, b) /\ ~active'[n].torn
    BY <1>1, <1>4 DEF Appended
  <2> QED BY <1>1, <2>1, <2>2, <2>3, AppendProperties DEF Entries, Line
<1> QED BY <1>1, <1>2, <1>3, <1>4, FilesMove

LEMMA WholeAlways == ASSUME "torn" \notin Faults PROVE Spec => []Whole
<1>1. TypeOK /\ Whole /\ [Next]_vars => Whole'
  BY WholeNext
<1> QED BY <1>1, WholeInit, TypeCorrect, PTL DEF Spec

\* Where no write is torn, every line of a spool file decodes, so that a gateway
\* never refuses to start on what it wrote.
THEOREM SpoolsDecode == ASSUME "torn" \notin Faults PROVE Spec => []SpoolDecodes
<1>1. Whole => SpoolDecodes
  BY DEF Whole, SpoolDecodes
<1> QED BY <1>1, WholeAlways, PTL

\* A producer that keeps running lets go of a batch by persist's two ways only.
LEMMA LetsGo ==
  ASSUME TypeOK, [Next]_vars, NEW n \in Nodes,
         pending[n] # {}, pending'[n] = {}, mode'[n] = mode[n]
  PROVE  PublishOk(n) \/ AppendOk(n)
<1>0. pending \in [Nodes -> SUBSET Batch] /\ DOMAIN mode = Nodes
  BY DEF TypeOK
<1>1. pending' # pending
  BY <1>0
<1>2. ASSUME NEW m \in Nodes, Collect(m) PROVE FALSE
  BY <1>0, <1>2 DEF Collect
<1>3. ASSUME NEW m \in Nodes, PublishOk(m) \/ AppendOk(m) PROVE m = n
  BY <1>0, <1>3 DEF PublishOk, AppendOk
<1>4. ASSUME NEW m \in Nodes, ProducerCancelled(m) PROVE FALSE
  BY <1>0, <1>4 DEF ProducerCancelled
<1>5. ASSUME NEW m \in Nodes, CloseFinish(m) \/ Crash(m) PROVE FALSE
  BY <1>0, <1>5 DEF CloseFinish, Crash, Forget, Running
<1>6. ASSUME NEW m \in Nodes,
             \/ Open(m)
             \/ \E i \in Items : EnqueueBegin(m, i) \/ EnqueueSend(m, i) \/ EnqueueRefuse(m, i)
             \/ PublishFail(m) \/ AppendFail(m) \/ LateExecute(m) \/ LateDrop(m)
             \/ Replay(m) \/ Consume(m) \/ CloseBegin(m)
             \/ CloseQueue(m) \/ ProducerDrained(m)
      PROVE  UNCHANGED pending
  BY <1>6 DEF Open, EnqueueBegin, EnqueueSend, EnqueueRefuse, PublishFail, AppendFail,
     LateExecute, LateDrop, Replay, ReplayBegin, ReplayLineOk, ReplayLineFail, ReplayPause,
     ReplayRemoveFile, ReplayRemoveOffset, ReplayCleanup, Consume, ConsumeRead,
     ConsumeCommit, ConsumeAbort, ConsumeTrim, CloseBegin, CloseQueue, ProducerDrained
<1>7. CASE UNCHANGED vars
  BY <1>1, <1>7 DEF vars
<1> QED BY <1>1, <1>2, <1>3, <1>4, <1>5, <1>6, <1>7 DEF Next, Produce, Close

LEMMA LettingGoStores ==
  ASSUME Inv, Inv', Whole, [Next]_vars, NEW n \in Nodes, pending'[n] = {}, mode'[n] = mode[n],
         NEW b \in pending[n], NEW i \in b.items
  PROVE  Durable(i)'
<1>0. NodeInv(n) /\ TypeOK /\ pending \in [Nodes -> SUBSET Batch] /\ i \in Items
  <2>1. NodeInv(n) /\ TypeOK
    BY DEF Inv, PipeInv, NodesInv
  <2>2. pending \in [Nodes -> SUBSET Batch]
    BY <2>1 DEF TypeOK
  <2>3. b \in Batch
    BY <2>2
  <2>4. b.items \subseteq Items
    BY <2>3 DEF Batch
  <2> QED BY <2>1, <2>2, <2>4
<1>1. CASE PublishOk(n)
  <2>1. pending[n] = {b} /\ b \in Copies(n)
    BY <1>0, <1>1, PendingForemost DEF PublishOk, Copies
  <2>2. /\ RunPublish(b)
        /\ UNCHANGED <<applied, accepted, queue, active, rotated, inflight>>
        /\ \A m \in Nodes \ {n} : pending'[m] = pending[m]
    BY <1>0, <1>1, <2>1 DEF PublishOk
  <2>3. \A m \in Nodes : SpoolLines(m)' = SpoolLines(m)
    BY <2>2 DEF SpoolLines
  <2>4. Published(b)'
    BY <2>1, <2>2, <2>3, SentMoves
  <2> QED BY <2>4 DEF Published, Durable
<1>2. CASE AppendOk(n)
  <2>1. PICK c \in pending[n] : active' = [active EXCEPT ![n] = Appended(@, c)]
    BY <1>2 DEF AppendOk
  <2>2. /\ active'[n] = Appended(active[n], c) /\ spooling[n]
        /\ \A m \in Nodes \ {n} : active'[m] = active[m] /\ pending'[m] = pending[m]
    BY <1>0, <1>2, <2>1 DEF AppendOk, TypeOK
  <2>3. ~active[n].torn
    BY DEF Whole
  <2>4. \A j \in c.items : Stored(j)'
    BY <1>2, <2>2, <2>3, AppendedMoves DEF AppendOk
  <2>5. c = b
    <3>1. \A d \in pending[n] : d \in Copies(n) /\ d.producer = n /\ d.seq = sequence[n]
      BY <1>0 DEF NodeInv, Numbered, Copies
    <3> QED BY <1>0, <3>1 DEF NodeInv, OneNumber
  <2>6. Durable(i)' <=> Stored(i)'
    BY <1>0, PhasedNext DEF Phased
  <2> QED BY <2>4, <2>5, <2>6
<1> QED BY <1>0, <1>1, <1>2, LetsGo

\* persist's nil result: the producer lets go of a batch, other than by being
\* stopped, only when the stream or a complete spool line holds it, so that no
\* acknowledged record hangs on the process's memory.
THEOREM AcknowledgedStays ==
  ASSUME "torn" \notin Faults
  PROVE  Spec => AcknowledgedIsDurable
<1>1. Inv /\ Inv' /\ Whole /\ [Next]_vars =>
        [\A n \in Nodes :
           pending'[n] = {} /\ mode'[n] = mode[n] =>
             \A b \in pending[n] : \A i \in b.items : Durable(i)']_vars
  BY LettingGoStores
<1> QED BY <1>1, Inductive, WholeAlways, PTL DEF Spec, AcknowledgedIsDurable

=============================================================================
