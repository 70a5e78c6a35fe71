----------------------------- MODULE SpoolImport -----------------------------
(***************************************************************************)
(* What a release without Redis has left on the volume: a file of events   *)
(* and a file of counts that PostgreSQL did not take.  Every thirty        *)
(* seconds a pass of at most ten seconds imports both from the start and   *)
(* removes what it has read to the end.                                    *)
(***************************************************************************)
EXTENDS Integers, Sequences

CONSTANTS
  EventLines, CountLines,  \* the two files: sequences of identifiers
  Torn,      \* a line that does not decode
  Budget,    \* lines one pass has the time for
  Failures   \* calls that will fail and passes that will be cut: the bound on faults

IdsOf(lines) == {lines[i] : i \in DOMAIN lines} \ {Torn}

Ends == {"ok", "failed", "lost"}

Idle == [pc |-> "idle", at |-> 1, left |-> 0]

VARIABLES
  file,      \* what is left of each file, empty when it is removed
  table,     \* events of the files that are in the table
  replayed,  \* identifiers of the counts that were imported
  minutes,   \* how often the import has added each count
  seen,      \* history: events that have been in the table
  pass,      \* the pass: its file, its next line, the lines it has time for
  faults     \* faults so far

importVars == <<file, table, replayed, minutes, seen, pass, faults>>

\* An insert whose reply was lost had been executed when its event was spooled.
Init ==
  /\ file = [events |-> EventLines, counts |-> CountLines]
  /\ table \in SUBSET IdsOf(EventLines)
  /\ replayed = {}
  /\ minutes = [c \in IdsOf(CountLines) |-> 0]
  /\ seen = table
  /\ pass = Idle
  /\ faults = 0

Fault(end) ==
  IF end = "ok" THEN UNCHANGED faults
  ELSE faults < Failures /\ faults' = faults + 1

\* Replay, under spoolMu.
Begin ==
  /\ pass.pc = "idle"
  /\ pass' = [pc |-> "events", at |-> 1, left |-> Budget]
  /\ UNCHANGED <<file, table, replayed, minutes, seen, faults>>

\* The next line of a file, which decodes, while there is time.
Reads(kind) ==
  /\ pass.pc = kind
  /\ pass.at <= Len(file[kind])
  /\ file[kind][pass.at] # Torn
  /\ pass.left > 0

NextLine == [pass EXCEPT !.at = @ + 1, !.left = @ - 1]

\* Variant: a pass that fails does not give the mutex back.
ImportEventLocked ==
  /\ Reads("events")
  /\ LET event == file["events"][pass.at] IN
     \E end \in Ends :
       /\ Fault(end)
       /\ table' = IF end = "failed" THEN table ELSE table \cup {event}
       /\ seen' = seen \cup table'
       /\ pass' = IF end = "ok" THEN NextLine ELSE [pass EXCEPT !.pc = "locked"]
  /\ UNCHANGED <<file, replayed, minutes>>

\* One insert; an event that is there already is left as it is.
ImportEvent ==
  /\ Reads("events")
  /\ LET event == file["events"][pass.at] IN
     \E end \in Ends :
       /\ Fault(end)
       /\ table' = IF end = "failed" THEN table ELSE table \cup {event}
       /\ seen' = seen \cup table'
       /\ pass' = IF end = "ok" THEN NextLine ELSE Idle
  /\ UNCHANGED <<file, replayed, minutes>>

\* The identifier and the count, in one transaction.
Add(count) ==
  /\ replayed' = replayed \cup {count}
  /\ minutes' = IF count \in replayed THEN minutes ELSE [minutes EXCEPT ![count] = @ + 1]

ImportCount ==
  /\ Reads("counts")
  /\ \E end \in Ends :
       /\ Fault(end)
       /\ IF end = "failed" THEN UNCHANGED <<replayed, minutes>> ELSE Add(file["counts"][pass.at])
       /\ pass' = IF end = "ok" THEN NextLine ELSE Idle
  /\ UNCHANGED <<file, table, seen>>

\* The end of a file: it is removed, and the events' success is the counts' turn.
Finish(kind) ==
  /\ pass.pc = kind
  /\ pass.at > Len(file[kind])
  /\ \E end \in Ends :
       /\ Fault(end)
       /\ file' = IF end = "failed" THEN file ELSE [file EXCEPT ![kind] = <<>>]
       /\ pass' = IF end = "ok" /\ kind = "events" THEN [pass EXCEPT !.pc = "counts", !.at = 1]
                  ELSE Idle
  /\ UNCHANGED <<table, replayed, minutes, seen>>

\* The ten seconds are over, or the line does not decode.
GiveUp ==
  /\ pass.pc \in {"events", "counts"}
  /\ pass.at <= Len(file[pass.pc])
  /\ ~Reads(pass.pc)
  /\ pass' = Idle
  /\ UNCHANGED <<file, table, replayed, minutes, seen, faults>>

\* A kill, or a database too slow for the time there is.
Cut ==
  /\ pass.pc # "idle"
  /\ Fault("lost")
  /\ pass' = Idle
  /\ UNCHANGED <<file, table, replayed, minutes, seen>>

\* The retention, by the same goroutine between two passes.
Prune ==
  /\ pass.pc = "idle"
  /\ \E old \in SUBSET table : table' = table \ old
  /\ UNCHANGED <<file, replayed, minutes, seen, pass, faults>>

Replay ==
  \/ Begin \/ ImportEvent \/ ImportCount \/ GiveUp
  \/ \E kind \in {"events", "counts"} : Finish(kind)

Next == Replay \/ Cut \/ Prune

\* The ticker ticks and calls return.
Fairness == WF_importVars(Replay)

Spec == Init /\ [][Next]_importVars /\ Fairness

-----------------------------------------------------------------------------

\* What one pass can do: no torn line, and time for each of the files alone.
Importable ==
  \A lines \in {EventLines, CountLines} :
    Len(lines) <= Budget /\ \A i \in DOMAIN lines : lines[i] # Torn

\* Once faults end, every spooled event has reached the table and every spooled
\* count has been added exactly once, however passes were cut, failed after they
\* were executed, or began again (Replay, replayEvents, replayCounts).
ImportedOnce ==
  Importable =>
    <>[](IdsOf(EventLines) \subseteq seen /\ \A c \in IdsOf(CountLines) : minutes[c] = 1)

=============================================================================
