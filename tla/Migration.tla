------------------------------ MODULE Migration ------------------------------
(***************************************************************************)
(* MigrationUseCase (application/cli/use_cases/migration.py), the legacy   *)
(* reader, the modern writer and the exit code of `migrate run': the rows  *)
(* of a legacy database are counted once, read page by page, and written   *)
(* to the modern database one transaction per page; a page that fails is   *)
(* retried row by row.  One action runs from one `await' to the next; the  *)
(* legacy program may write meanwhile, and the run may be killed and       *)
(* started again.                                                          *)
(***************************************************************************)
EXTENDS Integers, FiniteSets, Sequences

CONSTANTS
    MaxId,          \* transcripts have the ids 1..MaxId
    BatchSize,
    Texts,          \* contents of a transcript
    Refused,        \* contents the modern tables do not take (a NULL name or text)
    Unreadable,     \* contents fetch_transcripts raises on (a malformed timestamp);
                    \* with LegacySQLiteReader all, as a sqlite3.Row has no get
    MaxRuns,        \* bound: calls of execute()
    MaxWrites,      \* bound: writes of the legacy program
    Absent

Ids == 1..MaxId

ASSUME MigrationAssumption ==
    /\ MaxId \in Nat /\ BatchSize \in Nat \ {0}
    /\ Refused \subseteq Texts /\ Unreadable \subseteq Texts
    /\ MaxRuns \in Nat /\ MaxWrites \in Nat
    /\ Absent \notin Texts

\* A legacy transcript, and whether the analytics table has a row for it.
Transcript == [text : Texts, analytics : BOOLEAN]

ASSUME AbsentAssumption == Absent \notin Transcript

VARIABLES
    legacy,     \* legacy[i]: transcript i, or Absent
    modern,     \* modern[i]: the text of transcript i in the modern database
    indexed,    \* transcripts that have a row in the modern analytics table
    run,        \* the call of execute(): where it is, the batch in hand, the
                \* result it will return (unread: errors that tell of a page
                \* that could not be read)
    writes,     \* writes of the legacy program so far
    since,      \* writes since the run began
    was         \* history: was[i], what legacy transcript i has been

vars == <<legacy, modern, indexed, run, writes, since, was>>

Rows == {i \in Ids : legacy[i] # Absent}

\* How many rows come before transcript i.
Rank(i) == Cardinality({j \in Rows : j < i})

\* SELECT * ... LIMIT BatchSize OFFSET offset: the rows come in id order.
Page(offset) ==
    LET left == Cardinality(Rows) - offset
    IN  [k \in 1 .. (IF left < BatchSize THEN left ELSE BatchSize) |->
            CHOOSE i \in Rows : Rank(i) = offset + k - 1]

TranscriptsOf(page) ==
    [k \in DOMAIN page |-> [id |-> page[k], text |-> legacy[page[k]].text]]

Init ==
    /\ legacy \in [Ids -> Transcript \cup {Absent}]
    /\ modern = [i \in Ids |-> Absent]
    /\ indexed = {}
    /\ run = [pc |-> "none", dry |-> FALSE, total |-> 0, offset |-> 0,
              batch |-> <<>>, found |-> {}, migrated |-> 0, failed |-> 0,
              unread |-> 0, runs |-> 0]
    /\ writes = 0 /\ since = 0
    /\ was = [i \in Ids |-> {legacy[i]} \ {Absent}]

Unwritten == UNCHANGED <<legacy, modern, indexed, writes, since, was>>

-----------------------------------------------------------------------------
(* execute: the rows are counted, once.                                    *)
Start(dry) ==
    LET total == Cardinality(Rows)
    IN  /\ run.pc \in {"none", "done"} /\ run.runs < MaxRuns
        /\ run' = [pc |-> IF total = 0 THEN "done" ELSE "page", dry |-> dry,
                   total |-> total, offset |-> 0, batch |-> <<>>, found |-> {},
                   migrated |-> 0, failed |-> 0, unread |-> 0, runs |-> run.runs + 1]
        /\ since' = 0
        /\ UNCHANGED <<legacy, modern, indexed, writes, was>>

Advance(r) == [r EXCEPT !.pc = "page", !.offset = @ + BatchSize, !.batch = <<>>,
                        !.found = {}]

\* Mutant: the page that could not be read is read again.
ReadFailsForever ==
    /\ run.pc = "page" /\ run.offset < run.total
    /\ run' = [run EXCEPT !.unread = 1 - @]
    /\ Unwritten

(* The page cannot be read.  The exception is recorded and the individual  *)
(* retry runs, over a batch that is still empty.                           *)
ReadFails ==
    /\ run.pc = "page" /\ run.offset < run.total
    /\ run' = Advance([run EXCEPT !.unread = @ + 1])
    /\ Unwritten

ReadPage ==
    LET batch == TranscriptsOf(Page(run.offset))
    IN  /\ run.pc = "page" /\ run.offset < run.total
        /\ \A k \in DOMAIN batch : batch[k].text \notin Unreadable
        /\ run' = IF batch = <<>> THEN [run EXCEPT !.pc = "done"]
                  ELSE [run EXCEPT !.pc = "analytics", !.batch = batch]
        /\ Unwritten

\* The last page is behind: the result, and the exit code with it.
Finish ==
    /\ run.pc = "page" /\ run.offset >= run.total
    /\ run' = [run EXCEPT !.pc = "done"]
    /\ Unwritten

-----------------------------------------------------------------------------
BatchIds == {run.batch[k].id : k \in DOMAIN run.batch}

\* fetch_analytics: which of these transcripts have analytics now.
WithAnalytics(ids) == {i \in ids \cap Rows : legacy[i].analytics}

\* Mutant: a dry run counts and the rest is counted at the write only.
ReadAnalyticsDropsDry ==
    /\ run.pc = "analytics"
    /\ run' = IF run.dry THEN Advance(run)
              ELSE [run EXCEPT !.pc = "write", !.found = WithAnalytics(BatchIds)]
    /\ Unwritten

(* A dry run counts what it has read and goes on.                          *)
ReadAnalytics ==
    /\ run.pc = "analytics"
    /\ run' = IF run.dry
              THEN Advance([run EXCEPT !.migrated = @ + Len(run.batch)])
              ELSE [run EXCEPT !.pc = "write", !.found = WithAnalytics(BatchIds)]
    /\ Unwritten

\* The batch failed: its rows are retried one by one.
RetryRows(r) == [r EXCEPT !.pc = "retry", !.found = {}]

AnalyticsFail ==
    /\ run.pc = "analytics"
    /\ run' = RetryRows(run)
    /\ Unwritten

(* One transaction: the transcripts of the batch, then their analytics.    *)
Upsert(batch, found) ==
    /\ modern' = [i \in Ids |->
                    IF \E k \in DOMAIN batch : batch[k].id = i
                    THEN batch[CHOOSE k \in DOMAIN batch : batch[k].id = i].text
                    ELSE modern[i]]
    /\ indexed' = indexed \cup found
    /\ UNCHANGED <<legacy, writes, since, was>>

WriteBatch ==
    /\ run.pc = "write"
    /\ \A k \in DOMAIN run.batch : run.batch[k].text \notin Refused
    /\ Upsert(run.batch, run.found)
    /\ run' = Advance([run EXCEPT !.migrated = @ + Len(run.batch)])

(* The transaction fails on the way, by a row the tables refuse or because *)
(* the database does.                                                      *)
WriteFails ==
    /\ run.pc = "write"
    /\ run' = RetryRows(run)
    /\ Unwritten

(* It fails at the commit, after the rows were counted.  A row is flushed  *)
(* by the query that follows it: the commit meets only the last one, and   *)
(* only when no analytics are written after it.                            *)
CommitFails ==
    /\ run.pc = "write"
    /\ \A k \in DOMAIN run.batch : run.batch[k].text \in Refused =>
            k = Len(run.batch) /\ run.found = {}
    /\ run' = RetryRows([run EXCEPT !.migrated = @ + Len(run.batch)])
    /\ Unwritten

-----------------------------------------------------------------------------
(* _retry_singles: the rows as they were read, one transaction each.       *)
Rest(r) == IF Len(r.batch) = 1 THEN Advance(r)
           ELSE [r EXCEPT !.pc = "retry", !.batch = Tail(@), !.found = {}]

\* Mutant: the retry of a dry run writes.
RetryReadWrites ==
    /\ run.pc = "retry"
    /\ run' = [run EXCEPT !.pc = "single", !.found = WithAnalytics({Head(run.batch).id})]
    /\ Unwritten

RetryRead ==
    /\ run.pc = "retry"
    /\ run' = IF run.dry THEN Rest([run EXCEPT !.migrated = @ + 1])
              ELSE [run EXCEPT !.pc = "single",
                               !.found = WithAnalytics({Head(run.batch).id})]
    /\ Unwritten

RetryWrite ==
    /\ run.pc = "single" /\ Head(run.batch).text \notin Refused
    /\ Upsert(<<Head(run.batch)>>, run.found)
    /\ run' = Rest([run EXCEPT !.migrated = @ + 1])

\* Mutant: one row that fails ends the retry of its batch.
RetryFailsAll ==
    /\ run.pc \in {"retry", "single"} /\ ~run.dry
    /\ run' = Advance([run EXCEPT !.failed = @ + 1])
    /\ Unwritten

RetryFails ==
    /\ run.pc \in {"retry", "single"} /\ ~run.dry
    /\ run' = Rest([run EXCEPT !.failed = @ + 1])
    /\ Unwritten

-----------------------------------------------------------------------------
Kill ==
    /\ run.pc \notin {"none", "done"}
    /\ run' = [run EXCEPT !.pc = "none", !.batch = <<>>, !.found = {}]
    /\ Unwritten

\* The legacy program inserts, edits or deletes transcript i.
LegacyWrite(i, row) ==
    /\ writes < MaxWrites /\ row # legacy[i]
    /\ legacy' = [legacy EXCEPT ![i] = row]
    /\ was' = [was EXCEPT ![i] = @ \cup ({row} \ {Absent})]
    /\ writes' = writes + 1 /\ since' = since + 1
    /\ UNCHANGED <<modern, indexed, run>>

Step ==
    \/ ReadPage \/ ReadFails \/ Finish
    \/ ReadAnalytics \/ AnalyticsFail
    \/ WriteBatch \/ WriteFails \/ CommitFails
    \/ RetryRead \/ RetryWrite \/ RetryFails

Next ==
    \/ \E dry \in BOOLEAN : Start(dry)
    \/ Step
    \/ Kill
    \/ \E i \in Ids, row \in Transcript \cup {Absent} : LegacyWrite(i, row)

(* execute() is awaited by asyncio.run: its next step, one way or the      *)
(* other, is taken unless the process is killed.                           *)
Spec == Init /\ [][Next]_vars /\ WF_vars(Step)

-----------------------------------------------------------------------------
(* The exit code of `migrate run'.                                         *)
Status(r) == IF r.failed > 0 THEN "partial" ELSE "completed"
ExitCode(r) == IF r.failed > 0 \/ Status(r) = "partial" THEN 2 ELSE 0

\* Rows that are not, or not as they are, in the modern database.
Missing ==
    {i \in Rows : \/ modern[i] # legacy[i].text
                  \/ legacy[i].analytics /\ i \notin indexed}

(* When a run has returned, the rows that are missing in the modern        *)
(* database were counted as failed, were on a page that could not be read, *)
(* which the errors tell, or are the doing of the legacy program: a write  *)
(* of it while the run went on costs at most two rows (a row inserted      *)
(* behind the run pushes another one past its end).  A run that exits with *)
(* 0 and without errors over a database at rest has migrated everything,   *)
(* whatever runs were killed before it.                                    *)
MissingAreReported ==
    run.pc = "done" /\ ~run.dry =>
        /\ Cardinality(Missing) <= run.failed + BatchSize * run.unread + 2 * since
        /\ ExitCode(run) = 0 /\ run.unread = 0 /\ since = 0 => Missing = {}

(* What a reader of the result may conclude.                               *)
Report ==
    CASE run.pc = "none" -> "none"
      [] run.pc = "done" ->
            IF ~run.dry /\ ExitCode(run) = 0 /\ run.unread = 0 /\ since = 0
            THEN "clean" ELSE "open"
      [] OTHER -> IF run.dry THEN "dry" ELSE "writing"

Target == INSTANCE Transfer WITH source <- legacy, target <- modern, report <- Report

(* The migration implements Transfer: whatever fails, is retried or is     *)
(* killed, the target only gains what the source held, only from a run     *)
(* that is not dry, and a run that reports a full success has moved all.   *)
ImplementsTransfer == Target!Spec

(* What is in the modern database is what the legacy row with that id was  *)
(* at some time, and a row has analytics only if the transcript is there   *)
(* too and had analytics: no retry, crash, deletion between two pages or   *)
(* rerun mixes rows up.                                                    *)
TargetFromSource ==
    \A i \in Ids :
        /\ modern[i] # Absent => \E t \in was[i] : t.text = modern[i]
        /\ i \in indexed => modern[i] # Absent /\ \E t \in was[i] : t.analytics

(* No row is left out of the counters: the rows that were there when the   *)
(* run began were counted as migrated or failed (some twice), the errors   *)
(* tell of their page, or the legacy program removed them meanwhile.       *)
CountersCover ==
    run.pc = "done" =>
        run.total <= run.migrated + run.failed + BatchSize * run.unread + since

(* Every run ends, however many reads, writes and commits fail.            *)
RunsEnd == run.pc = "page" ~> run.pc \in {"none", "done"}

=============================================================================
