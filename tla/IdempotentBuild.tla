--------------------------- MODULE IdempotentBuild ---------------------------
(***************************************************************************)
(* Duplicate protection of the database build: the build command           *)
(* (application/commands/build.py) and DuplicateProtectionService          *)
(* (domain/services/duplicate_protection.py) over the table                *)
(* processed_files, whose primary key is the hash of a file's content and  *)
(* whose unique idempotency key covers content, name and versions.         *)
(*                                                                         *)
(* Builders are processes with a session each.  For every file a builder   *)
(* looks its key up, and later commits what it decided from the row it saw.*)
(***************************************************************************)
EXTENDS Integers, FiniteSets

CONSTANTS
    Builders,       \* processes that run the build command
    Names,          \* transcript files of the data directory
    Contents,       \* what a file may contain
    Invalid,        \* the contents that fail input validation
    UsesService,    \* does something call DuplicateProtectionService too?
    MaxBuilds,      \* bound: build commands started, and calls of the service
    MaxVersion,     \* bound: releases of the parser
    NoRow

ASSUME BuildAssumption ==
    /\ IsFiniteSet(Builders) /\ IsFiniteSet(Names)
    /\ Invalid \subseteq Contents
    /\ UsesService \in BOOLEAN
    /\ MaxBuilds \in Nat /\ MaxVersion \in Nat \ {0}

\* calculate_idempotency_key and generate_idempotency_key hash the same parts
\* in two formats: the keys of the command are never keys of the service.
Schemes == {"command", "service"}
Key(scheme, c, f, v) == [scheme |-> scheme, content |-> c, name |-> f, version |-> v]

\* What a row of processed_files keeps: its key, reprocess_count, force_rebuild.
Keys == [scheme : Schemes, content : Contents, name : Names, version : Nat]
Row == [key : Keys, count : Nat, force : BOOLEAN]

ASSUME NoRowAssumption == NoRow \notin Row

VARIABLES
    dir,        \* what the files contain
    version,    \* the parser version built into the program
    table,      \* processed_files, by content hash: key, count, force
    builder,    \* where each builder is: between files ("check") with the files
                \* left and the summary so far, or about to commit a file
    started,    \* build commands and service calls so far
    asked,      \* how often it was decided that a content be processed again
    rebuilt     \* how often it was

vars == <<dir, version, table, builder, started, asked, rebuilt>>

Idle == [at |-> "idle"]

Init ==
    /\ dir \in [Names -> Contents]
    /\ version = 1
    /\ table = [c \in Contents |-> NoRow]
    /\ builder = [b \in Builders |-> Idle]
    /\ started = 0
    /\ asked = [c \in Contents |-> 0] /\ rebuilt = [c \in Contents |-> 0]

\* query(ProcessedFile).filter(idempotency_key == k).first()
Existing(k) ==
    IF table[k.content] # NoRow /\ table[k.content].key = k THEN table[k.content] ELSE NoRow

-----------------------------------------------------------------------------
Start(b, force, dry) ==
    /\ builder[b] = Idle /\ started < MaxBuilds
    /\ builder' = [builder EXCEPT ![b] =
            [at |-> "check", force |-> force, dry |-> dry, todo |-> Names,
             tally |-> [processed |-> 0, skipped |-> 0, errors |-> 0]]]
    /\ started' = started + 1
    /\ UNCHANGED <<dir, version, table, asked, rebuilt>>

\* The file is dealt with, and counted as `how' in the summary.
Done(b, f, how) ==
    [at |-> "check", force |-> builder[b].force, dry |-> builder[b].dry,
     todo |-> builder[b].todo \ {f},
     tally |-> [builder[b].tally EXCEPT ![how] = @ + 1]]

\* Mutant: the flag of the row read the wrong way round.
KnownIfMarked(b, f) ==
    LET row == Existing(Key("command", dir[f], f, version))
    IN  row # NoRow /\ ~builder[b].force /\ row.force

Known(b, f) ==
    LET row == Existing(Key("command", dir[f], f, version))
    IN  row # NoRow /\ ~builder[b].force /\ ~row.force

Checks(b, f) == builder[b].at = "check" /\ f \in builder[b].todo

Skip(b, f) ==
    /\ Checks(b, f) /\ Known(b, f)
    /\ builder' = [builder EXCEPT ![b] = Done(b, f, "skipped")]
    /\ UNCHANGED <<dir, version, table, started, asked, rebuilt>>

Refuse(b, f) ==
    /\ Checks(b, f) /\ ~Known(b, f) /\ dir[f] \in Invalid
    /\ builder' = [builder EXCEPT ![b] = Done(b, f, "errors")]
    /\ UNCHANGED <<dir, version, table, started, asked, rebuilt>>

WouldProcess(b, f) ==
    /\ Checks(b, f) /\ ~Known(b, f) /\ dir[f] \notin Invalid /\ builder[b].dry
    /\ builder' = [builder EXCEPT ![b] = Done(b, f, "processed")]
    /\ UNCHANGED <<dir, version, table, started, asked, rebuilt>>

(* Processing begins, with the row the query returned.                     *)
Process(b, f) ==
    LET k == Key("command", dir[f], f, version)
    IN  /\ Checks(b, f) /\ ~Known(b, f) /\ dir[f] \notin Invalid /\ ~builder[b].dry
        /\ builder' = [builder EXCEPT ![b] =
                [at |-> "commit", force |-> @.force, dry |-> @.dry, todo |-> @.todo,
                 tally |-> @.tally, key |-> k, existing |-> Existing(k)]]
        /\ asked' = IF builder[b].force \/ (Existing(k) # NoRow /\ Existing(k).force)
                    THEN [asked EXCEPT ![dir[f]] = @ + 1] ELSE asked
        /\ UNCHANGED <<dir, version, table, started, rebuilt>>

\* Mutant: the count is reset with the flag.
CommitUpdateResets(b) ==
    LET seen == builder[b].existing
        c    == builder[b].key.content
    IN  /\ builder[b].at = "commit" /\ seen # NoRow
        /\ table' = IF builder[b].force /\ seen.force
                    THEN [table EXCEPT ![c].count = 0, ![c].force = FALSE]
                    ELSE [table EXCEPT ![c].count = seen.count + 1]
        /\ rebuilt' = [rebuilt EXCEPT ![c] = @ + 1]
        /\ builder' = [builder EXCEPT ![b] = Done(b, builder[b].key.name, "processed")]
        /\ UNCHANGED <<dir, version, started, asked>>

(* The UPDATE of a row that was there: the count is the one loaded plus    *)
(* one, and a forced build clears the flag.                                *)
CommitUpdate(b) ==
    LET seen == builder[b].existing
        c    == builder[b].key.content
    IN  /\ builder[b].at = "commit" /\ seen # NoRow
        /\ table' = [table EXCEPT ![c].count = seen.count + 1,
                                  ![c].force = IF builder[b].force /\ seen.force
                                               THEN FALSE ELSE @]
        /\ rebuilt' = [rebuilt EXCEPT ![c] = @ + 1]
        /\ builder' = [builder EXCEPT ![b] = Done(b, builder[b].key.name, "processed")]
        /\ UNCHANGED <<dir, version, started, asked>>

\* Mutant: merge() in place of add(), which replaces the row of the same content.
CommitMerge(b) ==
    LET k == builder[b].key
    IN  /\ builder[b].at = "commit" /\ builder[b].existing = NoRow
        /\ table' = [table EXCEPT ![k.content] = [key |-> k, count |-> 0, force |-> FALSE]]
        /\ builder' = [builder EXCEPT ![b] = Done(b, k.name, "processed")]
        /\ UNCHANGED <<dir, version, started, asked, rebuilt>>

(* The INSERT: it fails when a row with this content hash exists, whatever *)
(* name, version or program put it there.                                  *)
CommitInsert(b) ==
    LET k == builder[b].key
    IN  /\ builder[b].at = "commit" /\ builder[b].existing = NoRow
        /\ IF table[k.content] = NoRow
           THEN /\ table' = [table EXCEPT ![k.content] =
                                [key |-> k, count |-> 0, force |-> FALSE]]
                /\ builder' = [builder EXCEPT ![b] = Done(b, k.name, "processed")]
           ELSE /\ builder' = [builder EXCEPT ![b] = Done(b, k.name, "errors")]
                /\ UNCHANGED table
        /\ UNCHANGED <<dir, version, started, asked, rebuilt>>

\* Mutant: the file was counted as processed before the commit failed.
CommitFailsCounted(b) ==
    /\ builder[b].at = "commit"
    /\ builder' = [builder EXCEPT ![b] =
            [Done(b, builder[b].key.name, "errors") EXCEPT !.tally.processed = @ + 1]]
    /\ UNCHANGED <<dir, version, table, started, asked, rebuilt>>

(* The commit fails, the database being locked: rolled back and counted.   *)
CommitFails(b) ==
    /\ builder[b].at = "commit"
    /\ builder' = [builder EXCEPT ![b] = Done(b, builder[b].key.name, "errors")]
    /\ UNCHANGED <<dir, version, table, started, asked, rebuilt>>

\* The command returns, or is killed.
End(b) ==
    /\ builder[b] # Idle
    /\ builder' = [builder EXCEPT ![b] = Idle]
    /\ UNCHANGED <<dir, version, table, started, asked, rebuilt>>

-----------------------------------------------------------------------------
(* mark_as_processed, whose caller processed the file: a call that finds   *)
(* its key counts a reprocessing and leaves the force_rebuild flag; one    *)
(* that does not inserts.                                                  *)
MarkAsProcessed(k) ==
    /\ UsesService /\ started < MaxBuilds
    /\ k.scheme = "service" /\ k.version = version
    /\ started' = started + 1
    /\ IF Existing(k) # NoRow
       THEN /\ table' = [table EXCEPT ![k.content].count = @ + 1]
            /\ rebuilt' = [rebuilt EXCEPT ![k.content] = @ + 1]
            /\ asked' = [asked EXCEPT ![k.content] = @ + 1]
       ELSE /\ table' = IF table[k.content] = NoRow
                        THEN [table EXCEPT ![k.content] =
                                [key |-> k, count |-> 0, force |-> FALSE]]
                        ELSE table
            /\ UNCHANGED <<rebuilt, asked>>
    /\ UNCHANGED <<dir, version, builder>>

(* mark_force_rebuild, with a key of either program.                       *)
MarkForceRebuild(k) ==
    /\ UsesService /\ started < MaxBuilds
    /\ Existing(k) # NoRow
    /\ started' = started + 1
    /\ table' = [table EXCEPT ![k.content].force = TRUE]
    /\ UNCHANGED <<dir, version, builder, asked, rebuilt>>

-----------------------------------------------------------------------------
\* Somebody edits a transcript, or installs the next release.
Edit(f, c) ==
    /\ dir[f] # c
    /\ dir' = [dir EXCEPT ![f] = c]
    /\ UNCHANGED <<version, table, builder, started, asked, rebuilt>>

Upgrade ==
    /\ version < MaxVersion /\ \A b \in Builders : builder[b] = Idle
    /\ version' = version + 1
    /\ UNCHANGED <<dir, table, builder, started, asked, rebuilt>>

BuilderStep(b) ==
    \/ \E force, dry \in BOOLEAN : Start(b, force, dry)
    \/ \E f \in Names :
            Skip(b, f) \/ Refuse(b, f) \/ WouldProcess(b, f) \/ Process(b, f)
    \/ CommitUpdate(b) \/ CommitInsert(b) \/ CommitFails(b)
    \/ End(b)

Next ==
    \/ \E b \in Builders : BuilderStep(b)
    \/ \E c \in Contents, f \in Names, s \in Schemes :
            \/ MarkAsProcessed(Key(s, c, f, version))
            \/ \E v \in 1..version : MarkForceRebuild(Key(s, c, f, v))
    \/ \E f \in Names, c \in Contents : Edit(f, c)
    \/ Upgrade

Spec == Init /\ [][Next]_vars

-----------------------------------------------------------------------------
Sum(t) == t.processed + t.skipped + t.errors

(* The summary of a build accounts for every file it found once, whichever *)
(* of skip, refusal, success, conflict and failure each file met.          *)
SummaryAddsUp ==
    \A b \in Builders : builder[b] # Idle =>
        Sum(builder[b].tally) + Cardinality(builder[b].todo) = Cardinality(Names)

(* A content once recorded stays with the file and version it was recorded *)
(* for: neither a racing builder, a renamed copy, a forced build nor a new *)
(* release ever replaces its row.                                          *)
RowsKeepTheirKey ==
    [][\A c \in Contents : table[c] # NoRow =>
            table'[c] # NoRow /\ table'[c].key = table[c].key]_vars

(* Duplicate protection: a content is processed again only as often as a   *)
(* forced build or a mark on its row called for it, whichever builders and *)
(* service calls meet on the row.                                          *)
NoNeedlessRebuild == \A c \in Contents : rebuilt[c] <= asked[c]

(* reprocess_count loses counts when two sessions meet on a row, but never *)
(* all of them, and never counts what did not happen.                      *)
CountIsSound ==
    \A c \in Contents : table[c] # NoRow =>
        /\ table[c].count <= rebuilt[c]
        /\ table[c].count = 0 => rebuilt[c] = 0

=============================================================================
