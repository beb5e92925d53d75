---------------------------- MODULE Repositories ----------------------------
(* The repositories of infrastructure/db/repositories over units of work.    *)
(*                                                                           *)
(* A unit of work is one session: `async with SqlAlchemyUnitOfWork(...)`     *)
(* whose block makes any calls, commits when it is left normally and rolls   *)
(* back when an exception leaves it.  Sessions interleave at every await.    *)
(* SQLite has one writer: the first write takes the lock, kept until commit  *)
(* or rollback; a read before it sees what is committed.  Most methods read, *)
(* then write what they concluded.                                           *)
EXTENDS Integers, FiniteSets

CONSTANTS
    Sessions,       \* units of work open at one time
    Sentences,      \* sent_id of analyses
    Versions,       \* prompt_version of analyses
    NoVersion,      \* no analysis is stored
    Segments,
    Hashes,         \* keys of ai_cache
    Categories,     \* fail categories an analysis names, besides "diger"
    MaxOps,         \* calls in one block
    MaxBlocks,      \* blocks each session runs
    NoCategory,     \* fail_category is None
    NoSession, NoOp

ASSUME RepositoriesAssumption ==
    /\ IsFiniteSet(Sessions)
    /\ NoSession \notin Sessions
    /\ NoCategory \notin Categories \cup {"diger"}
    /\ "diger" \notin Categories
    /\ NoVersion \notin Versions
    /\ MaxOps \in Nat /\ MaxBlocks \in Nat

Stored == Categories \cup {"diger"}

\* One call of a repository method, with the arguments that matter.
Ops ==
         [call : {"upsert"}, sent : Sentences, version : Versions, rows : 1..2]
                                                             \* upsert, bulk_upsert
    \cup [call : {"insert"}, sent : Sentences, version : Versions]
                                                             \* save_sentence_analysis
    \cup [call : {"insight"}, seg : Segments]                \* update_insight
    \cup [call : {"add"}, seg : Segments]                    \* SegmentRepository.add
    \cup [call : {"cache"}, hash : Hashes]                   \* set_cache
    \cup [call : {"fail"}, cat : Stored \cup {NoCategory}]   \* save_fail_analysis

\* No call is the value that stands for none.
ASSUME NoOpAssumption == NoOp \notin Ops

VARIABLES
    db,         \* the committed tables
    draft,      \* the tables as the holder of the lock sees them
    lock,       \* the session that writes, or NoSession
    block,      \* state of each session's block
    op,         \* the call each session is in, or NoOp
    phase,      \* the await it is at, one of Phase
    seen,       \* how many rows its query returned
    calls, blocks   \* calls left in the block, blocks left

vars == <<db, draft, lock, block, op, phase, seen, calls, blocks>>

\* sent_id of ai_sentence_analysis and seg_id of ai_segment_insights are UNIQUE
\* in the migrated schema: analyses is the version of each sentence's row, insights
\* the segments that have one.  fails counts ai_fail_analysis by stored category;
\* patterns counts the pattern rows, recur adds up their recurrence_count.  missed
\* counts the failed checks whose block went on after the pattern query had raised.
Tables ==
    [analyses : [Sentences -> Versions \cup {NoVersion}],
     segments : SUBSET Segments, insights : SUBSET Segments, cache : SUBSET Hashes,
     fails : [Stored -> Nat], patterns : [Stored -> Nat],
     recur : [Stored -> Nat], missed : [Stored -> Nat]]

Phase == {"read", "delete", "write", "match", "store"}

Zero(S) == [x \in S |-> 0]
Init ==
    /\ db = [analyses |-> [a \in Sentences |-> NoVersion],
             segments |-> {}, insights |-> {}, cache |-> {},
             fails |-> Zero(Stored), patterns |-> Zero(Stored),
             recur |-> Zero(Stored), missed |-> Zero(Stored)]
    /\ draft = db /\ lock = NoSession
    /\ block = [s \in Sessions |-> "closed"]
    /\ op = [s \in Sessions |-> NoOp]
    /\ phase = [s \in Sessions |-> "read"]
    /\ seen = [s \in Sessions |-> 0]
    /\ calls = [s \in Sessions |-> 0]
    /\ blocks = [s \in Sessions |-> MaxBlocks]

\* What session s reads.
View(s) == IF lock = s THEN draft ELSE db
\* A write needs the lock; with it the session sees its own writes.
Writes(s, tables) == lock \in {s, NoSession} /\ lock' = s /\ draft' = tables
Category(c) == IF c = NoCategory THEN "diger" ELSE c
\* A category of None is compared with IS NULL, and "diger" was stored.
Matches(tables, c) == IF c = NoCategory THEN 0 ELSE tables.patterns[c]

\* The lock is given back and the session's writes, if any, are dropped.
Undo(s) ==
    /\ lock' = IF lock = s THEN NoSession ELSE lock
    /\ draft' = IF lock = s THEN db ELSE draft
    /\ UNCHANGED db

Done(s) ==
    /\ op' = [op EXCEPT ![s] = NoOp] /\ phase' = [phase EXCEPT ![s] = "read"]
    /\ seen' = [seen EXCEPT ![s] = 0]
To(s, p) == phase' = [phase EXCEPT ![s] = p] /\ UNCHANGED op

-----------------------------------------------------------------------------
(* Blocks.                                                                   *)

Enter(s) ==
    /\ block[s] = "closed" /\ blocks[s] > 0
    /\ block' = [block EXCEPT ![s] = "open"]
    /\ calls' = [calls EXCEPT ![s] = MaxOps]
    /\ blocks' = [blocks EXCEPT ![s] = @ - 1]
    /\ UNCHANGED <<db, draft, lock, op, phase, seen>>

\* The first await of a call: a query, a DELETE, or for a plain insert the flush.
FirstPhase(o) ==
    CASE o.call \in {"insight", "cache"} -> "read"
      [] o.call = "upsert" -> "delete"
      [] OTHER -> "write"
Call(s, o) ==
    /\ block[s] = "open" /\ op[s] = NoOp /\ calls[s] > 0
    /\ op' = [op EXCEPT ![s] = o]
    /\ phase' = [phase EXCEPT ![s] = FirstPhase(o)]
    /\ calls' = [calls EXCEPT ![s] = @ - 1]
    /\ UNCHANGED <<db, draft, lock, block, seen, blocks>>

\* commit() inside the block, or the commit of leaving it; a session whose flush
\* failed refuses to commit until it is rolled back.
CommitTables(s) ==
    /\ db' = View(s) /\ lock' = IF lock = s THEN NoSession ELSE lock
    /\ draft' = IF lock \in {s, NoSession} THEN View(s) ELSE draft
Commit(s) ==
    /\ block[s] = "open" /\ op[s] = NoOp /\ lock = s
    /\ CommitTables(s)
    /\ UNCHANGED <<block, op, phase, seen, calls, blocks>>
Exit(s) ==
    /\ block[s] \in {"open", "broken"} /\ op[s] = NoOp
    /\ IF block[s] = "open" THEN CommitTables(s) ELSE Undo(s)
    /\ block' = [block EXCEPT ![s] = "closed"]
    /\ UNCHANGED <<op, phase, seen, calls, blocks>>

\* rollback() inside the block.
Rollback(s) ==
    /\ block[s] \in {"open", "broken"} /\ op[s] = NoOp /\ (lock = s \/ block[s] = "broken")
    /\ Undo(s)
    /\ block' = [block EXCEPT ![s] = "open"]
    /\ UNCHANGED <<op, phase, seen, calls, blocks>>

\* An exception of the block's own code, or of a call, leaves the block.
Propagate(s) ==
    /\ block[s] # "closed" /\ (op[s] = NoOp \/ block[s] \in {"raised", "fatal"})
    /\ Undo(s) /\ Done(s)
    /\ block' = [block EXCEPT ![s] = "closed"]
    /\ UNCHANGED <<calls, blocks>>

\* The block handles the exception of a call and goes on: the rows the call had
\* flushed stay.
Handle(s) ==
    /\ block[s] \in {"raised", "fatal"}
    /\ block' = [block EXCEPT ![s] = IF @ = "raised" THEN "open" ELSE "broken"]
    /\ draft' = IF op[s].call = "fail" /\ phase[s] = "match"
                THEN [draft EXCEPT !.missed[Category(op[s].cat)] = @ + 1] ELSE draft
    /\ Done(s)
    /\ UNCHANGED <<db, lock, calls, blocks>>

-----------------------------------------------------------------------------
(* The steps of a call.                                                      *)

Active(s, p) == block[s] = "open" /\ op[s] # NoOp /\ phase[s] = p

\* A query raises MultipleResultsFound: nothing is flushed, the session lives.
Raise(s) ==
    /\ block' = [block EXCEPT ![s] = "raised"]
    /\ UNCHANGED <<db, draft, lock, op, phase, seen, calls, blocks>>

\* A flush raises: the session rolls back at once and is unusable until
\* rollback().
FlushFails(s) ==
    /\ block' = [block EXCEPT ![s] = "fatal"]
    /\ Undo(s)
    /\ UNCHANGED <<op, phase, seen, calls, blocks>>

\* scalar_one_or_none of update_insight and set_cache: one row at most.
Found(s) ==
    IF op[s].call = "insight" THEN op[s].seg \in View(s).insights
    ELSE op[s].hash \in View(s).cache
Read(s) ==
    /\ Active(s, "read")
    /\ seen' = [seen EXCEPT ![s] = IF Found(s) THEN 1 ELSE 0]
    /\ To(s, "write")
    /\ UNCHANGED <<db, draft, lock, block, calls, blocks>>

\* Mutant: an INSERT that fails leaves the session as it was.
InsertsKept(s, fresh, tables) ==
    \/ /\ fresh /\ Writes(s, tables) /\ Done(s)
       /\ UNCHANGED <<db, block, calls, blocks>>
    \/ /\ ~fresh /\ lock \in {s, NoSession} /\ Raise(s)

\* INSERT of a row with a unique key: IntegrityError when it is there by now.
Inserts(s, fresh, tables) ==
    \/ /\ fresh /\ Writes(s, tables) /\ Done(s)
       /\ UNCHANGED <<db, block, calls, blocks>>
    \/ /\ ~fresh /\ lock \in {s, NoSession} /\ FlushFails(s)

\* upsert deletes the row of its sentence and version ...
DeleteAnalyses(s) ==
    /\ Active(s, "delete")
    /\ Writes(s, [View(s) EXCEPT !.analyses[op[s].sent] =
                        IF @ = op[s].version THEN NoVersion ELSE @])
    /\ To(s, "write")
    /\ UNCHANGED <<db, block, seen, calls, blocks>>

\* ... and inserts, as save_sentence_analysis does: a row of another version, or
\* two records of one sentence in a bulk_upsert, and the flush raises.
WriteAnalyses(s) ==
    /\ Active(s, "write") /\ op[s].call \in {"upsert", "insert"}
    /\ Inserts(s, /\ View(s).analyses[op[s].sent] = NoVersion
                  /\ op[s].call = "upsert" => op[s].rows = 1,
               [View(s) EXCEPT !.analyses[op[s].sent] = op[s].version])

\* A row was seen: update it.  None was and the segment exists: insert.
WriteInsight(s) ==
    /\ Active(s, "write") /\ op[s].call = "insight"
    /\ \/ /\ seen[s] = 1 /\ Writes(s, View(s)) /\ Done(s)
          /\ UNCHANGED <<db, block, calls, blocks>>
       \/ /\ seen[s] = 0 /\ op[s].seg \notin View(s).segments /\ Done(s)
          /\ UNCHANGED <<db, draft, lock, block, calls, blocks>>
       \/ /\ seen[s] = 0 /\ op[s].seg \in View(s).segments
          /\ Inserts(s, op[s].seg \notin View(s).insights,
                     [View(s) EXCEPT !.insights = @ \cup {op[s].seg}])

WriteKeyed(s) ==
    /\ Active(s, "write")
    /\ \/ op[s].call = "add" /\ Inserts(s, op[s].seg \notin View(s).segments,
                                        [View(s) EXCEPT !.segments = @ \cup {op[s].seg}])
       \/ op[s].call = "cache" /\ seen[s] = 0
            /\ Inserts(s, op[s].hash \notin View(s).cache,
                       [View(s) EXCEPT !.cache = @ \cup {op[s].hash}])
       \/ op[s].call = "cache" /\ seen[s] = 1 /\ Writes(s, View(s)) /\ Done(s)
            /\ UNCHANGED <<db, block, calls, blocks>>

\* save_fail_analysis: the failed check is flushed first, which takes the lock.
FlushFail(s) ==
    /\ Active(s, "write") /\ op[s].call = "fail"
    /\ Writes(s, [View(s) EXCEPT !.fails[Category(op[s].cat)] = @ + 1])
    /\ To(s, "match")
    /\ UNCHANGED <<db, block, seen, calls, blocks>>

\* Mutant: the pattern is looked up in what is committed.
MatchCommitted(s) ==
    /\ Active(s, "match")
    /\ Matches(db, op[s].cat) <= 1
    /\ seen' = [seen EXCEPT ![s] = Matches(db, op[s].cat)]
    /\ To(s, "store")
    /\ UNCHANGED <<db, draft, lock, block, calls, blocks>>

\* update_fail_patterns: the query for the pattern ...
MatchPattern(s) ==
    /\ Active(s, "match")
    /\ LET n == Matches(View(s), op[s].cat) IN
        \/ /\ n <= 1
           /\ seen' = [seen EXCEPT ![s] = n]
           /\ To(s, "store")
           /\ UNCHANGED <<db, draft, lock, block, calls, blocks>>
        \/ n > 1 /\ Raise(s)

\* ... and the update of the row found, or a new row with recurrence_count 1.
StorePattern(s) ==
    /\ Active(s, "store")
    /\ LET c == Category(op[s].cat) IN
        Writes(s, [View(s) EXCEPT !.patterns[c] = IF seen[s] = 0 THEN @ + 1 ELSE @,
                                  !.recur[c] = @ + 1])
    /\ Done(s)
    /\ UNCHANGED <<db, block, calls, blocks>>

\* Another session writes: "database is locked" after the driver's timeout.  A
\* DELETE that fails leaves the session usable, a flush does not.
Locked(s) ==
    /\ block[s] = "open" /\ op[s] # NoOp /\ phase[s] \in {"delete", "write", "store"}
    /\ lock \notin {s, NoSession}
    /\ IF phase[s] = "delete" THEN Raise(s) ELSE FlushFails(s)

Next ==
    \E s \in Sessions :
        \/ Enter(s) \/ Commit(s) \/ Exit(s) \/ Rollback(s) \/ Propagate(s) \/ Handle(s)
        \/ \E o \in Ops : Call(s, o)
        \/ Read(s) \/ DeleteAnalyses(s) \/ WriteAnalyses(s) \/ WriteInsight(s)
        \/ WriteKeyed(s) \/ FlushFail(s) \/ MatchPattern(s) \/ StorePattern(s) \/ Locked(s)

Spec == Init /\ [][Next]_vars

-----------------------------------------------------------------------------
(* Properties.                                                               *)

\* The committed and the drafted tables and every session keep their types.
TypeOK ==
    /\ db \in Tables /\ draft \in Tables
    /\ lock \in Sessions \cup {NoSession}
    /\ block \in [Sessions -> {"closed", "open", "raised", "fatal", "broken"}]
    /\ op \in [Sessions -> Ops \cup {NoOp}]
    /\ phase \in [Sessions -> Phase]
    /\ seen \in [Sessions -> 0..1]
    /\ calls \in [Sessions -> 0..MaxOps] /\ blocks \in [Sessions -> 0..MaxBlocks]

\* Whatever is interleaved, locked out, rolled back or handled, the committed
\* recurrence counts add up to the committed failed checks of their category,
\* but for those whose block went on after the pattern query had raised; and a
\* category other than "diger" never gets a second pattern row.
PatternsCount ==
    /\ \A c \in Stored : db.fails[c] = db.recur[c] + db.missed[c]
    /\ \A c \in Categories : db.patterns[c] <= 1

\* A row that is committed stays: upsert's DELETE is never committed without the
\* INSERT that replaces it, however its flush fails and whatever the block does
\* then, and no analysis is replaced by one of another version.
RowsAreKept ==
    [][/\ db.segments \subseteq db'.segments
       /\ db.insights \subseteq db'.insights
       /\ db.cache \subseteq db'.cache
       /\ \A a \in Sentences :
            db.analyses[a] # NoVersion => db'.analyses[a] = db.analyses[a]]_vars
=============================================================================
