----------------------------- MODULE PanelStore -----------------------------
(* The tables one panel's runs share, under SQLite sessions.                 *)
(*                                                                           *)
(* A row of bilateral_sentiments is kept as how often each reference went    *)
(* into it: with_new_reference makes total_mentions, avg_sentiment and       *)
(* affinity_score functions of that.  A pair has a row as soon as one        *)
(* reference went in.  A session reads what is committed until its first     *)
(* flush takes the write lock; a flush that fails dooms it: everything after *)
(* raises PendingRollbackError and nothing of it is kept.                    *)
EXTENDS Integers, FiniteSets, FiniteSetsExt

CONSTANTS
    Refs,       \* ids of country references
    Pairs,      \* (speaker_country, referenced_country)
    PairOf,     \* Refs -> Pairs
    Score,      \* Refs -> Int: raw_sentiment_score * speaker_power_level
    Sessions, NoSession

ASSUME StoreAssumption == PairOf \in [Refs -> Pairs] /\ NoSession \notin Sessions

VARIABLES
    db,         \* the committed tables
    draft,      \* the tables as the holder of the lock sees them
    lock,       \* the session that writes, or NoSession
    doomed      \* sessions whose flush has failed

store == <<db, draft, lock, doomed>>

Tables == [refs : SUBSET Refs, applied : [Refs -> Nat], edges : [Pairs -> Nat]]

StoreInit ==
    /\ db = [refs |-> {}, applied |-> [r \in Refs |-> 0], edges |-> [p \in Pairs |-> 0]]
    /\ draft = db
    /\ lock = NoSession
    /\ doomed = {}

View(s) == IF lock = s THEN draft ELSE db

Busy(s) == lock \notin {NoSession, s}

RefsOf(p) == {r \in Refs : PairOf[r] = p}

\* get_by_pair finds a row.
HasRow(applied, p) == \E r \in RefsOf(p) : applied[r] > 0

\* total_mentions times affinity_score.  No product of a score and a power level
\* leaves -1..1, so neither does their mean: the clamp never cuts.
Affinity(applied, p) == MapThenSumSet(LAMBDA r : applied[r] * Score[r], RefsOf(p))

\* A record with new values in some of its fields.
With(t, fields) == [x \in DOMAIN t |-> IF x \in DOMAIN fields THEN fields[x] ELSE t[x]]

Flush(s, tables) ==
    /\ ~Busy(s)
    /\ lock' = s
    /\ draft' = tables
    /\ UNCHANGED <<db, doomed>>

\* The lock is given up with the transaction; what was flushed goes with it.
Release(s) ==
    /\ lock' = IF lock = s THEN NoSession ELSE lock
    /\ draft' = IF lock = s THEN db' ELSE draft

FlushFails(s) ==
    /\ UNCHANGED db
    /\ Release(s)
    /\ doomed' = doomed \cup {s}

Commit(s) ==
    /\ s \notin doomed
    /\ db' = View(s)
    /\ Release(s)
    /\ UNCHANGED doomed

Rollback(s) ==
    /\ UNCHANGED db
    /\ Release(s)
    /\ doomed' = doomed \ {s}
=============================================================================
