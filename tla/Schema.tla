------------------------------- MODULE Schema -------------------------------
(* The database schema under `alembic upgrade head` and                      *)
(* `alembic downgrade -1` on SQLite (infrastructure/db/migrations.py).       *)
(*                                                                           *)
(* Alembic gives each revision a transaction that ends with the stamp of the *)
(* version, but the driver opens it only at the first INSERT: a CREATE, an   *)
(* ALTER or a DROP before that is on file at once, and stays there when the  *)
(* revision fails or the process dies.  A table is copied with an INSERT, so *)
(* what follows a copy is on file only with the stamp.                       *)
(*                                                                           *)
(* pyproject.toml allows every SQLAlchemy 2: some releases write a default   *)
(* such as datetime('now') without the parentheses SQLite's parser wants.    *)
EXTENDS Integers, FiniteSets, SequencesExt, SchemaRevisions, SchemaModels

VARIABLES
    file,       \* the schema on file
    work,       \* the schema as the connection sees it
    inTxn,      \* the driver has begun a transaction
    applied,    \* the revisions the version table stands for
    mode,       \* "idle", "up", "down": the command under way
    plan,       \* the revisions it has still to run
    rev,        \* the revision being run, or NoRev
    todo,       \* its statements still to execute
    torn,       \* <<mode, revision>>: done in part on file, and not run whole since
    brackets    \* the SQLAlchemy installed puts defaults in parentheses

vars == <<file, work, inTxn, applied, mode, plan, rev, todo, torn, brackets>>

NoRev == "none"
Empty == [tables |-> << >>, views |-> << >>]
Temp(t) == "_alembic_tmp_" \o t

\* The copy of a table is two statements: the temporary table, then the rest.
Split(op) ==
    IF op.kind = "recreate" THEN << [op EXCEPT !.kind = "temp"], [op EXCEPT !.kind = "copy"] >>
    ELSE << op >>
Statements(ops) == FlattenSeq([i \in DOMAIN ops |-> Split(ops[i])])

-----------------------------------------------------------------------------
(* What SQLite does with one statement.                                      *)

Has(s, t) == t \in DOMAIN s.tables
IndexNames(s) == UNION {s.tables[t].idx : t \in DOMAIN s.tables}
Put(f, k, v) == [x \in DOMAIN f \cup {k} |-> IF x = k THEN v ELSE f[x]]
Drop(f, k) == [x \in DOMAIN f \ {k} |-> f[x]]

\* Index names are unique in the whole database; a rename re-reads every view,
\* and a view on the table that was just dropped makes it fail.
Legal(op, s) ==
    CASE op.kind = "default" -> brackets /\ ~Has(s, op.table)
      [] op.kind = "create"  -> ~Has(s, op.table)
      [] op.kind = "temp"    -> Has(s, op.table) /\ ~Has(s, Temp(op.table))
      [] op.kind = "copy"    -> /\ \A v \in DOMAIN s.views : op.table \notin s.views[v]
                                /\ op.gone \subseteq s.tables[op.table].cols
      [] op.kind = "drop"    -> Has(s, op.table)
      [] op.kind = "index"   -> Has(s, op.table) /\ op.names \cap IndexNames(s) = {}
      [] op.kind = "unindex" -> Has(s, op.table) /\ op.names \subseteq s.tables[op.table].idx
      [] op.kind = "add"     -> Has(s, op.table) /\ op.cols \cap s.tables[op.table].cols = {}
      [] op.kind = "dropcol" -> Has(s, op.table) /\ op.cols \subseteq s.tables[op.table].cols
      [] op.kind = "view"    -> op.table \notin DOMAIN s.views
      [] OTHER -> TRUE

Table(cols, parents, idx) == [cols |-> cols, parents |-> parents, idx |-> idx]

Apply(op, s) ==
    LET old == s.tables[op.table]
        To(row) == [s EXCEPT !.tables = Put(s.tables, op.table, row)]
    IN CASE op.kind \in {"create", "default"} -> To(Table(op.cols, op.parents, {}))
         [] op.kind = "temp"    -> [s EXCEPT !.tables =
                Put(s.tables, Temp(op.table),
                    Table((old.cols \cup op.cols) \ op.gone, old.parents, {}))]
         [] op.kind = "copy"    -> [s EXCEPT !.tables =
                Put(Drop(s.tables, Temp(op.table)), op.table,
                    [s.tables[Temp(op.table)] EXCEPT !.idx = (old.idx \ op.lost) \cup op.names])]
         [] op.kind \in {"drop", "dropif"} -> [s EXCEPT !.tables = Drop(s.tables, op.table)]
         [] op.kind = "index"   -> To([old EXCEPT !.idx = @ \cup op.names])
         [] op.kind = "unindex" -> To([old EXCEPT !.idx = @ \ op.names])
         [] op.kind = "add"     -> To([old EXCEPT !.cols = @ \cup op.cols])
         [] op.kind = "dropcol" -> To([old EXCEPT !.cols = @ \ op.cols])
         [] op.kind = "view"    -> [s EXCEPT !.views = Put(s.views, op.table, op.parents)]
         [] op.kind = "unview"  -> [s EXCEPT !.views = Drop(s.views, op.table)]
         [] op.kind = "ensure"  ->
                IF Has(s, op.table) THEN To([old EXCEPT !.cols = @ \cup op.extra])
                ELSE To(Table(op.cols, op.parents, op.names))

-----------------------------------------------------------------------------
(* The commands.                                                             *)

Init ==
    /\ file = Empty /\ work = Empty /\ inTxn = FALSE
    /\ applied = {} /\ mode = "idle" /\ plan = {} /\ rev = NoRev /\ todo = << >>
    /\ torn = {} /\ brackets \in BOOLEAN

Heads == {r \in applied : \A q \in applied : r \notin DownRevisions(q)}

\* migrate() and downgrade_one() each run one alembic command.
StartUpgrade ==
    /\ mode = "idle" /\ applied # Revisions
    /\ mode' = "up" /\ plan' = Revisions \ applied
    /\ UNCHANGED <<file, work, inTxn, applied, rev, todo, torn, brackets>>

\* "-1" is one revision below the head, and of several heads below any of them:
\* alembic only warns.  Below a first revision is the empty database, and every
\* revision is undone.  Below a merge are two revisions, and the command raises
\* before any change.
StartDowngrade ==
    /\ mode = "idle"
    /\ \E r \in Heads :
        /\ Cardinality(DownRevisions(r)) < 2
        /\ plan' = IF DownRevisions(r) = {} THEN applied ELSE {r}
    /\ mode' = "down"
    /\ UNCHANGED <<file, work, inTxn, applied, rev, todo, torn, brackets>>

\* The next revision of the command.  Alembic sorts those of an upgrade, parents
\* before children; of a downgrade, one whose children are undone.
Precedes(q, r) == \E i, j \in DOMAIN RevisionOrder :
    i < j /\ RevisionOrder[i] = q /\ RevisionOrder[j] = r
NextRevision(r) ==
    /\ rev = NoRev /\ r \in plan
    /\ \/ /\ mode = "up" /\ \A q \in plan : ~Precedes(q, r)
          /\ todo' = Statements(Upgrade(r))
       \/ mode = "down" /\ r \in Heads /\ todo' = Statements(Downgrade(r))
    /\ rev' = r
    /\ UNCHANGED <<file, work, inTxn, applied, mode, plan, torn, brackets>>

\* One statement.  The copy of a table begins the transaction.
Execute ==
    /\ rev # NoRev /\ todo # << >>
    /\ LET op == Head(todo) IN
        /\ Legal(op, work)
        /\ work' = Apply(op, work)
        /\ inTxn' = (inTxn \/ op.kind = "copy")
        /\ file' = IF inTxn' THEN file ELSE work'
    /\ todo' = Tail(todo)
    /\ UNCHANGED <<applied, mode, plan, rev, torn, brackets>>

\* 20260512 alters a table of the first revision but revises nothing: undone first,
\* the other takes part of it along.
TakenAlong ==
    IF mode = "down" /\ rev = "378a5aaa5bbd" /\ "20260512" \in applied
    THEN {<<"down", "20260512">>} ELSE {}

\* The stamp of the version and the commit, together.
Stamped(rest) ==
    /\ rev # NoRev /\ todo = rest /\ todo' = << >>
    /\ applied' = IF mode = "up" THEN applied \cup {rev} ELSE applied \ {rev}
    /\ file' = work /\ inTxn' = FALSE /\ rev' = NoRev
    /\ plan' = plan \ {rev} /\ mode' = IF plan' = {} THEN "idle" ELSE mode
    /\ torn' = (torn \ {<<"up", rev>>, <<"down", rev>>}) \cup TakenAlong
    /\ UNCHANGED <<work, brackets>>

\* Mutant: the version is stamped before the last statement.
StampEarly == Len(todo) <= 1 /\ Stamped(todo)

Stamp == Stamped(<< >>)

\* The connection closes: what was in the transaction is rolled back, and the
\* revision is cut short if any of its statements was executed.
Close ==
    /\ work' = file /\ inTxn' = FALSE
    /\ mode' = "idle" /\ plan' = {} /\ rev' = NoRev /\ todo' = << >>
    /\ torn' = IF rev # NoRev /\ Len(todo) < Len(Statements(
                    IF mode = "up" THEN Upgrade(rev) ELSE Downgrade(rev)))
               THEN torn \cup {<<mode, rev>>} ELSE torn
    /\ UNCHANGED <<file, applied, brackets>>

Fail == rev # NoRev /\ todo # << >> /\ ~Legal(Head(todo), work) /\ Close

\* The process is killed.
Crash == mode # "idle" /\ Close

Next ==
    \/ StartUpgrade \/ StartDowngrade
    \/ \E r \in Revisions : NextRevision(r)
    \/ Execute \/ Stamp \/ Fail \/ Crash

Spec == Init /\ [][Next]_vars

-----------------------------------------------------------------------------
(* Properties.                                                               *)

\* The statements of the revisions rs, each after those it revises.
Upgrades(rs) ==
    FlattenSeq([i \in DOMAIN RevisionOrder |->
        IF RevisionOrder[i] \in rs THEN Statements(Upgrade(RevisionOrder[i])) ELSE << >>])
\* What the statements ops make of schema s.
After(s, ops) == FoldLeft(LAMBDA x, op : Apply(op, x), s, ops)

\* Between commands, when every revision that was done in part has been run whole
\* since, the schema is exactly what the stamped revisions make of an empty
\* database: a downgrade takes back all that its upgrade added, and nothing else.
DowngradeUndoes == mode = "idle" /\ torn = {} => file = After(Empty, Upgrades(applied))

\* Whatever crashed or failed, every table, column, index and view of a stamped
\* revision is on file, unless the downgrade of it or of one before it was done
\* in part: the stamp comes last, what a failed revision leaves behind replaces
\* nothing, and a downgrade takes nothing of the revisions below it.
AppliedArePresent ==
    LET Whole(r) == \A q \in Revisions : q = r \/ Precedes(q, r) => <<"down", q>> \notin torn
        s == After(Empty, Upgrades({r \in applied : Whole(r)}))
    IN mode = "idle" =>
        /\ \A t \in DOMAIN s.tables :
            /\ Has(file, t)
            /\ s.tables[t].cols \subseteq file.tables[t].cols
            /\ s.tables[t].idx \subseteq file.tables[t].idx
        /\ DOMAIN s.views \subseteq DOMAIN file.views

\* discourse_network_edges is mapped by two classes, and faz4 replaces the table
\* of the one by that of the other.
Replaced(t) ==
    IF t = "discourse_network_edges" THEN DiscourseNetworkEdge \ DiscourseNetworkEdgeTable ELSE {}


\* Taken from an empty database in their order, with nothing cut short before, the
\* revisions execute: "Son migration'ı uygula." (migrations.py:12).  The revision
\* 050ff3fd782c creates country_references, which the first one has created.
RevisionsExecute ==
    \A i \in DOMAIN RevisionOrder :
        /\ mode = "up" /\ rev = RevisionOrder[i] /\ todo # << >> /\ torn = {} /\ brackets
        /\ applied = {RevisionOrder[j] : j \in 1..i-1}
        => Legal(Head(todo), work)
=============================================================================
