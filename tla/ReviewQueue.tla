----------------------------- MODULE ReviewQueue -----------------------------
(***************************************************************************)
(* The human review queue (quality/review_queue.py, the quality pipeline   *)
(* that feeds it, the review commands of interfaces/cli/review.py).        *)
(*                                                                         *)
(* Every client is a process with a SQLAlchemy session of its own on one   *)
(* SQLite file.  An operation loads the row it works on, which SQLite does *)
(* not lock, and later commits: the commit is one atomic UPDATE, but of    *)
(* the columns that differ from what was loaded, over whatever the row     *)
(* holds by then.  A row loaded before stays as it was loaded until this   *)
(* session commits.  Between the two steps the others work, the user       *)
(* thinks, the lock times out or the process dies.                         *)
(*                                                                         *)
(* flag_sentence leaves flagged_at to the table's CURRENT_TIMESTAMP, which *)
(* has neither "T" nor zone.  Of such a stamp complete_review computes no  *)
(* duration (it takes a naive datetime from an aware one), so it raises    *)
(* before it changes the row: no row ever gets a decision.                 *)
(***************************************************************************)
EXTENDS Integers, FiniteSets, Sequences

CONSTANTS
    Sentences,
    Flaggers,       \* processes that run the quality pipeline
    Reviewers,      \* processes that run the review commands
    DictDetails,    \* trigger details are the dict flag_sentence declares;
                    \* FALSE: the string should_flag_for_review returns
    Day,            \* clock ticks per day
    StaleAfter,     \* clock ticks in 72 hours
    MaxRows,        \* bound: rows of the queue
    MaxTime         \* bound: clock

Clients == Flaggers \cup Reviewers

ASSUME ReviewAssumption ==
    /\ IsFiniteSet(Flaggers) /\ Flaggers \cap Reviewers = {}
    /\ DictDetails \in BOOLEAN
    /\ Day \in Nat \ {0} /\ StaleAfter \in Nat /\ StaleAfter % Day = 0
    /\ MaxRows \in Nat /\ MaxTime \in Nat

Open == {"PENDING", "ASSIGNED", "IN_REVIEW"}
Decisions == {"APPROVED", "REJECTED", "MODIFIED"}
Status == Open \cup Decisions \cup {"ESCALATED"}

Row == [sent : Sentences, status : Status, flagged : 0..MaxTime]

VARIABLES
    rows,       \* ai_human_review_queue, by review_id
    counted,    \* sentences some pipeline counted in its review_flags
    now,
    proc        \* the operation each client is in

vars == <<rows, counted, now, proc>>

Ids == 1..Len(rows)
Idle == [op |-> "idle"]

\* Operations in progress; `rest' is what a bulk approval has still to do.
InProgress ==
    [op : {"flag"}, sent : Sentences]
    \cup [op : {"assign", "start"}, row : 1..MaxRows, seen : Status]
    \cup [op : {"confirm", "next", "escalate"}, list : SUBSET (1..MaxRows)]
    \cup [op : {"complete"}, row : 1..MaxRows, action : Decisions,
          rest : SUBSET (1..MaxRows)]

TypeOK ==
    /\ rows \in Seq(Row) /\ Len(rows) <= MaxRows
    /\ counted \subseteq Sentences
    /\ now \in 0..MaxTime
    /\ proc \in [Clients -> InProgress \cup {Idle}]

Init ==
    /\ rows = <<>>
    /\ counted = {}
    /\ now = 0
    /\ proc = [p \in Clients |-> Idle]

Begin(p, operation) == proc[p] = Idle /\ proc' = [proc EXCEPT ![p] = operation]
Continue(p, operation) == proc' = [proc EXCEPT ![p] = operation]

-----------------------------------------------------------------------------
\* Mutant: a pending row is not yet a review.
AlreadyTaken(s) ==
    \E r \in Ids : rows[r].sent = s /\ rows[r].status \in {"ASSIGNED", "IN_REVIEW"}

(* flag_sentence: is the sentence in the queue and unfinished?             *)
AlreadyFlagged(s) == \E r \in Ids : rows[r].sent = s /\ rows[r].status \in Open

Flag(p, s) ==
    /\ ~AlreadyFlagged(s) /\ DictDetails
    /\ Begin(p, [op |-> "flag", sent |-> s])
    /\ UNCHANGED <<rows, counted, now>>

(* Nothing to insert: it is there already, or building the row raised (a   *)
(* string has no .get), which flag_sentence turns into None.  The pipeline *)
(* counts the flag without looking at the result.                          *)
FlagNothing(p, s) ==
    /\ proc[p] = Idle
    /\ AlreadyFlagged(s) \/ ~DictDetails
    /\ counted' = counted \cup {s}
    /\ UNCHANGED <<rows, now, proc>>

\* Mutant: the column's text is not a status.
InsertLowerCase(p) ==
    /\ proc[p].op = "flag" /\ Len(rows) < MaxRows
    /\ rows' = Append(rows, [sent |-> proc[p].sent, status |-> "pending", flagged |-> now])
    /\ counted' = counted \cup {proc[p].sent}
    /\ Continue(p, Idle)
    /\ UNCHANGED now

Insert(p) ==
    /\ proc[p].op = "flag" /\ Len(rows) < MaxRows
    /\ rows' = Append(rows, [sent |-> proc[p].sent, status |-> "PENDING", flagged |-> now])
    /\ counted' = counted \cup {proc[p].sent}
    /\ Continue(p, Idle)
    /\ UNCHANGED now

-----------------------------------------------------------------------------
(* assign_review, start_review: load, whatever the status, and set it.     *)
Take(p, r, operation) ==
    /\ Begin(p, [op |-> operation, row |-> r, seen |-> rows[r].status])
    /\ UNCHANGED <<rows, counted, now>>

\* An UPDATE sets a column only when its value is not the loaded one.
Changed(seen, new, current) == IF new = seen THEN current ELSE new

SetStatus(p) ==
    LET r   == proc[p].row
        new == IF proc[p].op = "assign" THEN "ASSIGNED" ELSE "IN_REVIEW"
    IN  /\ proc[p].op \in {"assign", "start"}
        /\ rows' = [rows EXCEPT ![r].status = Changed(proc[p].seen, new, @)]
        /\ Continue(p, Idle)
        /\ UNCHANGED <<counted, now>>

-----------------------------------------------------------------------------
(* complete_review: load the row, whatever its status.                     *)
Completing(r, action, rest) ==
    [op |-> "complete", row |-> r, action |-> action, rest |-> rest]

Complete(p, r, action) ==
    /\ Begin(p, Completing(r, action, {}))
    /\ UNCHANGED <<rows, counted, now>>

(* The duration cannot be computed: complete_review raises, rolls back and *)
(* reports failure.  A bulk approval goes on with its next row.            *)
Raise(p) ==
    /\ proc[p].op = "complete"
    /\ Continue(p, IF proc[p].rest = {} THEN Idle
                   ELSE [op |-> "next", list |-> proc[p].rest])
    /\ UNCHANGED <<rows, counted, now>>

(* The approve command: list the pending rows, ask the user to confirm,    *)
(* complete them one by one, whatever they have become.                    *)
ListPending(p) ==
    LET pending == {r \in Ids : rows[r].status = "PENDING"}
    IN  /\ pending # {}
        /\ Begin(p, [op |-> "confirm", list |-> pending])
        /\ UNCHANGED <<rows, counted, now>>

Approve(p, r) ==
    /\ proc[p].op \in {"confirm", "next"} /\ r \in proc[p].list
    /\ Continue(p, Completing(r, "APPROVED", proc[p].list \ {r}))
    /\ UNCHANGED <<rows, counted, now>>

-----------------------------------------------------------------------------
\* Mutant: the day before the cutoff's counts whole.
OlderByADayLess(r) ==
    /\ now >= StaleAfter - Day
    /\ rows[r].flagged \div Day <= (now - StaleAfter + Day) \div Day

(* flagged_at < cutoff.isoformat(), a comparison of strings: flagged_at    *)
(* has a blank where the cutoff has a "T", and a row of the cutoff's day   *)
(* counts as older at any hour.                                            *)
OlderThanCutoff(r) ==
    now >= StaleAfter /\ rows[r].flagged \div Day <= (now - StaleAfter) \div Day

ListStale(p) ==
    LET stale == {r \in Ids : rows[r].status \in Open /\ OlderThanCutoff(r)}
    IN  /\ stale # {}
        /\ Begin(p, [op |-> "escalate", list |-> stale])
        /\ UNCHANGED <<rows, counted, now>>

Escalate(p) ==
    /\ proc[p].op = "escalate"
    /\ rows' = [r \in Ids |-> IF r \in proc[p].list
                              THEN [rows[r] EXCEPT !.status = "ESCALATED"]
                              ELSE rows[r]]
    /\ Continue(p, Idle)
    /\ UNCHANGED <<counted, now>>

-----------------------------------------------------------------------------
(* The pending commit fails (the database stays locked): nothing of it is  *)
(* written.  A flagging pipeline counts the flag all the same.             *)
CommitFails(p) ==
    /\ proc[p].op \in {"flag", "assign", "start", "escalate"}
    /\ Continue(p, Idle)
    /\ counted' = IF proc[p].op = "flag" THEN counted \cup {proc[p].sent} ELSE counted
    /\ UNCHANGED <<rows, now>>

\* The process is killed, or the user does not confirm a bulk approval.
Abandon(p) ==
    /\ proc[p] # Idle
    /\ Continue(p, Idle)
    /\ UNCHANGED <<rows, counted, now>>

Tick ==
    /\ now < MaxTime
    /\ now' = now + 1
    /\ UNCHANGED <<rows, counted, proc>>

FlagStep(p) ==
    \/ \E s \in Sentences : Flag(p, s) \/ FlagNothing(p, s)
    \/ Insert(p)

Handle(p) ==
    \/ \E r \in Ids : Take(p, r, "assign") \/ Take(p, r, "start")
    \/ \E r \in Ids, a \in Decisions : Complete(p, r, a)
    \/ ListPending(p)
    \/ ListStale(p)

Finish(p) ==
    \/ SetStatus(p) \/ Raise(p) \/ Escalate(p)
    \/ \E r \in Ids : Approve(p, r)

Next ==
    \/ \E p \in Flaggers : FlagStep(p)
    \/ \E p \in Reviewers : Handle(p) \/ Finish(p)
    \/ \E p \in Clients : CommitFails(p) \/ Abandon(p)
    \/ Tick

Spec == Init /\ [][Next]_vars

-----------------------------------------------------------------------------
(* The rows in which a sentence waits for review.                          *)
Pending(s) == {r \in Ids : rows[r].sent = s /\ rows[r].status = "PENDING"}

(* A sentence waits for review in no more rows than there are pipelines    *)
(* running at a time, although the check and the insert are two steps and  *)
(* reviewers reopen and escalate rows in between.                          *)
PendingBounded ==
    \A s \in Sentences : Cardinality(Pending(s)) <= Cardinality(Flaggers)

(* Nothing is escalated a whole day before its 72 hours are over: stamps   *)
(* compare as text, and what was flagged on the cutoff's day is stale at   *)
(* any hour of it, but a listing is never used on a row younger than that. *)
EscalatedAreStale ==
    \A r \in Ids : rows[r].status = "ESCALATED" =>
        now - rows[r].flagged > StaleAfter - Day

-----------------------------------------------------------------------------
(* What a docstring of the code promises and the code does not do.         *)
(* "Complete a review with final action.": a completion of a review leaves *)
(* its row decided, unless the process dies or the commit fails.           *)
CompletionsDecide ==
    [][\A p \in Reviewers : proc[p].op = "complete" /\ proc'[p] # proc[p] =>
          \/ rows'[proc[p].row].status = proc[p].action
          \/ Abandon(p) \/ CommitFails(p)]_vars
=============================================================================
