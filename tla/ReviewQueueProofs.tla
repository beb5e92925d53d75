-------------------------- MODULE ReviewQueueProofs --------------------------
(***************************************************************************)
(* Proofs about ReviewQueue for any sentences, numbers of pipelines and    *)
(* reviewers, rows and clock ticks.                                        *)
(***************************************************************************)
EXTENDS ReviewQueue, FiniteSetTheorems, SequenceTheorems, TLAPS

\* What is under way on a row, is on a row there is.
OnRow == {"assign", "start", "complete"}
RowsExist == \A p \in Clients : proc[p].op \in OnRow => proc[p].row \in Ids

\* The pipelines that found a sentence unflagged and have not inserted it yet.
Flagging(s) == {p \in Flaggers : proc[p].op = "flag" /\ proc[p].sent = s}

\* Each pending row takes up one pipeline, as does each insert to come.
SlotsOf(s) == Cardinality(Pending(s)) + Cardinality(Flagging(s)) <= Cardinality(Flaggers)
Slots == \A s \in Sentences : SlotsOf(s)

TInv == TypeOK /\ RowsExist

(* What an operation in progress looks like, by its name.                  *)
LEMMA Operations ==
    ASSUME TypeOK, NEW p \in Clients
    PROVE  /\ proc[p].op = "flag" => proc[p].sent \in Sentences
           /\ proc[p].op \in OnRow => proc[p].row \in 1..MaxRows
           /\ proc[p].op = "complete" => proc[p].rest \in SUBSET (1..MaxRows)
           /\ proc[p].op \in {"confirm", "next"} => proc[p].list \in SUBSET (1..MaxRows)
<1>1. proc[p] \in InProgress \cup {Idle}
    BY DEF TypeOK
<1>2. QED
    BY <1>1 DEF InProgress, Idle, OnRow

(* A client that takes up an operation leaves the type intact.             *)
LEMMA ProcType ==
    ASSUME TypeOK, NEW p \in Clients, NEW o \in InProgress \cup {Idle},
           proc' = [proc EXCEPT ![p] = o]
    PROVE  proc' \in [Clients -> InProgress \cup {Idle}]
BY DEF TypeOK

LEMMA RowsExistKept ==
    ASSUME TInv, Len(rows') >= Len(rows), Len(rows') \in Nat,
           NEW p \in Clients, NEW o,
           o.op \in OnRow => o.row \in Ids,
           proc' = [proc EXCEPT ![p] = o]
    PROVE  RowsExist'
<1>1. Len(rows) \in Nat
    BY DEF TInv, TypeOK
<1>2. \A r : r \in Ids => r \in Ids'
    BY <1>1 DEF Ids
<1>3. ASSUME NEW q \in Clients, proc'[q].op \in OnRow PROVE proc'[q].row \in Ids'
    <2>1. CASE q = p
        BY <1>2, <1>3, <2>1 DEF TInv, TypeOK
    <2>2. CASE q # p
        <3>1. proc'[q] = proc[q]
            BY <2>2 DEF TInv, TypeOK
        <3>2. QED
            BY <1>2, <1>3, <3>1 DEF TInv, RowsExist
    <2>3. QED
        BY <2>1, <2>2
<1>4. QED
    BY <1>3 DEF RowsExist

(* An operation that touches neither table nor clock.                      *)
LEMMA ProcOnly ==
    ASSUME TInv, NEW p \in Clients, NEW o \in InProgress \cup {Idle},
           o.op \in OnRow => o.row \in Ids,
           proc' = [proc EXCEPT ![p] = o],
           UNCHANGED <<rows, now>>, counted' \subseteq Sentences
    PROVE  TInv'
<1>1. TypeOK'
    BY ProcType DEF TInv, TypeOK, Row
<1>2. RowsExist'
    <2>1. Len(rows') >= Len(rows) /\ Len(rows') \in Nat
        BY DEF TInv, TypeOK
    <2>2. QED
        BY <2>1, RowsExistKept
<1>3. QED
    BY <1>1, <1>2 DEF TInv

(* One that updates one row of the queue.                                  *)
LEMMA RowUpdate ==
    ASSUME TInv, NEW p \in Clients, NEW o \in InProgress \cup {Idle},
           o.op \in OnRow => o.row \in Ids,
           NEW r \in Ids, NEW row \in Row,
           proc' = [proc EXCEPT ![p] = o],
           rows' = [rows EXCEPT ![r] = row],
           UNCHANGED <<counted, now>>
    PROVE  TInv'
<1>1. rows' \in Seq(Row) /\ Len(rows') = Len(rows) /\ Len(rows) \in Nat
    BY ExceptSeq DEF TInv, TypeOK, Ids
<1>2. TypeOK'
    BY <1>1, ProcType DEF TInv, TypeOK, Row
<1>3. RowsExist'
    <2>1. Len(rows') >= Len(rows) /\ Len(rows') \in Nat
        BY <1>1
    <2>2. QED
        BY <2>1, RowsExistKept
<1>4. QED
    BY <1>2, <1>3 DEF TInv

LEMMA RowType ==
    ASSUME TypeOK, NEW r \in Ids
    PROVE  /\ rows[r] \in Row
           /\ rows[r].sent \in Sentences /\ rows[r].status \in Status
<1>1. rows[r] \in Row
    BY DEF TypeOK, Ids
<1>2. QED
    BY <1>1 DEF Row

LEMMA InitTInv == Init => TInv
<1> SUFFICES ASSUME Init PROVE TInv
    OBVIOUS
<1>1. TypeOK
    BY ReviewAssumption DEF Init, TypeOK
<1>2. RowsExist
    BY DEF Init, RowsExist, OnRow, Idle
<1>3. QED
    BY <1>1, <1>2 DEF TInv

-----------------------------------------------------------------------------
LEMMA IdleType == Idle \in InProgress \cup {Idle} /\ Idle.op \notin OnRow
BY DEF Idle, OnRow

LEMMA FlagTInv ==
    ASSUME TInv, NEW p \in Clients, NEW s \in Sentences, Flag(p, s) \/ FlagNothing(p, s)
    PROVE  TInv'
<1>1. CASE Flag(p, s)
    <2> DEFINE o == [op |-> "flag", sent |-> s]
    <2>1. o \in InProgress \cup {Idle} /\ o.op \notin OnRow
        BY DEF InProgress, OnRow
    <2>2. proc' = [proc EXCEPT ![p] = o] /\ UNCHANGED <<rows, counted, now>>
        BY <1>1 DEF Flag, Begin
    <2>3. counted' \subseteq Sentences
        BY <2>2 DEF TInv, TypeOK
    <2> HIDE DEF o
    <2>4. QED
        BY <2>1, <2>2, <2>3, ProcOnly
<1>2. CASE FlagNothing(p, s)
    <2>1. UNCHANGED <<rows, now, proc>> /\ counted' = counted \cup {s}
        BY <1>2 DEF FlagNothing
    <2>2. QED
        BY <2>1 DEF TInv, TypeOK, RowsExist, Ids, Row
<1>3. QED
    BY <1>1, <1>2

LEMMA InsertTInv == ASSUME TInv, NEW p \in Clients, Insert(p) PROVE TInv'
<1> DEFINE row == [sent |-> proc[p].sent, status |-> "PENDING", flagged |-> now]
<1>1. proc[p].sent \in Sentences
    BY Operations DEF TInv, Insert
<1>2. row \in Row
    BY <1>1 DEF TInv, TypeOK, Row, Status, Open
<1>3. rows' = Append(rows, row)
    BY DEF Insert
<1> HIDE DEF row
<1>4. rows' \in Seq(Row) /\ Len(rows') = Len(rows) + 1 /\ Len(rows) \in Nat
    BY <1>2, <1>3, AppendProperties DEF TInv, TypeOK
<1>5. Len(rows') <= MaxRows
    BY <1>4, ReviewAssumption DEF Insert
<1>6. proc' = [proc EXCEPT ![p] = Idle] /\ UNCHANGED <<now>>
      /\ counted' \subseteq Sentences
    BY <1>1 DEF Insert, Continue, TInv, TypeOK
<1>7. TypeOK'
    BY <1>4, <1>5, <1>6, IdleType, ProcType DEF TInv, TypeOK, Row
<1>8. RowsExist'
    <2>1. Len(rows') >= Len(rows) /\ Len(rows') \in Nat
        BY <1>4
    <2>2. QED
        BY <1>6, <2>1, IdleType, RowsExistKept
<1>9. QED
    BY <1>7, <1>8 DEF TInv

LEMMA TakeTInv ==
    ASSUME TInv, NEW p \in Clients, NEW r \in Ids, NEW op \in {"assign", "start"},
           Take(p, r, op)
    PROVE  TInv'
<1> DEFINE o == [op |-> op, row |-> r, seen |-> rows[r].status]
<1>1. r \in 1..MaxRows
    BY ReviewAssumption DEF TInv, TypeOK, Ids
<1>2. rows[r].status \in Status
    BY RowType DEF TInv
<1>3. o \in InProgress \cup {Idle} /\ o.row \in Ids
    BY <1>1, <1>2 DEF InProgress
<1>4. proc' = [proc EXCEPT ![p] = o] /\ UNCHANGED <<rows, counted, now>>
    BY DEF Take, Begin
<1>5. counted' \subseteq Sentences
    BY <1>4 DEF TInv, TypeOK
<1> HIDE DEF o
<1>6. QED
    BY <1>3, <1>4, <1>5, ProcOnly

LEMMA SetStatusTInv == ASSUME TInv, NEW p \in Clients, SetStatus(p) PROVE TInv'
<1> DEFINE r   == proc[p].row
           new == IF proc[p].op = "assign" THEN "ASSIGNED" ELSE "IN_REVIEW"
           row == [rows[r] EXCEPT !.status = Changed(proc[p].seen, new, @)]
<1>1. r \in Ids
    BY DEF TInv, RowsExist, OnRow, SetStatus
<1>2. row \in Row
    BY <1>1, RowType DEF TInv, Changed, Row, Status, Open
<1>3. rows' = [rows EXCEPT ![r] = row]
    BY DEF SetStatus
<1>4. proc' = [proc EXCEPT ![p] = Idle] /\ UNCHANGED <<counted, now>>
    BY DEF SetStatus, Continue
<1> HIDE DEF row
<1>5. QED
    BY <1>1, <1>2, <1>3, <1>4, IdleType, RowUpdate

(* The operation of completing row r with some decision.                   *)
LEMMA CompletingType ==
    ASSUME TInv, NEW r \in Ids, NEW action \in Decisions, NEW rest \in SUBSET (1..MaxRows)
    PROVE  /\ Completing(r, action, rest) \in InProgress
           /\ Completing(r, action, rest).row \in Ids
<1>1. r \in 1..MaxRows
    BY ReviewAssumption DEF TInv, TypeOK, Ids
<1>2. QED
    BY <1>1 DEF Completing, InProgress

LEMMA CompleteTInv ==
    ASSUME TInv, NEW p \in Clients, NEW r \in Ids, NEW a \in Decisions, Complete(p, r, a)
    PROVE  TInv'
<1> DEFINE o == Completing(r, a, {})
<1>1. o \in InProgress \cup {Idle} /\ o.row \in Ids
    BY CompletingType
<1>2. proc' = [proc EXCEPT ![p] = o] /\ UNCHANGED <<rows, counted, now>>
    BY DEF Complete, Begin
<1>3. counted' \subseteq Sentences
    BY <1>2 DEF TInv, TypeOK
<1> HIDE DEF o
<1>4. QED
    BY <1>1, <1>2, <1>3, ProcOnly

LEMMA RaiseTInv == ASSUME TInv, NEW p \in Clients, Raise(p) PROVE TInv'
<1> DEFINE o == IF proc[p].rest = {} THEN Idle ELSE [op |-> "next", list |-> proc[p].rest]
<1>1. proc[p].rest \in SUBSET (1..MaxRows)
    BY Operations DEF Raise, TInv
<1>2. o \in InProgress \cup {Idle} /\ o.op \notin OnRow
    BY <1>1 DEF InProgress, OnRow, Idle
<1>3. proc' = [proc EXCEPT ![p] = o] /\ UNCHANGED <<rows, now>> /\ counted' \subseteq Sentences
    BY DEF Raise, Continue, TInv, TypeOK
<1> HIDE DEF o
<1>4. QED
    BY <1>2, <1>3, ProcOnly

LEMMA ListTInv ==
    ASSUME TInv, NEW p \in Clients, ListPending(p) \/ ListStale(p)
    PROVE  TInv'
<1>1. Ids \in SUBSET (1..MaxRows)
    BY ReviewAssumption DEF TInv, TypeOK, Ids
<1>2. PICK o \in InProgress \cup {Idle} :
            o.op \notin OnRow /\ proc' = [proc EXCEPT ![p] = o]
    <2>1. CASE ListPending(p)
        <3> DEFINE o == [op |-> "confirm", list |-> {r \in Ids : rows[r].status = "PENDING"}]
        <3>1. o \in InProgress \cup {Idle} /\ o.op \notin OnRow
            BY <1>1 DEF InProgress, OnRow
        <3>2. proc' = [proc EXCEPT ![p] = o]
            BY <2>1 DEF ListPending, Begin
        <3>3. QED
            BY <3>1, <3>2
    <2>2. CASE ListStale(p)
        <3> DEFINE o == [op |-> "escalate",
                         list |-> {r \in Ids : rows[r].status \in Open /\ OlderThanCutoff(r)}]
        <3>1. o \in InProgress \cup {Idle} /\ o.op \notin OnRow
            BY <1>1 DEF InProgress, OnRow
        <3>2. proc' = [proc EXCEPT ![p] = o]
            BY <2>2 DEF ListStale, Begin
        <3>3. QED
            BY <3>1, <3>2
    <2>3. QED
        BY <2>1, <2>2
<1>3. UNCHANGED <<rows, now>> /\ counted' \subseteq Sentences
    BY DEF ListPending, ListStale, TInv, TypeOK
<1>4. QED
    BY <1>2, <1>3, ProcOnly

LEMMA ApproveTInv ==
    ASSUME TInv, NEW p \in Clients, NEW r \in Ids, Approve(p, r)
    PROVE  TInv'
<1> DEFINE o == Completing(r, "APPROVED", proc[p].list \ {r})
<1>1. proc[p].list \ {r} \in SUBSET (1..MaxRows)
    BY Operations DEF Approve, TInv
<1>2. o \in InProgress \cup {Idle} /\ o.row \in Ids
    BY <1>1, CompletingType DEF Decisions
<1>3. proc' = [proc EXCEPT ![p] = o] /\ UNCHANGED <<rows, now>> /\ counted' \subseteq Sentences
    BY DEF Approve, Continue, TInv, TypeOK
<1> HIDE DEF o
<1>4. QED
    BY <1>2, <1>3, ProcOnly

LEMMA EscalateTInv == ASSUME TInv, NEW p \in Clients, Escalate(p) PROVE TInv'
<1>1. rows' = [r \in Ids |-> IF r \in proc[p].list
                             THEN [rows[r] EXCEPT !.status = "ESCALATED"] ELSE rows[r]]
    BY DEF Escalate
<1>2. \A r \in Ids : (IF r \in proc[p].list THEN [rows[r] EXCEPT !.status = "ESCALATED"]
                       ELSE rows[r]) \in Row
    BY RowType DEF TInv, Row, Status
<1>3. Len(rows) \in Nat /\ Len(rows) <= MaxRows
    BY DEF TInv, TypeOK
<1>4. rows' \in Seq(Row) /\ Len(rows') = Len(rows)
    BY <1>1, <1>2, <1>3 DEF Ids
<1>5. proc' = [proc EXCEPT ![p] = Idle] /\ UNCHANGED <<counted, now>>
    BY DEF Escalate, Continue
<1>6. TypeOK'
    BY <1>3, <1>4, <1>5, IdleType, ProcType DEF TInv, TypeOK, Row
<1>7. RowsExist'
    <2>1. Len(rows') >= Len(rows) /\ Len(rows') \in Nat
        BY <1>3, <1>4
    <2>2. QED
        BY <1>5, <2>1, IdleType, RowsExistKept
<1>8. QED
    BY <1>6, <1>7 DEF TInv

LEMMA FailTInv ==
    ASSUME TInv, NEW p \in Clients, CommitFails(p) \/ Abandon(p)
    PROVE  TInv'
<1>1. UNCHANGED <<rows, now>>
    BY DEF CommitFails, Abandon
<1>2. counted' \subseteq Sentences
    BY Operations DEF CommitFails, Abandon, TInv, TypeOK
<1>3. proc' = [proc EXCEPT ![p] = Idle]
    BY DEF CommitFails, Abandon, Continue
<1>4. QED
    BY <1>1, <1>2, <1>3, IdleType, ProcOnly

LEMMA TickTInv == ASSUME TInv, Tick PROVE TInv'
<1>1. now' \in 0..MaxTime
    BY ReviewAssumption DEF Tick, TInv, TypeOK
<1>2. QED
    BY <1>1 DEF Tick, TInv, TypeOK, RowsExist, Ids, Row

LEMMA NextTInv == ASSUME TInv, [Next]_vars PROVE TInv'
<1>1. CASE UNCHANGED vars
    BY <1>1 DEF vars, TInv, TypeOK, RowsExist, Ids, Row
<1>2. CASE \E p \in Flaggers : FlagStep(p)
    BY <1>2, FlagTInv, InsertTInv DEF FlagStep, Clients
<1>3. CASE \E p \in Reviewers : Handle(p)
    BY <1>3, TakeTInv, CompleteTInv, ListTInv DEF Handle, Clients
<1>4. CASE \E p \in Reviewers : Finish(p)
    BY <1>4, SetStatusTInv, RaiseTInv, EscalateTInv, ApproveTInv DEF Finish, Clients
<1>5. CASE \E p \in Clients : CommitFails(p) \/ Abandon(p)
    BY <1>5, FailTInv
<1>6. CASE Tick
    BY <1>6, TickTInv
<1>7. QED
    BY <1>1, <1>2, <1>3, <1>4, <1>5, <1>6 DEF Next

(* Rows and operations keep their types, and an operation on a row is on a *)
(* row of the queue, in every interleaving of pipelines and reviewers.     *)
THEOREM TypeCorrect == Spec => []TypeOK
<1>1. Init => TInv
    BY InitTInv
<1>2. TInv /\ [Next]_vars => TInv'
    BY NextTInv
<1>3. TInv => TypeOK
    BY DEF TInv
<1>4. QED
    BY <1>1, <1>2, <1>3, PTL DEF Spec

-----------------------------------------------------------------------------
(* The rows of a sentence that wait for review.                            *)
LEMMA SetsFinite ==
    ASSUME TInv, NEW s
    PROVE  /\ IsFiniteSet(Pending(s)) /\ Cardinality(Pending(s)) \in Nat
           /\ IsFiniteSet(Flagging(s)) /\ Cardinality(Flagging(s)) \in Nat
           /\ Cardinality(Flagging(s)) <= Cardinality(Flaggers)
           /\ Cardinality(Flaggers) \in Nat
<1>1. IsFiniteSet(Ids)
    BY FS_Interval DEF TInv, TypeOK, Ids
<1>2. Pending(s) \in SUBSET Ids /\ Flagging(s) \in SUBSET Flaggers
    BY DEF Pending, Flagging
<1>3. IsFiniteSet(Pending(s)) /\ IsFiniteSet(Flagging(s))
      /\ Cardinality(Flagging(s)) <= Cardinality(Flaggers)
    BY <1>1, <1>2, FS_Subset, ReviewAssumption
<1>4. QED
    BY <1>3, FS_CardinalityType, ReviewAssumption

(* A step that adds neither a pending row nor a pipeline about to insert.  *)
LEMMA SlotsShrink ==
    ASSUME TInv, TInv', NEW s \in Sentences, SlotsOf(s),
           Pending(s)' \subseteq Pending(s), Flagging(s)' \subseteq Flagging(s)
    PROVE  SlotsOf(s)'
<1>1. /\ Cardinality(Pending(s)') <= Cardinality(Pending(s))
      /\ Cardinality(Flagging(s)') <= Cardinality(Flagging(s))
      /\ Cardinality(Pending(s)') \in Nat /\ Cardinality(Flagging(s)') \in Nat
    BY SetsFinite, FS_Subset, FS_CardinalityType
<1>2. QED
    BY <1>1, SetsFinite DEF SlotsOf

(* Reviewers never make a row pending and never flag.                      *)
LEMMA ReviewersAddNothing ==
    ASSUME TInv, NEW p \in Reviewers, Handle(p) \/ Finish(p)
    PROVE  /\ Ids' = Ids
           /\ \A r \in Ids : /\ rows'[r].sent = rows[r].sent
                             /\ rows'[r].status = "PENDING" => rows[r].status = "PENDING"
           /\ \A q \in Flaggers : proc'[q] = proc[q]
<1>1. \A q \in Flaggers : q # p /\ q \in Clients
    BY ReviewAssumption DEF Clients
<1>2. CASE Handle(p)
    BY <1>1, <1>2 DEF Handle, Take, Complete, ListPending, ListStale, Begin, Ids, TInv, TypeOK
<1>3. CASE SetStatus(p)
    <2>1. proc[p].row \in Ids
        BY <1>3 DEF TInv, RowsExist, OnRow, SetStatus, Clients
    <2>2. rows \in [Ids -> Row] /\ Ids' = Ids
        BY <1>3, <2>1 DEF SetStatus, Ids, TInv, TypeOK
    <2>3. \A r \in Ids : /\ rows'[r].sent = rows[r].sent
                         /\ rows'[r].status = "PENDING" => rows[r].status = "PENDING"
        BY <1>3, <2>2 DEF SetStatus, Changed, Row
    <2>4. QED
        BY <1>1, <1>3, <2>2, <2>3 DEF SetStatus, Continue, TInv, TypeOK
<1>5. CASE Escalate(p)
    <2>1. rows' = [r \in Ids |-> IF r \in proc[p].list
                                 THEN [rows[r] EXCEPT !.status = "ESCALATED"] ELSE rows[r]]
        BY <1>5 DEF Escalate
    <2>2. rows \in [Ids -> Row] /\ Len(rows) \in Nat
        BY DEF Ids, TInv, TypeOK
    <2>3. Ids' = Ids
        <3>1. rows' \in Seq(Row) /\ DOMAIN rows' = 1..Len(rows) /\ DOMAIN rows' = 1..Len(rows')
            BY <2>1, EscalateTInv, <1>5 DEF Ids, TInv, TypeOK, Clients
        <3>2. QED
            BY <3>1 DEF Ids
    <2>4. \A r \in Ids : /\ rows'[r].sent = rows[r].sent
                         /\ rows'[r].status = "PENDING" => rows[r].status = "PENDING"
        BY <2>1, <2>2 DEF Row
    <2>5. QED
        BY <1>1, <1>5, <2>3, <2>4 DEF Escalate, Continue, TInv, TypeOK
<1>6. CASE Raise(p) \/ \E r \in Ids : Approve(p, r)
    BY <1>1, <1>6 DEF Raise, Approve, Continue, Ids, TInv, TypeOK
<1>7. QED
    BY <1>2, <1>3, <1>5, <1>6 DEF Finish

LEMMA FlagSlots ==
    ASSUME TInv, TInv', NEW p \in Flaggers, NEW f \in Sentences, Flag(p, f),
           NEW s \in Sentences, SlotsOf(s)
    PROVE  SlotsOf(s)'
<1>1. rows' = rows /\ proc' = [proc EXCEPT ![p] = [op |-> "flag", sent |-> f]]
    BY DEF Flag, Begin
<1>2. Pending(s)' = Pending(s)
    BY <1>1 DEF Pending, Ids
<1>3. CASE s = f
    <2>1. Pending(s) = {}
        BY <1>3 DEF Flag, AlreadyFlagged, Pending, Open
    <2>2. Cardinality(Pending(s)') = 0
        BY <1>2, <2>1, FS_EmptySet
    <2>3. /\ Cardinality(Flagging(s)') <= Cardinality(Flaggers)
          /\ Cardinality(Flagging(s)') \in Nat
        <3>1. Flagging(s)' \in SUBSET Flaggers
            BY DEF Flagging
        <3>2. QED
            BY <3>1, FS_Subset, FS_CardinalityType, ReviewAssumption
    <2>4. QED
        BY <2>2, <2>3, SetsFinite DEF SlotsOf
<1>4. CASE s # f
    <2>1. Flagging(s)' \subseteq Flagging(s)
        BY <1>1, <1>4 DEF Flagging, TInv, TypeOK, Clients
    <2>2. QED
        BY <1>2, <2>1, SlotsShrink
<1>5. QED
    BY <1>3, <1>4

LEMMA InsertSlots ==
    ASSUME TInv, TInv', NEW p \in Flaggers, Insert(p),
           NEW s \in Sentences, SlotsOf(s)
    PROVE  SlotsOf(s)'
<1> DEFINE row == [sent |-> proc[p].sent, status |-> "PENDING", flagged |-> now]
           n == Len(rows) + 1
<1>1. proc[p].sent \in Sentences
    BY Operations DEF TInv, Insert, Clients
<1>2. row \in Row
    BY <1>1 DEF TInv, TypeOK, Row, Status, Open
<1>3. rows' = Append(rows, row) /\ proc' = [proc EXCEPT ![p] = Idle] /\ p \in DOMAIN proc
    BY DEF Insert, Continue, TInv, TypeOK, Clients
<1>4. row.sent = proc[p].sent /\ row.status = "PENDING"
    OBVIOUS
<1> HIDE DEF row
<1>5. /\ Len(rows') = n /\ Len(rows) \in Nat
      /\ \A r \in Ids : rows'[r] = rows[r]
      /\ rows'[n] = row
    BY <1>2, <1>3, AppendProperties DEF TInv, TypeOK, Ids
<1>6. Ids' = Ids \cup {n} /\ n \notin Ids
    BY <1>5 DEF Ids
<1>7. Flagging(s)' = Flagging(s) \ {p}
    BY <1>3 DEF Flagging, Idle, TInv, TypeOK, Clients
<1>8. CASE s = proc[p].sent
    <2>1. Pending(s)' = Pending(s) \cup {n} /\ n \notin Pending(s)
        BY <1>4, <1>5, <1>6, <1>8 DEF Pending
    <2>2. Cardinality(Pending(s)') = Cardinality(Pending(s)) + 1
        BY <2>1, SetsFinite, FS_AddElement
    <2>3. p \in Flagging(s)
        BY <1>8 DEF Flagging, Insert
    <2>4. Cardinality(Flagging(s)') = Cardinality(Flagging(s)) - 1
        BY <1>7, <2>3, SetsFinite, FS_RemoveElement
    <2>5. QED
        BY <2>2, <2>4, SetsFinite DEF SlotsOf
<1>9. CASE s # proc[p].sent
    <2>1. Pending(s)' = Pending(s)
        BY <1>4, <1>5, <1>6, <1>9 DEF Pending
    <2>2. QED
        BY <1>7, <2>1, SlotsShrink
<1>10. QED
    BY <1>8, <1>9

LEMMA StepSlots ==
    ASSUME TInv, TInv', [Next]_vars, NEW s \in Sentences, SlotsOf(s)
    PROVE  SlotsOf(s)'
<1>1. CASE \E p \in Flaggers, f \in Sentences : Flag(p, f)
    BY <1>1, FlagSlots
<1>2. CASE \E p \in Flaggers : Insert(p)
    BY <1>2, InsertSlots
<1>3. CASE UNCHANGED <<rows, proc>>
    BY <1>3 DEF SlotsOf, Pending, Flagging, Ids
<1>4. CASE \E p \in Reviewers : Handle(p) \/ Finish(p)
    <2>1. PICK p \in Reviewers : Handle(p) \/ Finish(p)
        BY <1>4
    <2>2. /\ Ids' = Ids
          /\ \A r \in Ids : /\ rows'[r].sent = rows[r].sent
                            /\ rows'[r].status = "PENDING" => rows[r].status = "PENDING"
          /\ \A q \in Flaggers : proc'[q] = proc[q]
        BY <2>1, ReviewersAddNothing
    <2>3. Pending(s)' \subseteq Pending(s)
        <3>1. ASSUME NEW r \in Pending(s)' PROVE r \in Pending(s)
            BY <2>2, <3>1 DEF Pending
        <3>2. QED
            BY <3>1
    <2>4. Flagging(s)' \subseteq Flagging(s)
        BY <2>2 DEF Flagging
    <2>5. QED
        BY <2>3, <2>4, SlotsShrink
<1>5. CASE \E p \in Clients : CommitFails(p) \/ Abandon(p)
    <2>1. PICK p \in Clients : CommitFails(p) \/ Abandon(p)
        BY <1>5
    <2>2. Idle.op # "flag" /\ proc' = [proc EXCEPT ![p] = Idle]
        BY <2>1 DEF CommitFails, Abandon, Continue, Idle
    <2>3. Flagging(s)' \subseteq Flagging(s)
        BY <2>2 DEF Flagging, TInv, TypeOK, Clients
    <2>4. Pending(s)' = Pending(s)
        BY <2>1 DEF CommitFails, Abandon, Pending, Ids
    <2>5. QED
        BY <2>3, <2>4, SlotsShrink
<1>6. CASE \E p \in Flaggers, f \in Sentences : FlagNothing(p, f)
    BY <1>3, <1>6 DEF FlagNothing
<1>7. CASE Tick \/ UNCHANGED vars
    BY <1>3, <1>7 DEF Tick, vars
<1>8. QED
    BY <1>1, <1>2, <1>4, <1>5, <1>6, <1>7 DEF Next, FlagStep

(* A sentence waits for review in no more rows than pipelines run at a     *)
(* time: the check and the insert of flag_sentence are two steps, but an   *)
(* insert uses up the pipeline that checked, and no reviewer's step ever   *)
(* puts a row back among the pending ones.                                 *)
THEOREM PendingIsBounded == Spec => []PendingBounded
<1> DEFINE IInv == TInv /\ Slots
<1>1. Init => IInv
    <2> SUFFICES ASSUME Init PROVE IInv
        OBVIOUS
    <2>1. TInv
        BY InitTInv
    <2>2. ASSUME NEW s \in Sentences PROVE SlotsOf(s)
        <3>1. Pending(s) = {}
            BY DEF Init, Pending, Ids
        <3>2. Cardinality(Pending(s)) = 0
            BY <3>1, FS_EmptySet
        <3>3. QED
            BY <2>1, <3>2, SetsFinite DEF SlotsOf
    <2>3. QED
        BY <2>1, <2>2 DEF Slots
<1>2. IInv /\ [Next]_vars => IInv'
    <2> SUFFICES ASSUME TInv, Slots, [Next]_vars PROVE IInv'
        OBVIOUS
    <2>1. TInv'
        BY NextTInv
    <2>2. ASSUME NEW s \in Sentences PROVE SlotsOf(s)'
        BY <2>1, StepSlots DEF Slots
    <2>3. QED
        BY <2>1, <2>2 DEF Slots
<1>3. IInv => PendingBounded
    <2> SUFFICES ASSUME TInv, Slots, NEW s \in Sentences
                 PROVE  Cardinality(Pending(s)) <= Cardinality(Flaggers)
        BY DEF PendingBounded
    <2>1. QED
        BY SetsFinite DEF Slots, SlotsOf
<1>4. QED
    BY <1>1, <1>2, <1>3, PTL DEF Spec

-----------------------------------------------------------------------------
(* Escalations.                                                            *)

\* What is about to be escalated is open for 72 hours, or less than a day less.
Stale(r) == now - rows[r].flagged > StaleAfter - Day
Listed ==
    \A p \in Clients : proc[p].op = "escalate" =>
        \A r \in proc[p].list : r \in Ids /\ Stale(r)
LInv == Listed /\ EscalatedAreStale

LEMMA DayStarts ==
    ASSUME NEW a \in Nat, NEW b \in Nat, NEW d \in Nat \ {0}, a \div d <= b \div d
    PROVE  a < b + d
<1> DEFINE m == a \div d
           n == b \div d
<1>1. /\ m \in Int /\ n \in Int
      /\ a = d * m + (a % d) /\ b = d * n + (b % d)
      /\ a % d \in 0..(d - 1) /\ b % d \in 0..(d - 1)
    BY SMT
<1>2. d * m <= d * n
    <2>1. m <= n
        OBVIOUS
    <2> HIDE DEF m, n
    <2>2. QED
        BY <1>1, <2>1, SMT
<1> HIDE DEF m, n
<1>3. QED
    BY <1>1, <1>2, SMT

\* Older than the cutoff as text, a row is stale, or will be within the day.
LEMMA OlderIsStale ==
    ASSUME TInv, NEW r \in Ids, OlderThanCutoff(r)
    PROVE  Stale(r)
<1>1. rows[r].flagged \in Nat /\ now \in Nat /\ StaleAfter \in Nat /\ Day \in Nat \ {0}
    BY RowType, ReviewAssumption DEF TInv, TypeOK, Row
<1>2. now - StaleAfter \in Nat
      /\ rows[r].flagged \div Day <= (now - StaleAfter) \div Day
    BY <1>1 DEF OlderThanCutoff
<1>3. rows[r].flagged < now - StaleAfter + Day
    BY <1>1, <1>2, DayStarts
<1>4. QED
    BY <1>1, <1>3 DEF Stale

(* What no step takes from a row.                                          *)
Kept(r) ==
    /\ r \in Ids' /\ rows'[r].sent = rows[r].sent /\ rows'[r].flagged = rows[r].flagged
    /\ rows'[r].status = "ESCALATED" =>
        \/ rows[r].status = "ESCALATED"
        \/ \E p \in Clients : proc[p].op = "escalate" /\ r \in proc[p].list

LEMMA UpdateKeeps ==
    ASSUME TInv, NEW u \in Ids, NEW row \in Row, rows' = [rows EXCEPT ![u] = row],
           row.sent = rows[u].sent, row.flagged = rows[u].flagged,
           row.status = "ESCALATED" => rows[u].status = "ESCALATED"
    PROVE  Ids' = Ids /\ \A r \in Ids : Kept(r)
<1>1. Len(rows') = Len(rows) /\ \A r \in Ids : rows'[r] = IF r = u THEN row ELSE rows[r]
    BY DEF TInv, TypeOK, Ids
<1>2. QED
    BY <1>1 DEF Ids, Kept

LEMMA SetStatusKeeps ==
    ASSUME TInv, NEW p \in Clients, SetStatus(p)
    PROVE  Ids' = Ids /\ \A r \in Ids : Kept(r)
<1> DEFINE u   == proc[p].row
           new == IF proc[p].op = "assign" THEN "ASSIGNED" ELSE "IN_REVIEW"
           row == [rows[u] EXCEPT !.status = Changed(proc[p].seen, new, @)]
<1>1. u \in Ids
    BY DEF TInv, RowsExist, OnRow, SetStatus
<1>2. row \in Row
    BY <1>1, RowType DEF TInv, Changed, Row, Status, Open
<1>3. rows' = [rows EXCEPT ![u] = row]
    BY DEF SetStatus
<1>4. rows[u] \in Row
    BY <1>1, RowType DEF TInv
<1>5. /\ row.sent = rows[u].sent /\ row.flagged = rows[u].flagged
      /\ row.status = "ESCALATED" => rows[u].status = "ESCALATED"
    BY <1>4 DEF Row, Changed
<1> HIDE DEF row
<1>6. QED
    BY <1>1, <1>2, <1>3, <1>5, UpdateKeeps

AllKept ==
    /\ \A r \in Ids : Kept(r)
    /\ \A r \in Ids' \ Ids : rows'[r].status # "ESCALATED"

LEMMA RowsKept ==
    ASSUME TInv, [Next]_vars
    PROVE  AllKept /\ now' \in Nat /\ now \in Nat /\ now' >= now
<1>1. now \in Nat
    BY DEF TInv, TypeOK
<1>2. ASSUME Ids' = Ids, \A r \in Ids : Kept(r)
      PROVE  AllKept
    BY <1>2 DEF AllKept
<1>3. ASSUME UNCHANGED rows
      PROVE  AllKept
    BY <1>3 DEF Ids, Kept, AllKept
<1>4. ASSUME NEW p \in Flaggers, Insert(p)
      PROVE  AllKept
    <2> DEFINE row == [sent |-> proc[p].sent, status |-> "PENDING", flagged |-> now]
    <2>1. rows' = Append(rows, row)
        BY <1>4 DEF Insert
    <2>2. row.status = "PENDING"
        OBVIOUS
    <2> HIDE DEF row
    <2>3. /\ Len(rows') = Len(rows) + 1 /\ Len(rows) \in Nat /\ rows'[Len(rows) + 1] = row
          /\ \A r \in 1..Len(rows) : rows'[r] = rows[r]
        BY <2>1 DEF TInv, TypeOK
    <2>4. QED
        BY <2>2, <2>3 DEF Ids, Kept, AllKept
<1>5. ASSUME NEW p \in Reviewers, Escalate(p)
      PROVE  AllKept
    <2>1. rows' = [r \in Ids |-> IF r \in proc[p].list
                                 THEN [rows[r] EXCEPT !.status = "ESCALATED"] ELSE rows[r]]
        BY <1>5 DEF Escalate
    <2>2. Len(rows') = Len(rows)
        BY <2>1 DEF TInv, TypeOK, Ids
    <2>3. ASSUME NEW r \in Ids PROVE Kept(r)
        <3>1. rows[r] \in Row
            BY RowType DEF TInv
        <3>2. QED
            BY <1>5, <2>1, <2>2, <3>1 DEF Kept, Ids, Row, Escalate, Clients
    <2>4. QED
        BY <1>2, <2>2, <2>3 DEF Ids
<1>6. CASE \E p \in Flaggers : FlagStep(p)
    <2>1. AllKept
        BY <1>3, <1>4, <1>6 DEF FlagStep, Flag, FlagNothing
    <2>2. now' = now
        BY <1>6 DEF FlagStep, Flag, FlagNothing, Insert
    <2>3. QED
        BY <1>1, <2>1, <2>2
<1>7. CASE \E p \in Reviewers : Handle(p)
    <2>1. UNCHANGED <<rows, now>>
        BY <1>7 DEF Handle, Take, Complete, ListPending, ListStale
    <2>2. QED
        BY <1>1, <1>3, <2>1
<1>8. CASE \E p \in Reviewers : Finish(p)
    <2>1. PICK p \in Reviewers : Finish(p)
        BY <1>8
    <2>2. now' = now
        BY <2>1 DEF Finish, SetStatus, Raise, Escalate, Approve
    <2>3. ASSUME SetStatus(p) PROVE AllKept
        BY <1>2, <2>1, <2>3, SetStatusKeeps DEF Clients
    <2>4. ASSUME Escalate(p) PROVE AllKept
        BY <1>5, <2>4
    <2>5. ASSUME UNCHANGED rows PROVE AllKept
        BY <1>3, <2>5
    <2>6. AllKept
        BY <2>1, <2>3, <2>4, <2>5 DEF Finish, Raise, Approve
    <2>7. QED
        BY <1>1, <2>2, <2>6
<1>9. CASE (\E p \in Clients : CommitFails(p) \/ Abandon(p)) \/ Tick \/ UNCHANGED vars
    <2>1. UNCHANGED rows /\ (now' = now \/ now' = now + 1)
        BY <1>9 DEF CommitFails, Abandon, Tick, vars
    <2>2. QED
        BY <1>1, <1>3, <2>1
<1>10. QED
    BY <1>6, <1>7, <1>8, <1>9 DEF Next

(* How a client comes to escalate.                                         *)
LEMMA Takes ==
    ASSUME TInv, [Next]_vars, NEW q \in Clients, proc'[q].op = "escalate"
    PROVE  proc'[q] = proc[q] \/ ListStale(q)
<1>1. ASSUME NEW p \in Clients, NEW o, o.op # "escalate", proc' = [proc EXCEPT ![p] = o]
      PROVE  proc'[q] = proc[q]
    BY <1>1 DEF TInv, TypeOK
<1>2. CASE \E p \in Flaggers : FlagStep(p)
    <2>1. PICK p \in Flaggers : FlagStep(p)
        BY <1>2
    <2>2. CASE \E s \in Sentences : Flag(p, s)
        BY <1>1, <2>2 DEF Flag, Begin, Clients
    <2>3. CASE \E s \in Sentences : FlagNothing(p, s)
        BY <2>3 DEF FlagNothing
    <2>4. CASE Insert(p)
        BY <1>1, <2>4 DEF Insert, Continue, Idle, Clients
    <2>5. QED
        BY <2>1, <2>2, <2>3, <2>4 DEF FlagStep
<1>3. CASE \E p \in Reviewers : Handle(p)
    <2>1. PICK p \in Reviewers : Handle(p)
        BY <1>3
    <2>2. CASE \E r \in Ids : Take(p, r, "assign") \/ Take(p, r, "start")
        <3>1. PICK r \in Ids, op \in {"assign", "start"} : Take(p, r, op)
            BY <2>2
        <3>2. QED
            BY <1>1, <3>1 DEF Take, Begin, Clients
    <2>3. CASE \E r \in Ids, a \in Decisions : Complete(p, r, a)
        BY <1>1, <2>3 DEF Complete, Completing, Begin, Clients
    <2>4. CASE ListPending(p)
        BY <1>1, <2>4 DEF ListPending, Begin, Clients
    <2>5. CASE ListStale(p)
        BY <2>5 DEF ListStale, Begin, Clients, TInv, TypeOK
    <2>6. QED
        BY <2>1, <2>2, <2>3, <2>4, <2>5 DEF Handle
<1>4. CASE \E p \in Reviewers : Finish(p)
    <2>1. PICK p \in Reviewers : Finish(p)
        BY <1>4
    <2>2. CASE SetStatus(p) \/ Escalate(p)
        BY <1>1, <2>2 DEF SetStatus, Escalate, Continue, Idle, Clients
    <2>3. CASE Raise(p)
        <3> DEFINE o == IF proc[p].rest = {} THEN Idle
                        ELSE [op |-> "next", list |-> proc[p].rest]
        <3>1. o.op # "escalate"
            BY DEF Idle
        <3>2. proc' = [proc EXCEPT ![p] = o]
            BY <2>3 DEF Raise, Continue
        <3> HIDE DEF o
        <3>3. QED
            BY <1>1, <3>1, <3>2 DEF Clients
    <2>4. CASE \E r \in Ids : Approve(p, r)
        BY <1>1, <2>4 DEF Approve, Completing, Continue, Clients
    <2>5. QED
        BY <2>1, <2>2, <2>3, <2>4 DEF Finish
<1>5. CASE \E p \in Clients : CommitFails(p) \/ Abandon(p)
    BY <1>1, <1>5 DEF CommitFails, Abandon, Continue, Idle
<1>6. CASE Tick \/ UNCHANGED vars
    BY <1>6 DEF Tick, vars
<1>7. QED
    BY <1>2, <1>3, <1>4, <1>5, <1>6 DEF Next

LEMMA StaleStep ==
    ASSUME TInv, TInv', LInv, [Next]_vars
    PROVE  LInv'
<1>1. ASSUME NEW r \in Ids, Stale(r)
      PROVE  r \in Ids' /\ Stale(r)'
    <2>1. /\ Kept(r) /\ now' \in Nat /\ now \in Nat /\ now' >= now
        BY RowsKept DEF AllKept
    <2>2. rows[r].flagged \in Nat
        BY RowType DEF TInv, Row
    <2>3. QED
        BY <1>1, <2>1, <2>2, ReviewAssumption DEF Stale, Kept
<1>2. ASSUME NEW q \in Clients, proc'[q].op = "escalate", NEW r \in proc'[q].list
      PROVE  r \in Ids' /\ Stale(r)'
    <2>1. CASE proc'[q] = proc[q]
        BY <1>1, <1>2, <2>1 DEF LInv, Listed
    <2>2. CASE ListStale(q)
        <3>1. proc'[q].list = {x \in Ids : rows[x].status \in Open /\ OlderThanCutoff(x)}
            BY <2>2 DEF ListStale, Begin, TInv, TypeOK
        <3>2. r \in Ids /\ OlderThanCutoff(r)
            BY <1>2, <3>1
        <3>3. QED
            BY <1>1, <3>2, OlderIsStale
    <2>3. QED
        BY <1>2, <2>1, <2>2, Takes
<1>3. ASSUME NEW r \in Ids', rows'[r].status = "ESCALATED"
      PROVE  Stale(r)'
    <2>1. r \in Ids /\ Kept(r)
        BY <1>3, RowsKept DEF AllKept
    <2>2. CASE rows[r].status = "ESCALATED"
        BY <1>1, <2>1, <2>2 DEF LInv, EscalatedAreStale, Stale
    <2>3. CASE \E p \in Clients : proc[p].op = "escalate" /\ r \in proc[p].list
        BY <1>1, <2>1, <2>3 DEF LInv, Listed
    <2>4. QED
        BY <1>3, <2>1, <2>2, <2>3 DEF Kept
<1>4. Listed'
    BY <1>2 DEF Listed
<1>5. EscalatedAreStale'
    BY <1>3 DEF EscalatedAreStale, Stale
<1>6. QED
    BY <1>4, <1>5 DEF LInv

(* No row is escalated a whole day before its 72 hours are over, the day   *)
(* that the comparison of flagged_at with the cutoff as text takes off:    *)
(* between the query of the stale rows and their update the rows only grow *)
(* older, whoever works on them.                                           *)
THEOREM EscalationsAreDue == Spec => []EscalatedAreStale
<1> DEFINE IInv == TInv /\ LInv
<1>1. Init => IInv
    <2> SUFFICES ASSUME Init PROVE IInv
        OBVIOUS
    <2>1. Listed
        BY DEF Init, Listed, Idle
    <2>2. EscalatedAreStale
        BY DEF Init, EscalatedAreStale, Ids
    <2>3. QED
        BY <2>1, <2>2, InitTInv DEF LInv
<1>2. IInv /\ [Next]_vars => IInv'
    BY NextTInv, StaleStep
<1>3. IInv => EscalatedAreStale
    BY DEF LInv
<1>4. QED
    BY <1>1, <1>2, <1>3, PTL DEF Spec
=============================================================================
