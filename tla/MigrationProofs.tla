--------------------------- MODULE MigrationProofs ---------------------------
(***************************************************************************)
(* Proofs about Migration for any number of transcripts, any batch size    *)
(* and any numbers of runs and of writes of the legacy program.            *)
(***************************************************************************)
EXTENDS Migration, FiniteSetTheorems, SequenceTheorems, TLAPS

\* A transcript as it was read, and a call of execute().
Read == [id : Ids, text : Texts]
Busy == {"analytics", "write", "retry", "single"}
Call == [pc : {"none", "page", "done"} \cup Busy, dry : BOOLEAN, total : Nat,
         offset : Nat, batch : Seq(Read), found : SUBSET Ids, migrated : Nat,
         failed : Nat, unread : Nat, runs : Nat]

TypeOK ==
    /\ legacy \in [Ids -> Transcript \cup {Absent}]
    /\ modern \in [Ids -> Texts \cup {Absent}]
    /\ indexed \in SUBSET Ids
    /\ run \in Call
    /\ since \in Nat
    /\ was \in [Ids -> SUBSET Transcript]

-----------------------------------------------------------------------------
(* What every state keeps, whether or not the legacy program writes. *)

\* A legacy row is one of those it has been.
Remembered == \A i \in Ids : legacy[i] # Absent => legacy[i] \in was[i]

\* A batch in hand has rows, and is what those rows once were.
InHand ==
    /\ run.pc \in Busy => run.batch # <<>>
    /\ \A k \in DOMAIN run.batch :
            \E t \in was[run.batch[k].id] : t.text = run.batch[k].text
    /\ \A i \in run.found : \E t \in was[i] : t.analytics
    /\ run.pc = "write" => run.found \subseteq BatchIds
    /\ run.pc = "single" => run.found \subseteq {Head(run.batch).id}
    /\ run.pc \in {"none", "page", "done"} => run.found = {}

SInv == TypeOK /\ Remembered /\ InHand /\ TargetFromSource

-----------------------------------------------------------------------------
(* What a run owes. *)

\* The offset of the rows that are not read yet, and the rows the run has dealt
\* with.
Reach == IF run.pc \in Busy THEN run.offset + BatchSize ELSE run.offset
Handled == {i \in Rows : Rank(i) < Reach} \ BatchIds

\* The rows in hand that are missing when they are written as they are.
Stale ==
    {i \in Rows \cap BatchIds :
        \/ \E k \in DOMAIN run.batch :
                run.batch[k].id = i /\ run.batch[k].text # legacy[i].text
        \/ /\ run.pc = "write" \/ (run.pc = "single" /\ Head(run.batch).id = i)
           /\ legacy[i].analytics /\ i \notin run.found}

Lost == (Missing \cap Handled) \cup Stale
Owed == run.failed + BatchSize * run.unread

\* The legacy program inserts or deletes one row at a time.
Totals ==
    /\ run.pc # "none" => /\ Cardinality(Rows) <= run.total + since
                          /\ run.total <= Cardinality(Rows) + since
    /\ run.pc \in {"page", "done"} => run.batch = <<>>
    /\ run.pc = "done" => /\ Cardinality(Rows) <= run.offset + since
                          /\ run.total <= run.offset + since

\* A row that was dealt with is in the modern database, was counted as failed,
\* is of a page that could not be read, or was written by the legacy program.
LostArePaid ==
    run.pc # "none" /\ ~run.dry => Cardinality(Lost) <= Owed + since

\* Every row within reach that is not in hand was counted.
Counted ==
    run.pc # "none" =>
        \/ run.total <= run.migrated + Owed + Len(run.batch) + since
        \/ Reach <= run.migrated + Owed + Len(run.batch)

Account == Totals /\ LostArePaid /\ Counted
IInv == SInv /\ Account

-----------------------------------------------------------------------------
(* Ranks: the rows are numbered from 0 in the order of their ids. *)
LEMMA RowsFinite == IsFiniteSet(Ids) /\ IsFiniteSet(Rows) /\ Cardinality(Rows) \in Nat
    <1>1. IsFiniteSet(Ids)
          BY MigrationAssumption, FS_Interval DEF Ids
    <1>2. Rows \in SUBSET Ids
          BY DEF Rows
    <1>3. QED  BY <1>1, <1>2, FS_Subset, FS_CardinalityType

LEMMA RankBounds ==
    ASSUME NEW i \in Rows
    PROVE  Rank(i) \in 0 .. Cardinality(Rows) - 1
    <1> DEFINE B == {j \in Rows : j < i}
    <1>1. /\ IsFiniteSet(Rows \ {i}) /\ Cardinality(Rows \ {i}) = Cardinality(Rows) - 1
          BY RowsFinite, FS_RemoveElement
    <1>2. B \in SUBSET (Rows \ {i})
          BY DEF Rows, Ids
    <1>3. IsFiniteSet(B) /\ Cardinality(B) \in Nat /\ Cardinality(B) <= Cardinality(Rows \ {i})
          BY <1>1, <1>2, FS_Subset, FS_CardinalityType
    <1> HIDE DEF B
    <1>4. Cardinality(B) \in 0 .. Cardinality(Rows) - 1
          BY <1>1, <1>3, RowsFinite
    <1>5. QED  BY <1>4 DEF Rank, B

LEMMA RankGrows ==
    ASSUME NEW i \in Rows, NEW j \in Rows, i < j
    PROVE  Rank(i) < Rank(j)
    <1> DEFINE B == {k \in Rows : k < i}
               C == {k \in Rows : k < j}
    <1>1. B \cup {i} \in SUBSET C /\ i \notin B /\ B \in SUBSET Rows /\ C \in SUBSET Rows
          BY DEF Rows, Ids
    <1> HIDE DEF B, C
    <1>2. IsFiniteSet(B) /\ IsFiniteSet(C)
          BY <1>1, RowsFinite, FS_Subset
    <1>3. Cardinality(B \cup {i}) = Cardinality(B) + 1
          BY <1>1, <1>2, FS_AddElement
    <1>4. Cardinality(B \cup {i}) <= Cardinality(C)
          BY <1>1, <1>2, FS_Subset
    <1>5. Cardinality(B) \in Nat /\ Cardinality(C) \in Nat
          BY <1>2, FS_CardinalityType
    <1>6. Cardinality(B) < Cardinality(C)
          BY <1>3, <1>4, <1>5
    <1>7. QED  BY <1>6 DEF Rank, B, C

LEMMA RankInjective ==
    ASSUME NEW i \in Rows, NEW j \in Rows, Rank(i) = Rank(j)
    PROVE  i = j
    <1>1. Rank(i) \in Nat /\ i \in Int /\ j \in Int
          BY RankBounds, RowsFinite DEF Rows, Ids
    <1>2. CASE i < j
          BY <1>1, <1>2, RankGrows
    <1>3. CASE j < i
          BY <1>1, <1>3, RankGrows
    <1>4. QED  BY <1>1, <1>2, <1>3

\* Every number below the count of rows is the rank of a row.
LEMMA RankOnto ==
    ASSUME NEW r \in 0 .. Cardinality(Rows) - 1
    PROVE  \E i \in Rows : Rank(i) = r
    <1> DEFINE T == 0 .. Cardinality(Rows) - 1
               f == [i \in Rows |-> Rank(i)]
    <1>1. f \in [Rows -> T]
          BY RankBounds
    <1>2. f \in Injection(Rows, T)
          BY <1>1, RankInjective DEF Injection, IsInjective
    <1>3. IsFiniteSet(T) /\ Cardinality(T) = Cardinality(Rows)
          BY RowsFinite, FS_Interval
    <1>4. f \in Surjection(Rows, T)
          BY <1>2, <1>3, FS_Injection
    <1>5. QED  BY <1>4 DEF Surjection

\* At most n rows have one of n ranks in a row.
LEMMA RankSlots ==
    ASSUME NEW a \in Nat, NEW n \in Nat
    PROVE  LET S == {i \in Rows : Rank(i) \in a .. a + n - 1}
           IN  IsFiniteSet(S) /\ Cardinality(S) <= n
    <1> DEFINE S == {i \in Rows : Rank(i) \in a .. a + n - 1}
               T == a .. a + n - 1
               f == [i \in S |-> Rank(i)]
    <1>1. f \in Injection(S, T)
          BY RankInjective DEF Injection, IsInjective
    <1>2. IsFiniteSet(T) /\ Cardinality(T) = n
          BY FS_Interval
    <1>3. QED  BY <1>1, <1>2, FS_Injection

\* A page: the rows with the next BatchSize ranks, as many as there are, each
\* once.
LEMMA Pages ==
    ASSUME NEW o \in Nat
    PROVE  LET left == Cardinality(Rows) - o
               n == IF left < BatchSize THEN left ELSE BatchSize
           IN  /\ DOMAIN Page(o) = 1..n
               /\ \A k \in 1..n : /\ Page(o)[k] \in Rows
                                  /\ Rank(Page(o)[k]) = o + k - 1
    <1> DEFINE left == Cardinality(Rows) - o
               n == IF left < BatchSize THEN left ELSE BatchSize
    <1>1. DOMAIN Page(o) = 1..n
          BY DEF Page
    <1>2. ASSUME NEW k \in 1..n
          PROVE  Page(o)[k] \in Rows /\ Rank(Page(o)[k]) = o + k - 1
      <2>1. Page(o)[k] = CHOOSE i \in Rows : Rank(i) = o + k - 1
            BY DEF Page
      <2>2. o + k - 1 \in 0 .. Cardinality(Rows) - 1
            BY RowsFinite, MigrationAssumption
      <2>3. \E i \in Rows : Rank(i) = o + k - 1
            BY <2>2, RankOnto
      <2>4. QED  BY <2>1, <2>3
    <1>3. QED  BY <1>1, <1>2

LEMMA RowsAre ==
    ASSUME TypeOK, NEW i \in Rows
    PROVE  i \in Ids /\ legacy[i] \in Transcript /\ legacy[i] # Absent
           /\ legacy[i].text \in Texts /\ legacy[i].analytics \in BOOLEAN
    BY DEF TypeOK, Rows, Transcript

\* The batch that is made of a page.
LEMMA Batches ==
    ASSUME TypeOK, NEW o \in Nat
    PROVE  LET left == Cardinality(Rows) - o
               n == IF left < BatchSize THEN left ELSE BatchSize
               b == TranscriptsOf(Page(o))
           IN  /\ b \in Seq(Read)
               /\ DOMAIN b = 1..n
               /\ 0 <= n => Len(b) = n
               /\ \A k \in 1..n : /\ b[k].id \in Rows
                                  /\ b[k].text = legacy[b[k].id].text
                                  /\ Rank(b[k].id) = o + k - 1
               /\ \A i \in Rows : Rank(i) \in o .. o + BatchSize - 1 =>
                        \E k \in 1..n : b[k].id = i
    <1> DEFINE left == Cardinality(Rows) - o
               n == IF left < BatchSize THEN left ELSE BatchSize
               b == TranscriptsOf(Page(o))
    <1>0. left \in Int /\ n \in Int /\ BatchSize \in Nat \ {0}
          BY RowsFinite, MigrationAssumption
    <1>1. /\ DOMAIN Page(o) = 1..n
          /\ \A k \in 1..n : Page(o)[k] \in Rows /\ Rank(Page(o)[k]) = o + k - 1
          BY Pages
    <1>2. b = [k \in 1..n |-> [id |-> Page(o)[k], text |-> legacy[Page(o)[k]].text]]
          BY <1>1 DEF TranscriptsOf
    <1> HIDE DEF b
    <1>3. \A k \in 1..n : /\ b[k].id = Page(o)[k]
                          /\ b[k].text = legacy[Page(o)[k]].text
          BY <1>2
    <1>4. b \in [1..n -> Read]
      <2>1. \A k \in 1..n : Page(o)[k] \in Ids /\ legacy[Page(o)[k]].text \in Texts
            BY <1>1, RowsAre
      <2> HIDE DEF n
      <2>2. QED  BY <1>2, <2>1 DEF Read
    <1>5. b \in Seq(Read) /\ (0 <= n => Len(b) = n)
      <2>1. CASE n \in Nat
        <3>1. b \in Seq(Read)
              BY <1>4, <2>1, SeqDef
        <3>2. Len(b) \in Nat /\ 1..Len(b) = 1..n
              BY <1>4, <3>1, LenProperties
        <3> HIDE DEF n
        <3>3. Len(b) = n
              BY <2>1, <3>2
        <3>4. QED  BY <3>1, <3>3
      <2>2. CASE n < 0
        <3>1. 1..n = 1..0
              BY <1>0, <2>2
        <3>2. b \in [1..0 -> Read]
              BY <1>4, <3>1
        <3> HIDE DEF n
        <3>3. b \in Seq(Read)
              BY <3>2, SeqDef
        <3>4. QED  BY <1>0, <2>2, <3>3
      <2> HIDE DEF n
      <2>3. QED  BY <1>0, <2>1, <2>2
    <1>6. DOMAIN b = 1..n
          BY <1>4
    <1>7. ASSUME NEW i \in Rows, Rank(i) \in o .. o + BatchSize - 1
          PROVE  \E k \in 1..n : b[k].id = i
      <2>1. Rank(i) \in 0 .. Cardinality(Rows) - 1
            BY RankBounds
      <2>2. Rank(i) - o + 1 \in 1..n
            BY <1>0, <1>7, <2>1, RowsFinite
      <2> DEFINE k == Rank(i) - o + 1
      <2>3. Rank(Page(o)[k]) = o + k - 1 /\ Page(o)[k] \in Rows
            BY <1>1, <2>2
      <2>4. o + k - 1 = Rank(i)
            BY <2>1, RowsFinite
      <2>5. Page(o)[k] = i
            BY <2>3, <2>4, RankInjective
      <2>6. b[k].id = i
            BY <1>3, <2>2, <2>5
      <2>7. QED  BY <2>2, <2>6
    <1>8. \A k \in 1..n : /\ b[k].id \in Rows
                          /\ b[k].text = legacy[b[k].id].text
                          /\ Rank(b[k].id) = o + k - 1
          BY <1>1, <1>3
    <1>9. QED  BY <1>5, <1>6, <1>7, <1>8 DEF b

-----------------------------------------------------------------------------
(* The call in hand. *)
LEMMA Advances ==
    ASSUME NEW r \in Call
    PROVE  /\ Advance(r) \in Call
           /\ Advance(r).pc = "page" /\ Advance(r).offset = r.offset + BatchSize
           /\ Advance(r).batch = <<>> /\ Advance(r).found = {}
           /\ Advance(r).dry = r.dry /\ Advance(r).total = r.total
           /\ Advance(r).migrated = r.migrated /\ Advance(r).failed = r.failed
           /\ Advance(r).unread = r.unread
    <1>1. <<>> \in Seq(Read) /\ r.offset + BatchSize \in Nat
          BY MigrationAssumption, EmptySeq DEF Call
    <1>2. /\ Advance(r).pc = "page" /\ Advance(r).offset = r.offset + BatchSize
          /\ Advance(r).batch = <<>> /\ Advance(r).found = {}
          /\ Advance(r).dry = r.dry /\ Advance(r).total = r.total
          /\ Advance(r).migrated = r.migrated /\ Advance(r).failed = r.failed
          /\ Advance(r).unread = r.unread
          BY DEF Advance, Call
    <1>3. Advance(r) \in Call
          BY <1>1 DEF Advance, Call
    <1>4. QED  BY <1>2, <1>3

\* What a counter leaves alone.
Same(r, e) ==
    /\ e.pc = r.pc /\ e.dry = r.dry /\ e.total = r.total
    /\ e.offset = r.offset /\ e.batch = r.batch /\ e.found = r.found

LEMMA Migrates ==
    ASSUME NEW r \in Call, NEW n \in Nat, NEW e, e = [r EXCEPT !.migrated = @ + n]
    PROVE  /\ e \in Call /\ Same(r, e)
           /\ e.migrated = r.migrated + n /\ e.failed = r.failed /\ e.unread = r.unread
    BY SMTT(30) DEF Call, Same

LEMMA Fails ==
    ASSUME NEW r \in Call, NEW e, e = [r EXCEPT !.failed = @ + 1]
    PROVE  /\ e \in Call /\ Same(r, e)
           /\ e.migrated = r.migrated /\ e.failed = r.failed + 1 /\ e.unread = r.unread
    BY DEF Call, Same

LEMMA Unreads ==
    ASSUME NEW r \in Call, NEW e, e = [r EXCEPT !.unread = @ + 1]
    PROVE  /\ e \in Call /\ Same(r, e)
           /\ e.migrated = r.migrated /\ e.failed = r.failed /\ e.unread = r.unread + 1
    BY DEF Call, Same

LEMMA Retries ==
    ASSUME NEW r \in Call
    PROVE  /\ RetryRows(r) \in Call
           /\ RetryRows(r).pc = "retry" /\ RetryRows(r).found = {}
           /\ RetryRows(r).offset = r.offset /\ RetryRows(r).batch = r.batch
           /\ RetryRows(r).dry = r.dry /\ RetryRows(r).total = r.total
           /\ RetryRows(r).migrated = r.migrated /\ RetryRows(r).failed = r.failed
           /\ RetryRows(r).unread = r.unread
    BY DEF RetryRows, Call, Busy

\* The rest of a batch: the next page when there is none.
LEMMA Rests ==
    ASSUME NEW r \in Call, r.batch # <<>>
    PROVE  /\ Len(r.batch) = 1 => Rest(r) = Advance(r)
           /\ Len(r.batch) # 1 =>
                /\ Rest(r) \in Call
                /\ Rest(r).pc = "retry" /\ Rest(r).found = {}
                /\ Rest(r).offset = r.offset /\ Rest(r).batch = Tail(r.batch)
                /\ Tail(r.batch) # <<>>
                /\ Len(Tail(r.batch)) = Len(r.batch) - 1
                /\ \A k \in 1..Len(r.batch) - 1 : Tail(r.batch)[k] = r.batch[k + 1]
                /\ Rest(r).dry = r.dry /\ Rest(r).total = r.total
                /\ Rest(r).migrated = r.migrated /\ Rest(r).failed = r.failed
                /\ Rest(r).unread = r.unread
    <1>1. r.batch \in Seq(Read)
          BY DEF Call
    <1>2. /\ Tail(r.batch) \in Seq(Read) /\ Len(Tail(r.batch)) = Len(r.batch) - 1
          /\ \A k \in 1..Len(Tail(r.batch)) : Tail(r.batch)[k] = r.batch[k + 1]
          /\ Len(r.batch) \in Nat \ {0}
          BY <1>1, HeadTailProperties, EmptySeq
    <1>3. CASE Len(r.batch) = 1
          BY <1>3 DEF Rest
    <1>4. CASE Len(r.batch) # 1
      <2>1. Tail(r.batch) # <<>>
        <3>1. Len(<<>>) = 0
              BY EmptySeq
        <3>2. Len(Tail(r.batch)) # 0
              BY <1>2, <1>4
        <3>3. QED  BY <3>1, <3>2
      <2>2. Rest(r) = [r EXCEPT !.pc = "retry", !.batch = Tail(@), !.found = {}]
            BY <1>4 DEF Rest
      <2>3. QED  BY <1>2, <1>4, <2>1, <2>2 DEF Call, Busy
    <1>5. QED  BY <1>3, <1>4

\* Whatever becomes of a batch, the rest of it is a part of it.
LEMMA RestIsPart ==
    ASSUME NEW r \in Call, r.batch # <<>>
    PROVE  /\ Rest(r) \in Call
           /\ Rest(r).pc \in {"page", "retry"}
           /\ Rest(r).pc = "retry" => Rest(r).batch # <<>>
           /\ Rest(r).found = {}
           /\ \A k \in DOMAIN Rest(r).batch : \E l \in DOMAIN r.batch :
                Rest(r).batch[k] = r.batch[l]
    <1>1. r.batch \in Seq(Read) /\ DOMAIN r.batch = 1..Len(r.batch) /\ Len(r.batch) \in Nat
          BY LenProperties DEF Call
    <1>2. CASE Len(r.batch) = 1
          BY <1>2, Rests, Advances
    <1>3. CASE Len(r.batch) # 1
      <2>1. /\ Rest(r) \in Call /\ Rest(r).pc = "retry" /\ Rest(r).found = {}
            /\ Rest(r).batch = Tail(r.batch) /\ Tail(r.batch) # <<>>
            /\ Len(Tail(r.batch)) = Len(r.batch) - 1
            /\ \A k \in 1..Len(r.batch) - 1 : Tail(r.batch)[k] = r.batch[k + 1]
            BY <1>3, Rests
      <2>2. DOMAIN Tail(r.batch) = 1..Len(r.batch) - 1
            BY <2>1, LenProperties DEF Call
      <2>3. ASSUME NEW k \in 1..Len(r.batch) - 1
            PROVE  \E l \in DOMAIN r.batch : Tail(r.batch)[k] = r.batch[l]
        <3>1. k + 1 \in DOMAIN r.batch /\ Tail(r.batch)[k] = r.batch[k + 1]
              BY <1>1, <2>1
        <3>2. QED  BY <3>1
      <2>4. QED  BY <2>1, <2>2, <2>3
    <1>4. QED  BY <1>2, <1>3

-----------------------------------------------------------------------------
(* The invariant SInv, action by action. *)
LEMMA NoBatch == <<>> \in Seq(Read) /\ Len(<<>>) = 0 /\ DOMAIN <<>> = {}
    <1>1. <<>> \in Seq(Read) /\ Len(<<>>) = 0
          BY EmptySeq
    <1>2. DOMAIN <<>> = 1..Len(<<>>)
          BY <1>1, LenProperties
    <1>3. QED  BY <1>1, <1>2

LEMMA BatchInHand ==
    ASSUME TypeOK
    PROVE  /\ run \in Call /\ run.batch \in Seq(Read) /\ Len(run.batch) \in Nat
           /\ DOMAIN run.batch = 1..Len(run.batch)
           /\ \A k \in DOMAIN run.batch : /\ run.batch[k] \in Read
                                          /\ run.batch[k].id \in Ids
                                          /\ run.batch[k].text \in Texts
           /\ run.batch # <<>> =>
                /\ 1 \in DOMAIN run.batch /\ Head(run.batch) = run.batch[1]
                /\ Len(run.batch) \in Nat \ {0}
           /\ run.offset \in Nat /\ run.total \in Nat /\ run.migrated \in Nat
           /\ run.failed \in Nat /\ run.unread \in Nat /\ run.dry \in BOOLEAN
           /\ run.found \in SUBSET Ids
    <1>1. run \in Call /\ run.batch \in Seq(Read)
          BY DEF TypeOK, Call
    <1>2. DOMAIN run.batch = 1..Len(run.batch) /\ Len(run.batch) \in Nat
          BY <1>1, LenProperties
    <1>3. \A k \in DOMAIN run.batch : run.batch[k] \in Read
          BY <1>1, <1>2, ElementOfSeq
    <1>4. run.batch # <<>> => Len(run.batch) \in Nat \ {0}
          BY <1>1, EmptySeq
    <1>5. run.batch # <<>> => Head(run.batch) = run.batch[1]
          BY <1>1
    <1>6. QED  BY <1>1, <1>2, <1>3, <1>4, <1>5 DEF Read, Call

\* A step of the run that writes nothing.
LEMMA ReadingStep ==
    ASSUME SInv, Unwritten, run' \in Call, InHand'
    PROVE  SInv'
    BY DEF SInv, Unwritten, TypeOK, Remembered, TargetFromSource

\* A step after which the call is between two pages, or over.
LEMMA EmptyHanded ==
    ASSUME run' \in Call, run'.batch = <<>>, run'.found = {}, run'.pc \notin Busy
    PROVE  InHand'
    BY NoBatch DEF InHand, Busy

LEMMA AdvanceInHand ==
    ASSUME NEW r \in Call, run' = Advance(r)
    PROVE  run' \in Call /\ InHand'
    <1>1. /\ run' \in Call /\ run'.pc = "page" /\ run'.batch = <<>> /\ run'.found = {}
          BY Advances
    <1>2. QED  BY <1>1, EmptyHanded DEF Busy

\* A step that goes on with a part of the batch, and with no analytics.
LEMMA PartInHand ==
    ASSUME SInv, was' = was, run' \in Call, run'.found = {},
           run'.pc \in {"page", "retry"},
           run'.pc = "retry" => run'.batch # <<>>,
           \A k \in DOMAIN run'.batch : \E l \in DOMAIN run.batch :
                run'.batch[k] = run.batch[l]
    PROVE  InHand'
    BY DEF SInv, InHand, Busy

LEMMA StartSInv ==
    ASSUME SInv, NEW dry \in BOOLEAN, Start(dry)
    PROVE  SInv'
    <1>1. /\ run'.batch = <<>> /\ run'.found = {} /\ run'.pc \in {"page", "done"}
          /\ UNCHANGED <<legacy, modern, indexed, writes, was>> /\ since' = 0
          BY DEF Start
    <1>2. run' \in Call
      <2> DEFINE total == Cardinality(Rows)
      <2>1. run.runs + 1 \in Nat /\ total \in Nat
            BY RowsFinite DEF SInv, TypeOK, Call
      <2>2. run' = [pc |-> IF total = 0 THEN "done" ELSE "page", dry |-> dry,
                    total |-> total, offset |-> 0, batch |-> <<>>, found |-> {},
                    migrated |-> 0, failed |-> 0, unread |-> 0, runs |-> run.runs + 1]
            BY DEF Start
      <2> HIDE DEF total
      <2>3. QED  BY <2>1, <2>2, NoBatch DEF Call
    <1>3. InHand'
          BY <1>1, <1>2, EmptyHanded DEF Busy
    <1>4. QED  BY <1>1, <1>2, <1>3 DEF SInv, TypeOK, Remembered, TargetFromSource

LEMMA ReadFailsSInv ==
    ASSUME SInv, ReadFails
    PROVE  SInv'
    <1> DEFINE r == [run EXCEPT !.unread = @ + 1]
    <1>1. r \in Call
          BY Unreads DEF SInv, TypeOK
    <1>2. run' = Advance(r) /\ Unwritten
          BY DEF ReadFails
    <1> HIDE DEF r
    <1>3. QED  BY <1>1, <1>2, AdvanceInHand, ReadingStep

LEMMA ReadPageSInv ==
    ASSUME SInv, ReadPage
    PROVE  SInv'
    <1> DEFINE left == Cardinality(Rows) - run.offset
               n == IF left < BatchSize THEN left ELSE BatchSize
               b == TranscriptsOf(Page(run.offset))
    <1> USE DEF SInv
    <1>1. Unwritten /\ run.pc = "page" /\ run \in Call /\ run.found = {}
          BY BatchInHand DEF ReadPage, InHand
    <1>2. /\ b \in Seq(Read) /\ DOMAIN b = 1..n
          /\ \A k \in 1..n : b[k].id \in Rows /\ b[k].text = legacy[b[k].id].text
          BY Batches, BatchInHand
    <1>3. run' = IF b = <<>> THEN [run EXCEPT !.pc = "done"]
                 ELSE [run EXCEPT !.pc = "analytics", !.batch = b]
          BY DEF ReadPage
    <1> HIDE DEF b, n
    <1>4. CASE b = <<>>
      <2>1. /\ run' = [run EXCEPT !.pc = "done"]
            BY <1>3, <1>4
      <2>2. /\ run' \in Call /\ run'.batch = run.batch /\ run'.pc = "done" /\ run'.found = {}
            BY <1>1, <2>1 DEF Call
      <2>3. InHand'
            BY <1>1, <2>2 DEF InHand, Busy, Unwritten
      <2>4. QED  BY <1>1, <2>2, <2>3, ReadingStep
    <1>5. CASE b # <<>>
      <2>1. run' = [run EXCEPT !.pc = "analytics", !.batch = b]
            BY <1>3, <1>5
      <2>2. run' \in Call /\ run'.batch = b /\ run'.pc = "analytics" /\ run'.found = {}
            BY <1>1, <1>2, <2>1 DEF Call, Busy
      <2>3. ASSUME NEW k \in DOMAIN b
            PROVE  \E t \in was[b[k].id] : t.text = b[k].text
        <3>1. legacy[b[k].id] \in was[b[k].id] /\ b[k].text = legacy[b[k].id].text
              BY <1>2, RowsAre DEF Remembered
        <3>2. QED  BY <3>1
      <2>4. InHand'
            BY <1>1, <1>5, <2>2, <2>3 DEF InHand, Busy, Unwritten
      <2>5. QED  BY <1>1, <2>2, <2>4, ReadingStep
    <1>6. QED  BY <1>4, <1>5

LEMMA FinishSInv ==
    ASSUME SInv, Finish
    PROVE  SInv'
    <1>1. Unwritten /\ run.pc = "page" /\ run \in Call /\ run' = [run EXCEPT !.pc = "done"]
          BY DEF Finish, SInv, TypeOK
    <1>2. /\ run' \in Call /\ run'.batch = run.batch /\ run'.pc = "done"
          /\ run'.found = run.found
          BY <1>1 DEF Call
    <1>3. InHand'
          BY <1>1, <1>2 DEF SInv, InHand, Busy, Unwritten
    <1>4. QED  BY <1>1, <1>2, <1>3, ReadingStep

\* The analytics that are read belong to transcripts that had them.
LEMMA Analytics ==
    ASSUME SInv, NEW ids \in SUBSET Ids
    PROVE  /\ WithAnalytics(ids) \subseteq ids
           /\ \A i \in WithAnalytics(ids) : \E t \in was[i] : t.analytics
    <1>1. ASSUME NEW i \in WithAnalytics(ids)
          PROVE  i \in ids /\ \E t \in was[i] : t.analytics
      <2>1. i \in ids /\ i \in Rows /\ legacy[i].analytics
            BY DEF WithAnalytics
      <2>2. legacy[i] \in was[i]
            BY <2>1, RowsAre DEF SInv, Remembered
      <2>3. QED  BY <2>1, <2>2
    <1>2. QED  BY <1>1

LEMMA ReadAnalyticsSInv ==
    ASSUME SInv, ReadAnalytics
    PROVE  SInv'
    <1>1. Unwritten /\ run.pc = "analytics" /\ run \in Call /\ Len(run.batch) \in Nat
          BY BatchInHand DEF ReadAnalytics, SInv
    <1>2. CASE run.dry
      <2> DEFINE r == [run EXCEPT !.migrated = @ + Len(run.batch)]
      <2>1. r \in Call
            BY <1>1, Migrates
      <2>2. run' = Advance(r)
            BY <1>2 DEF ReadAnalytics
      <2> HIDE DEF r
      <2>3. QED  BY <1>1, <2>1, <2>2, AdvanceInHand, ReadingStep
    <1>3. CASE ~run.dry
      <2> DEFINE found == WithAnalytics(BatchIds)
      <2>1. BatchIds \in SUBSET Ids
            BY BatchInHand DEF BatchIds, SInv
      <2>2. /\ found \in SUBSET Ids /\ found \subseteq BatchIds
            /\ \A i \in found : \E t \in was[i] : t.analytics
            BY <2>1, Analytics
      <2>3. run' = [run EXCEPT !.pc = "write", !.found = found]
            BY <1>3 DEF ReadAnalytics
      <2> HIDE DEF found
      <2>4. run' \in Call /\ run'.batch = run.batch /\ run'.pc = "write" /\ run'.found = found
            BY <1>1, <2>2, <2>3 DEF Call, Busy
      <2>5. InHand'
        <3>1. BatchIds' = BatchIds
              BY <2>4 DEF BatchIds
        <3>2. QED  BY <1>1, <2>2, <2>4, <3>1 DEF SInv, InHand, Busy, Unwritten
      <2>6. QED  BY <1>1, <2>4, <2>5, ReadingStep
    <1>4. QED  BY <1>2, <1>3

\* The batch in hand, and what it counts, when its rows are retried.
LEMMA RetriesSInv ==
    ASSUME SInv, AnalyticsFail \/ WriteFails \/ CommitFails
    PROVE  SInv'
    <1>1. /\ Unwritten /\ run.pc \in Busy /\ run \in Call /\ Len(run.batch) \in Nat
          BY BatchInHand DEF AnalyticsFail, WriteFails, CommitFails, Busy, SInv
    <1>2. PICK r \in Call : run' = RetryRows(r) /\ r.batch = run.batch
      <2>1. CASE AnalyticsFail \/ WriteFails
            BY <1>1, <2>1 DEF AnalyticsFail, WriteFails
      <2>2. CASE CommitFails
        <3> DEFINE r == [run EXCEPT !.migrated = @ + Len(run.batch)]
        <3>1. r \in Call /\ r.batch = run.batch
              BY <1>1, Migrates DEF Same
        <3>2. run' = RetryRows(r)
              BY <2>2 DEF CommitFails
        <3> HIDE DEF r
        <3>3. QED  BY <3>1, <3>2
      <2>3. QED  BY <2>1, <2>2
    <1>3. /\ run' \in Call /\ run'.pc = "retry" /\ run'.found = {} /\ run'.batch = run.batch
          BY <1>2, Retries
    <1>4. run.batch # <<>>
          BY <1>1 DEF SInv, InHand
    <1>5. InHand'
          BY <1>1, <1>3, <1>4, PartInHand DEF Unwritten
    <1>6. QED  BY <1>1, <1>3, <1>5, ReadingStep

\* What one transaction writes.
LEMMA Upserts ==
    ASSUME TypeOK, NEW batch \in Seq(Read), NEW found \in SUBSET Ids,
           Upsert(batch, found)
    PROVE  /\ modern' \in [Ids -> Texts \cup {Absent}]
           /\ \A i \in Ids : (\E k \in DOMAIN batch : batch[k].id = i) =>
                \E k \in DOMAIN batch : batch[k].id = i /\ modern'[i] = batch[k].text
           /\ \A i \in Ids : ~(\E k \in DOMAIN batch : batch[k].id = i) =>
                modern'[i] = modern[i]
           /\ indexed' = indexed \cup found /\ indexed' \in SUBSET Ids
           /\ UNCHANGED <<legacy, writes, since, was>>
    <1>1. \A k \in DOMAIN batch : batch[k].text \in Texts
      <2>1. DOMAIN batch = 1..Len(batch)
            BY LenProperties
      <2>2. \A k \in 1..Len(batch) : batch[k] \in Read
            BY ElementOfSeq
      <2>3. QED  BY <2>1, <2>2 DEF Read
    <1>2. modern' = [i \in Ids |->
                        IF \E k \in DOMAIN batch : batch[k].id = i
                        THEN batch[CHOOSE k \in DOMAIN batch : batch[k].id = i].text
                        ELSE modern[i]]
          BY DEF Upsert
    <1>3. ASSUME NEW i \in Ids, \E k \in DOMAIN batch : batch[k].id = i
          PROVE  \E k \in DOMAIN batch : batch[k].id = i /\ modern'[i] = batch[k].text
      <2> DEFINE k == CHOOSE k \in DOMAIN batch : batch[k].id = i
      <2>1. k \in DOMAIN batch /\ batch[k].id = i
            BY <1>3
      <2>2. modern'[i] = batch[k].text
            BY <1>2, <1>3
      <2> HIDE DEF k
      <2>3. QED  BY <2>1, <2>2
    <1>4. \A i \in Ids : ~(\E k \in DOMAIN batch : batch[k].id = i) => modern'[i] = modern[i]
          BY <1>2
    <1>5. \A i \in Ids : modern'[i] \in Texts \cup {Absent}
          BY <1>1, <1>3, <1>4 DEF TypeOK
    <1>6. DOMAIN modern' = Ids /\ modern' = [i \in Ids |-> modern'[i]]
          BY <1>2
    <1>7. modern' \in [Ids -> Texts \cup {Absent}]
          BY <1>5, <1>6
    <1>8. indexed' = indexed \cup found /\ UNCHANGED <<legacy, writes, since, was>>
          BY DEF Upsert
    <1>9. QED  BY <1>3, <1>4, <1>7, <1>8 DEF TypeOK

\* A transaction of rows that the batch holds keeps what comes from the source.
LEMMA UpsertSInv ==
    ASSUME SInv, NEW batch \in Seq(Read), NEW found \in SUBSET Ids,
           Upsert(batch, found), run' \in Call, InHand',
           \A k \in DOMAIN batch : \E t \in was[batch[k].id] : t.text = batch[k].text,
           \A i \in found : /\ \E t \in was[i] : t.analytics
                            /\ \E k \in DOMAIN batch : batch[k].id = i
    PROVE  SInv'
    <1> USE DEF SInv
    <1>1. /\ modern' \in [Ids -> Texts \cup {Absent}]
          /\ \A i \in Ids : (\E k \in DOMAIN batch : batch[k].id = i) =>
                \E k \in DOMAIN batch : batch[k].id = i /\ modern'[i] = batch[k].text
          /\ \A i \in Ids : ~(\E k \in DOMAIN batch : batch[k].id = i) =>
                modern'[i] = modern[i]
          /\ indexed' = indexed \cup found /\ indexed' \in SUBSET Ids
          /\ UNCHANGED <<legacy, writes, since, was>>
          BY Upserts
    <1>2. TypeOK' /\ Remembered'
          BY <1>1 DEF TypeOK, Remembered
    <1>3. ASSUME NEW i \in Ids
          PROVE  modern'[i] # Absent => \E t \in was[i] : t.text = modern'[i]
      <2>1. CASE \E k \in DOMAIN batch : batch[k].id = i
            BY <1>1, <2>1
      <2>2. CASE ~\E k \in DOMAIN batch : batch[k].id = i
            BY <1>1, <2>2 DEF TargetFromSource
      <2>3. QED  BY <2>1, <2>2
    <1>4. ASSUME NEW i \in Ids, \E k \in DOMAIN batch : batch[k].id = i
          PROVE  modern'[i] # Absent
      <2>1. PICK k \in DOMAIN batch : batch[k].id = i /\ modern'[i] = batch[k].text
            BY <1>1, <1>4
      <2>2. batch[k] \in Read
            BY LenProperties, ElementOfSeq
      <2>3. QED  BY <2>1, <2>2, MigrationAssumption DEF Read
    <1>5. ASSUME NEW i \in Ids, i \in indexed'
          PROVE  modern'[i] # Absent /\ \E t \in was[i] : t.analytics
      <2>1. CASE i \in found
            BY <1>4, <2>1
      <2>2. CASE i \in indexed
        <3>1. modern[i] # Absent /\ \E t \in was[i] : t.analytics
              BY <2>2 DEF TargetFromSource
        <3>2. QED  BY <1>1, <1>4, <3>1
      <2>3. QED  BY <1>1, <1>5, <2>1, <2>2
    <1>6. TargetFromSource'
          BY <1>1, <1>3, <1>5 DEF TargetFromSource
    <1>7. QED  BY <1>2, <1>6

LEMMA WriteBatchSInv ==
    ASSUME SInv, WriteBatch
    PROVE  SInv'
    <1> DEFINE r == [run EXCEPT !.migrated = @ + Len(run.batch)]
    <1>1. /\ run \in Call /\ run.batch \in Seq(Read) /\ Len(run.batch) \in Nat
          /\ run.found \in SUBSET Ids
          BY BatchInHand DEF SInv
    <1>2. r \in Call
          BY <1>1, Migrates
    <1>3. run' = Advance(r) /\ Upsert(run.batch, run.found) /\ run.pc = "write"
          BY DEF WriteBatch
    <1> HIDE DEF r
    <1>4. run' \in Call /\ InHand'
          BY <1>2, <1>3, AdvanceInHand
    <1>5. /\ \A k \in DOMAIN run.batch :
                \E t \in was[run.batch[k].id] : t.text = run.batch[k].text
          /\ \A i \in run.found : /\ \E t \in was[i] : t.analytics
                                  /\ \E k \in DOMAIN run.batch : run.batch[k].id = i
          BY <1>3 DEF SInv, InHand, BatchIds
    <1>6. QED  BY <1>1, <1>3, <1>4, <1>5, UpsertSInv

LEMMA RetryReadSInv ==
    ASSUME SInv, RetryRead
    PROVE  SInv'
    <1>1. /\ Unwritten /\ run.pc = "retry" /\ run \in Call /\ run.batch # <<>>
          /\ 1 \in DOMAIN run.batch /\ Head(run.batch) = run.batch[1]
          /\ run.batch[1].id \in Ids
          BY BatchInHand DEF RetryRead, SInv, InHand, Busy
    <1>2. CASE run.dry
      <2> DEFINE r == [run EXCEPT !.migrated = @ + 1]
      <2>1. r \in Call /\ r.batch = run.batch
            BY <1>1, Migrates DEF Same
      <2>2. run' = Rest(r)
            BY <1>2 DEF RetryRead
      <2> HIDE DEF r
      <2>3. /\ run' \in Call /\ run'.pc \in {"page", "retry"} /\ run'.found = {}
            /\ run'.pc = "retry" => run'.batch # <<>>
            /\ \A k \in DOMAIN run'.batch : \E l \in DOMAIN run.batch :
                    run'.batch[k] = run.batch[l]
            BY <1>1, <2>1, <2>2, RestIsPart
      <2>4. QED  BY <1>1, <2>3, PartInHand, ReadingStep DEF Unwritten
    <1>3. CASE ~run.dry
      <2> DEFINE found == WithAnalytics({Head(run.batch).id})
      <2>1. /\ found \in SUBSET Ids /\ found \subseteq {Head(run.batch).id}
            /\ \A i \in found : \E t \in was[i] : t.analytics
            BY <1>1, Analytics
      <2>2. run' = [run EXCEPT !.pc = "single", !.found = found]
            BY <1>3 DEF RetryRead
      <2> HIDE DEF found
      <2>3. /\ run' \in Call /\ run'.batch = run.batch /\ run'.pc = "single"
            /\ run'.found = found
            BY <1>1, <2>1, <2>2 DEF Call, Busy
      <2>4. InHand'
            BY <1>1, <2>1, <2>3 DEF SInv, InHand, Busy, Unwritten
      <2>5. QED  BY <1>1, <2>3, <2>4, ReadingStep
    <1>4. QED  BY <1>2, <1>3

\* The transaction of one row.
LEMMA OneRow ==
    ASSUME NEW b \in Read
    PROVE  /\ <<b>> \in Seq(Read) /\ DOMAIN <<b>> = {1} /\ <<b>>[1] = b
    <1>1. <<b>> \in Seq(Read) /\ <<b>>[1] = b /\ Len(<<b>>) = 1
          OBVIOUS
    <1>2. DOMAIN <<b>> = 1..1
          BY <1>1, LenProperties
    <1>3. QED  BY <1>1, <1>2

LEMMA RetryWriteSInv ==
    ASSUME SInv, RetryWrite
    PROVE  SInv'
    <1> DEFINE r == [run EXCEPT !.migrated = @ + 1]
               b == run.batch[1]
    <1>1. /\ run.pc = "single" /\ run \in Call /\ run.batch # <<>>
          /\ 1 \in DOMAIN run.batch /\ Head(run.batch) = b /\ b \in Read
          /\ run.found \in SUBSET Ids /\ run.found \subseteq {b.id}
          /\ \A i \in run.found : \E t \in was[i] : t.analytics
          /\ \E t \in was[b.id] : t.text = b.text
          BY BatchInHand DEF RetryWrite, SInv, InHand, Busy
    <1>2. r \in Call /\ r.batch = run.batch
          BY <1>1, Migrates DEF Same
    <1>3. run' = Rest(r) /\ Upsert(<<b>>, run.found) /\ was' = was
          BY <1>1 DEF RetryWrite, Upsert
    <1> HIDE DEF r, b
    <1>4. /\ run' \in Call /\ run'.pc \in {"page", "retry"} /\ run'.found = {}
          /\ run'.pc = "retry" => run'.batch # <<>>
          /\ \A k \in DOMAIN run'.batch : \E l \in DOMAIN run.batch :
                run'.batch[k] = run.batch[l]
          BY <1>1, <1>2, <1>3, RestIsPart
    <1>5. InHand'
          BY <1>3, <1>4, PartInHand
    <1>6. <<b>> \in Seq(Read) /\ DOMAIN <<b>> = {1} /\ <<b>>[1] = b
          BY <1>1, OneRow
    <1>7. /\ \A k \in DOMAIN <<b>> : \E t \in was[<<b>>[k].id] : t.text = <<b>>[k].text
          /\ \A i \in run.found : /\ \E t \in was[i] : t.analytics
                                  /\ \E k \in DOMAIN <<b>> : <<b>>[k].id = i
          BY <1>1, <1>6
    <1>8. QED  BY <1>1, <1>3, <1>4, <1>5, <1>6, <1>7, UpsertSInv, ZenonT(40)

LEMMA RetryFailsSInv ==
    ASSUME SInv, RetryFails
    PROVE  SInv'
    <1> DEFINE r == [run EXCEPT !.failed = @ + 1]
    <1>1. run \in Call /\ run.batch # <<>> /\ Unwritten
          BY DEF RetryFails, SInv, TypeOK, InHand, Busy
    <1>2. r \in Call /\ r.batch = run.batch
          BY <1>1, Fails DEF Same
    <1>3. run' = Rest(r) /\ was' = was
          BY <1>1 DEF RetryFails, Unwritten
    <1> HIDE DEF r
    <1>4. /\ run' \in Call /\ run'.pc \in {"page", "retry"} /\ run'.found = {}
          /\ run'.pc = "retry" => run'.batch # <<>>
          /\ \A k \in DOMAIN run'.batch : \E l \in DOMAIN run.batch :
                run'.batch[k] = run.batch[l]
          BY <1>1, <1>2, <1>3, RestIsPart
    <1>5. QED  BY <1>1, <1>3, <1>4, PartInHand, ReadingStep

LEMMA KillSInv ==
    ASSUME SInv, Kill
    PROVE  SInv'
    <1>1. /\ run \in Call /\ Unwritten
          /\ run' = [run EXCEPT !.pc = "none", !.batch = <<>>, !.found = {}]
          BY DEF Kill, SInv, TypeOK
    <1>2. run' \in Call /\ run'.pc = "none" /\ run'.batch = <<>> /\ run'.found = {}
          BY <1>1, NoBatch DEF Call
    <1>3. QED  BY <1>1, <1>2, EmptyHanded, ReadingStep DEF Busy

LEMMA LegacyWriteSInv ==
    ASSUME SInv, NEW i \in Ids, NEW row \in Transcript \cup {Absent}, LegacyWrite(i, row)
    PROVE  SInv'
    <1> USE DEF SInv
    <1>1. /\ legacy' = [legacy EXCEPT ![i] = row]
          /\ was' = [was EXCEPT ![i] = @ \cup ({row} \ {Absent})]
          /\ since' = since + 1 /\ UNCHANGED <<modern, indexed, run>>
          BY DEF LegacyWrite
    <1>2. TypeOK'
          BY <1>1 DEF TypeOK
    <1>3. was \in [Ids -> SUBSET Transcript] /\ legacy \in [Ids -> Transcript \cup {Absent}]
          BY DEF TypeOK
    <1>4. \A j \in Ids : was[j] \subseteq was'[j]
          BY <1>1, <1>3
    <1>5. Remembered'
          BY <1>1, <1>3 DEF Remembered
    <1>6. TargetFromSource'
          BY <1>1, <1>4 DEF TargetFromSource
    <1>7. InHand'
      <2>1. \A k \in DOMAIN run.batch : run.batch[k].id \in Ids
            BY BatchInHand
      <2>2. run.found \subseteq Ids
            BY BatchInHand
      <2>3. \A k \in DOMAIN run.batch :
                \E t \in was'[run.batch[k].id] : t.text = run.batch[k].text
            BY <1>4, <2>1 DEF InHand
      <2>4. \A j \in run.found : \E t \in was'[j] : t.analytics
            BY <1>4, <2>2 DEF InHand
      <2>5. BatchIds' = BatchIds
            BY <1>1 DEF BatchIds
      <2>6. QED  BY <1>1, <2>3, <2>4, <2>5 DEF InHand
    <1>8. QED  BY <1>2, <1>5, <1>6, <1>7

LEMMA InitSInv == Init => SInv
    <1> SUFFICES ASSUME Init PROVE SInv
        OBVIOUS
    <1>1. /\ legacy \in [Ids -> Transcript \cup {Absent}]
          /\ modern = [i \in Ids |-> Absent] /\ indexed = {}
          /\ run = [pc |-> "none", dry |-> FALSE, total |-> 0, offset |-> 0,
                    batch |-> <<>>, found |-> {}, migrated |-> 0, failed |-> 0,
                    unread |-> 0, runs |-> 0]
          /\ since = 0
          /\ was = [i \in Ids |-> {legacy[i]} \ {Absent}]
          BY DEF Init
    <1>2. run \in Call
          BY <1>1, NoBatch DEF Call
    <1>3. TypeOK
          BY <1>1, <1>2 DEF TypeOK
    <1>4. Remembered /\ TargetFromSource
          BY <1>1 DEF Remembered, TargetFromSource
    <1>5. run.pc = "none" /\ run.batch = <<>> /\ run.found = {}
          BY <1>1
    <1>6. InHand
          BY <1>5, NoBatch DEF InHand, Busy
    <1>7. QED  BY <1>3, <1>4, <1>6 DEF SInv

LEMMA NextSInv == SInv /\ [Next]_vars => SInv'
    <1> SUFFICES ASSUME SInv, [Next]_vars PROVE SInv'
        OBVIOUS
    <1>1. CASE Step
          BY <1>1, ReadPageSInv, ReadFailsSInv, FinishSInv, ReadAnalyticsSInv, RetriesSInv,
             WriteBatchSInv, RetryReadSInv, RetryWriteSInv, RetryFailsSInv DEF Step
    <1>2. CASE UNCHANGED vars
          BY <1>2 DEF vars, SInv, TypeOK, Remembered, InHand, TargetFromSource, BatchIds
    <1>3. QED  BY <1>1, <1>2, StartSInv, KillSInv, LegacyWriteSInv DEF Next

-----------------------------------------------------------------------------
(* The rows a run has dealt with. *)
LEMMA StandsStill ==
    ASSUME legacy' = legacy
    PROVE  Rows' = Rows /\ \A i : Rank(i)' = Rank(i)
    BY DEF Rows, Rank

\* Nothing is written: what is missing stays missing.
LEMMA MissingStays ==
    ASSUME UNCHANGED <<legacy, modern, indexed>>
    PROVE  Missing' = Missing /\ Rows' = Rows /\ \A i : Rank(i)' = Rank(i)
    BY StandsStill DEF Missing, Rows

LEMMA Times ==
    /\ BatchSize \in Nat \ {0}
    /\ \A u \in Nat : /\ BatchSize * u \in Nat
                      /\ BatchSize * (u + 1) = BatchSize * u + BatchSize
    BY MigrationAssumption

LEMMA OwedIsNat == TypeOK => Owed \in Nat
    BY Times, BatchInHand, SMTT(30) DEF Owed

LEMMA NoneMore == IsFiniteSet({}) /\ Cardinality({}) <= 0 /\ 0 \in Nat
    BY FS_EmptySet

LEMMA OneMore ==
    ASSUME NEW x
    PROVE  IsFiniteSet({x}) /\ Cardinality({x}) <= 1
    <1>1. IsFiniteSet({x}) /\ Cardinality({x}) = 1
          BY FS_Singleton
    <1>2. \A n : n = 1 => n <= 1
          OBVIOUS
    <1>3. QED  BY <1>1, <1>2

\* A set that holds at most the elements of one and d more.
LEMMA FewMore ==
    ASSUME NEW T, IsFiniteSet(T), NEW S, IsFiniteSet(S), NEW d \in Nat, Cardinality(S) <= d,
           NEW M, M \subseteq T \cup S
    PROVE  /\ IsFiniteSet(M) /\ Cardinality(M) \in Nat /\ Cardinality(T) \in Nat
           /\ Cardinality(M) <= Cardinality(T) + d
    <1>1. /\ IsFiniteSet(T \cup S)
          /\ Cardinality(T \cup S) = Cardinality(T) + Cardinality(S) - Cardinality(T \cap S)
          BY FS_Union
    <1>2. IsFiniteSet(T \cap S) /\ Cardinality(T \cap S) \in Nat
          BY FS_Subset, FS_CardinalityType
    <1>3. IsFiniteSet(M) /\ Cardinality(M) <= Cardinality(T \cup S)
          BY <1>1, FS_Subset
    <1>4. /\ Cardinality(M) \in Nat /\ Cardinality(S) \in Nat /\ Cardinality(T) \in Nat
          /\ Cardinality(T \cup S) \in Nat
          BY <1>1, <1>3, FS_CardinalityType
    <1>5. PICK t \in Nat, s \in Nat, c \in Nat, m \in Nat, u \in Nat :
            /\ t = Cardinality(T) /\ s = Cardinality(S) /\ c = Cardinality(T \cap S)
            /\ m = Cardinality(M) /\ u = Cardinality(T \cup S)
          BY <1>2, <1>4
    <1>6. u = t + s - c /\ m <= u /\ s <= d
          BY <1>1, <1>3, <1>5
    <1>7. m <= t + d
          BY <1>6
    <1>8. QED  BY <1>3, <1>4, <1>5, <1>7

LEMMA LostFinite ==
    /\ IsFiniteSet(Missing) /\ Cardinality(Missing) \in Nat
    /\ IsFiniteSet(Lost) /\ Cardinality(Lost) \in Nat
    <1>1. Missing \in SUBSET Rows /\ Lost \in SUBSET Rows
          BY DEF Missing, Stale, Lost
    <1>2. QED  BY <1>1, RowsFinite, FS_Subset, FS_CardinalityType

\* What a call that goes on knows.
LEMMA OnTheWay ==
    ASSUME IInv, run.pc # "none"
    PROVE  /\ TypeOK /\ run \in Call
           /\ Cardinality(Rows) \in Nat /\ since \in Nat
           /\ run.total \in Nat /\ run.offset \in Nat /\ run.migrated \in Nat
           /\ run.failed \in Nat /\ run.unread \in Nat
           /\ Owed \in Nat /\ Reach \in Nat /\ Len(run.batch) \in Nat
           /\ Cardinality(Rows) <= run.total + since /\ run.total <= Cardinality(Rows) + since
           /\ \/ run.total <= run.migrated + Owed + Len(run.batch) + since
              \/ Reach <= run.migrated + Owed + Len(run.batch)
           /\ ~run.dry => Cardinality(Lost) <= Owed + since
           /\ run.pc \in {"page", "done"} => /\ Reach = run.offset /\ run.batch = <<>>
                                             /\ Len(run.batch) = 0 /\ BatchIds = {}
           /\ run.pc \in Busy => Reach = run.offset + BatchSize
    <1> USE DEF IInv, SInv, Account
    <1>1. /\ TypeOK /\ run \in Call /\ since \in Nat /\ Cardinality(Rows) \in Nat
          /\ run.total \in Nat /\ run.offset \in Nat /\ run.migrated \in Nat
          /\ run.failed \in Nat /\ run.unread \in Nat
          /\ Owed \in Nat /\ Len(run.batch) \in Nat
          BY BatchInHand, OwedIsNat, RowsFinite DEF TypeOK
    <1>2. /\ Cardinality(Rows) <= run.total + since /\ run.total <= Cardinality(Rows) + since
          /\ \/ run.total <= run.migrated + Owed + Len(run.batch) + since
             \/ Reach <= run.migrated + Owed + Len(run.batch)
          /\ ~run.dry => Cardinality(Lost) <= Owed + since
          BY DEF Totals, Counted, LostArePaid
    <1>3. Reach \in Nat /\ (run.pc \in Busy => Reach = run.offset + BatchSize)
          BY <1>1, MigrationAssumption DEF Reach
    <1>4. run.pc \in {"page", "done"} => /\ Reach = run.offset /\ run.batch = <<>>
                                         /\ Len(run.batch) = 0 /\ BatchIds = {}
          BY NoBatch DEF Totals, Reach, Busy, BatchIds
    <1>5. QED  BY <1>1, <1>2, <1>3, <1>4

-----------------------------------------------------------------------------
(* The account of a run, action by action. *)

\* A step of the run that migrates w rows more, owes d more, and loses no more
\* than it owes.
LEMMA RunStep ==
    ASSUME IInv, run.pc # "none", UNCHANGED <<legacy, since>>,
           run' \in Call, run'.pc # "none",
           run'.pc \in {"page", "done"} => run'.batch = <<>>,
           run'.pc = "done" => /\ Cardinality(Rows) <= run'.offset + since
                               /\ run.total <= run'.offset + since,
           run'.total = run.total, run'.dry = run.dry,
           NEW w \in Nat, NEW d \in Nat, NEW S,
           run'.migrated = run.migrated + w, Owed' = Owed + d,
           Reach' \in Nat, Len(run'.batch) \in Nat,
           Len(run.batch) <= Len(run'.batch) + w + d,
           \/ Len(run.batch) + Reach' <= Len(run'.batch) + Reach + w + d
           \/ Len(run.batch) + run.total <= Len(run'.batch) + Reach + w + d + since,
           IsFiniteSet(S), Cardinality(S) <= d,
           ~run.dry => Lost' \subseteq Lost \cup S
    PROVE  Account'
    <1>1. Rows' = Rows /\ since' = since
          BY StandsStill
    <1>2. Totals'
          BY <1>1, OnTheWay DEF Totals
    <1>3. LostArePaid'
      <2> SUFFICES ASSUME ~run.dry PROVE Cardinality(Lost)' <= Owed' + since'
          BY DEF LostArePaid
      <2>1. /\ Cardinality(Lost') \in Nat /\ Cardinality(Lost) \in Nat
            /\ Cardinality(Lost') <= Cardinality(Lost) + d
            BY LostFinite, FewMore
      <2>2. Cardinality(Lost) <= Owed + since /\ Owed \in Nat /\ since \in Nat
            BY OnTheWay
      <2>3. PICK a \in Nat, b \in Nat : a = Cardinality(Lost') /\ b = Cardinality(Lost)
            BY <2>1
      <2>4. a <= Owed + d + since
            BY <2>1, <2>2, <2>3
      <2>5. QED  BY <1>1, <2>3, <2>4
    <1>4. Counted'
      <2>1. PICK t \in Nat, m \in Nat, o \in Nat, l \in Nat, r \in Nat, n \in Nat :
                /\ t = run.total /\ m = run.migrated /\ o = Owed /\ l = Len(run.batch)
                /\ r = Reach /\ n = since
            BY OnTheWay
      <2>2. PICK l2 \in Nat, r2 \in Nat : l2 = Len(run'.batch) /\ r2 = Reach'
            OBVIOUS
      <2>3. t <= m + o + l + n \/ r <= m + o + l
            BY <2>1, OnTheWay
      <2>4. l <= l2 + w + d /\ (l + r2 <= l2 + r + w + d \/ l + t <= l2 + r + w + d + n)
            BY <2>1, <2>2
      <2>5. t <= (m + w) + (o + d) + l2 + n \/ r2 <= (m + w) + (o + d) + l2
            BY <2>3, <2>4
      <2>6. run'.migrated = m + w /\ Owed' = o + d /\ run'.total = t /\ since' = n
            BY <1>1, <2>1
      <2>7. QED  BY <2>2, <2>5, <2>6 DEF Counted
    <1>5. QED  BY <1>2, <1>3, <1>4 DEF Account

\* The rows in hand are no more than before, and their analytics are not read,
\* or just read: none of them becomes stale.
LEMMA NoneStale ==
    ASSUME legacy' = legacy,
           \A k \in DOMAIN run'.batch : \E l \in DOMAIN run.batch : run'.batch[k] = run.batch[l],
           run'.pc = "write" => run'.found = WithAnalytics(BatchIds),
           run'.pc = "single" => run'.found = WithAnalytics({Head(run'.batch).id}),
           run'.pc = "write" => run'.batch = run.batch
    PROVE  Stale' \subseteq Stale
    <1> SUFFICES ASSUME NEW i \in Stale' PROVE i \in Stale
        OBVIOUS
    <1>1. i \in Rows /\ i \in BatchIds'
          BY StandsStill DEF Stale
    <1>2. i \in BatchIds
          BY <1>1 DEF BatchIds
    <1>3. CASE \E k \in DOMAIN run'.batch :
                    run'.batch[k].id = i /\ run'.batch[k].text # legacy'[i].text
      <2>1. \E l \in DOMAIN run.batch :
                    run.batch[l].id = i /\ run.batch[l].text # legacy[i].text
            BY <1>3
      <2>2. QED  BY <1>1, <1>2, <2>1 DEF Stale
    <1>4. CASE /\ run'.pc = "write" \/ (run'.pc = "single" /\ Head(run'.batch).id = i)
               /\ legacy'[i].analytics /\ i \notin run'.found
      <2>1. i \in {Head(run'.batch).id} \/ run'.pc = "write"
            BY <1>4
      <2>2. legacy[i].analytics
            BY <1>4
      <2>3. i \in run'.found
            BY <1>1, <1>2, <1>4, <2>1, <2>2 DEF WithAnalytics, Rows
      <2>4. QED  BY <1>4, <2>3
    <1>5. QED  BY <1>3, <1>4 DEF Stale

LEMMA EmptyHandsHoldNoneStale ==
    ASSUME run.batch = <<>>
    PROVE  BatchIds = {} /\ Stale = {} /\ Lost = Missing \cap {i \in Rows : Rank(i) < Reach}
    <1>1. BatchIds = {}
          BY NoBatch DEF BatchIds
    <1>2. QED  BY <1>1 DEF Stale, Lost, Handled

LEMMA EmptyHandsNext ==
    ASSUME run'.batch = <<>>
    PROVE  Lost' = Missing' \cap {i \in Rows' : Rank(i)' < Reach'}
    <1>1. BatchIds' = {}
          BY NoBatch DEF BatchIds
    <1>2. QED  BY <1>1 DEF Stale, Lost, Handled

\* What an advance, and the rest of a batch, do to what is dealt with.
LEMMA AfterAdvance ==
    ASSUME NEW r \in Call, run' = Advance(r)
    PROVE  /\ run' \in Call /\ run'.pc = "page" /\ run'.batch = <<>> /\ Len(run'.batch) = 0
           /\ run'.total = r.total /\ run'.dry = r.dry /\ run'.migrated = r.migrated
           /\ Reach' = r.offset + BatchSize
           /\ Owed' = r.failed + BatchSize * r.unread
           /\ BatchIds' = {}
           /\ Lost' = Missing' \cap {i \in Rows' : Rank(i)' < r.offset + BatchSize}
    <1>1. /\ run' \in Call /\ run'.pc = "page" /\ run'.batch = <<>> /\ Len(run'.batch) = 0
          /\ run'.total = r.total /\ run'.dry = r.dry /\ run'.migrated = r.migrated
          /\ run'.failed = r.failed /\ run'.unread = r.unread
          /\ run'.offset = r.offset + BatchSize
          BY Advances, NoBatch
    <1>2. Reach' = r.offset + BatchSize /\ BatchIds' = {}
          BY <1>1, NoBatch DEF Reach, Busy, BatchIds
    <1>3. Stale' = {}
          BY <1>2 DEF Stale
    <1>4. Lost' = Missing' \cap {i \in Rows' : Rank(i)' < r.offset + BatchSize}
          BY <1>2, <1>3 DEF Lost, Handled
    <1>5. QED  BY <1>1, <1>2, <1>4 DEF Owed

LEMMA AfterRest ==
    ASSUME NEW r \in Call, r.batch # <<>>, run' = Rest(r)
    PROVE  /\ run' \in Call /\ run'.pc \in {"page", "retry"}
           /\ run'.pc = "page" => run'.batch = <<>>
           /\ run'.pc = "retry" => run'.offset = r.offset
           /\ run'.total = r.total /\ run'.dry = r.dry /\ run'.migrated = r.migrated
           /\ Len(run'.batch) = Len(r.batch) - 1
           /\ Reach' = r.offset + BatchSize
           /\ Owed' = r.failed + BatchSize * r.unread
           /\ {r.batch[k].id : k \in DOMAIN r.batch} \subseteq BatchIds' \cup {r.batch[1].id}
    <1>1. r.batch \in Seq(Read) /\ DOMAIN r.batch = 1..Len(r.batch) /\ Len(r.batch) \in Nat
          BY LenProperties DEF Call
    <1>2. CASE Len(r.batch) = 1
      <2>1. run' = Advance(r)
            BY <1>2, Rests
      <2>2. {r.batch[k].id : k \in DOMAIN r.batch} \subseteq {r.batch[1].id}
            BY <1>1, <1>2
      <2>3. QED  BY <1>2, <2>1, <2>2, AfterAdvance
    <1>3. CASE Len(r.batch) # 1
      <2>1. /\ run' \in Call /\ run'.pc = "retry"
            /\ run'.offset = r.offset /\ run'.batch = Tail(r.batch)
            /\ Len(Tail(r.batch)) = Len(r.batch) - 1
            /\ \A k \in 1..Len(r.batch) - 1 : Tail(r.batch)[k] = r.batch[k + 1]
            /\ run'.dry = r.dry /\ run'.total = r.total
            /\ run'.migrated = r.migrated /\ run'.failed = r.failed
            /\ run'.unread = r.unread
            BY <1>3, Rests
      <2>2. DOMAIN run'.batch = 1..Len(r.batch) - 1
            BY <2>1, LenProperties DEF Call
      <2>3. ASSUME NEW k \in DOMAIN r.batch
            PROVE  r.batch[k].id \in BatchIds' \cup {r.batch[1].id}
        <3>1. CASE k = 1
              BY <3>1
        <3>2. CASE k # 1
          <4>1. k - 1 \in 1..Len(r.batch) - 1 /\ k - 1 + 1 = k
                BY <1>1, <3>2
          <4>2. k - 1 \in DOMAIN run'.batch /\ run'.batch[k - 1] = r.batch[k]
                BY <2>1, <2>2, <4>1
          <4>3. QED  BY <4>2 DEF BatchIds
        <3>3. QED  BY <3>1, <3>2
      <2>4. Reach' = r.offset + BatchSize /\ Owed' = r.failed + BatchSize * r.unread
            BY <2>1 DEF Reach, Busy, Owed
      <2>5. QED  BY <2>1, <2>3, <2>4
    <1>4. QED  BY <1>2, <1>3

LEMMA StartAccount ==
    ASSUME IInv, NEW dry \in BOOLEAN, Start(dry)
    PROVE  Account'
    <1> DEFINE total == Cardinality(Rows)
    <1>1. /\ run' = [pc |-> IF total = 0 THEN "done" ELSE "page", dry |-> dry,
                     total |-> total, offset |-> 0, batch |-> <<>>, found |-> {},
                     migrated |-> 0, failed |-> 0, unread |-> 0, runs |-> run.runs + 1]
          /\ UNCHANGED <<legacy, modern, indexed>> /\ since' = 0
          BY DEF Start
    <1>2. total \in Nat /\ Cardinality(Rows)' = total
          BY <1>1, RowsFinite, MissingStays
    <1> HIDE DEF total
    <1>3. /\ run'.pc \in {"page", "done"} /\ run'.batch = <<>> /\ run'.total = total
          /\ run'.offset = 0 /\ run'.migrated = 0 /\ run'.failed = 0 /\ run'.unread = 0
          /\ run'.pc = "done" => total = 0
          BY <1>1
    <1>4. Totals'
          BY <1>1, <1>2, <1>3 DEF Totals
    <1>5. Owed' = 0 /\ Reach' = 0 /\ Len(run'.batch) = 0
      <2>1. Owed' = 0
            BY <1>3, Times DEF Owed
      <2>2. QED  BY <1>3, <2>1, NoBatch DEF Reach, Busy
    <1>6. Counted'
          BY <1>3, <1>5 DEF Counted
    <1>7. Lost' = {}
      <2>1. Lost' = Missing' \cap {i \in Rows' : Rank(i)' < 0}
            BY <1>3, <1>5, EmptyHandsNext
      <2>2. Rows' = Rows /\ \A i : Rank(i)' = Rank(i)
            BY <1>1, MissingStays
      <2>3. \A i \in Rows : ~(Rank(i) < 0)
            BY RankBounds, RowsFinite
      <2>4. QED  BY <2>1, <2>2, <2>3
    <1>8. LostArePaid'
          BY <1>1, <1>5, <1>7, NoneMore DEF LostArePaid
    <1>9. QED  BY <1>4, <1>6, <1>8 DEF Account

LEMMA ReadFailsAccount ==
    ASSUME IInv, ReadFails
    PROVE  Account'
    <1> DEFINE r == [run EXCEPT !.unread = @ + 1]
               S == {i \in Rows : Rank(i) \in run.offset .. run.offset + BatchSize - 1}
    <1>1. /\ run.pc = "page" /\ run' = Advance(r)
          /\ UNCHANGED <<legacy, modern, indexed, since>>
          BY DEF ReadFails, Unwritten
    <1>2. /\ run \in Call /\ run.failed \in Nat /\ run.unread \in Nat
          /\ run.offset \in Nat /\ run.migrated \in Nat /\ Owed \in Nat
          /\ Reach = run.offset /\ run.batch = <<>> /\ Len(run.batch) = 0
          BY <1>1, OnTheWay
    <1>3. /\ r \in Call /\ Same(run, r)
          /\ r.migrated = run.migrated /\ r.failed = run.failed /\ r.unread = run.unread + 1
          BY <1>2, Unreads
    <1> HIDE DEF r
    <1>4. /\ run' \in Call /\ run'.pc = "page" /\ run'.batch = <<>> /\ Len(run'.batch) = 0
          /\ run'.total = run.total /\ run'.dry = run.dry /\ run'.migrated = run.migrated + 0
          /\ Reach' = run.offset + BatchSize
          /\ Owed' = Owed + BatchSize
          /\ Lost' = Missing' \cap {i \in Rows' : Rank(i)' < run.offset + BatchSize}
      <2>1. /\ run' \in Call /\ run'.pc = "page" /\ run'.batch = <<>> /\ Len(run'.batch) = 0
            /\ run'.total = r.total /\ run'.dry = r.dry /\ run'.migrated = r.migrated
            /\ Reach' = r.offset + BatchSize
            /\ Owed' = r.failed + BatchSize * r.unread
            /\ Lost' = Missing' \cap {i \in Rows' : Rank(i)' < r.offset + BatchSize}
            BY <1>1, <1>3, AfterAdvance
      <2>2. run.failed + BatchSize * (run.unread + 1) = Owed + BatchSize
            BY <1>2, Times DEF Owed
      <2>3. QED  BY <1>2, <1>3, <2>1, <2>2 DEF Same
    <1>5. Missing' = Missing /\ Rows' = Rows /\ \A i : Rank(i)' = Rank(i)
          BY <1>1, MissingStays
    <1>6. Lost' \subseteq Lost \cup S
      <2>1. Lost = Missing \cap {i \in Rows : Rank(i) < run.offset}
            BY <1>2, EmptyHandsHoldNoneStale
      <2>2. \A i \in Rows : Rank(i) \in Nat
            BY RankBounds, RowsFinite
      <2>3. QED  BY <1>2, <1>4, <1>5, <2>1, <2>2, Times
    <1>7. IsFiniteSet(S) /\ Cardinality(S) <= BatchSize
          BY <1>2, Times, RankSlots
    <1>8. /\ BatchSize \in Nat /\ 0 \in Nat /\ Reach' \in Nat /\ Len(run'.batch) \in Nat
          /\ Len(run.batch) <= Len(run'.batch) + 0 + BatchSize
          /\ Len(run.batch) + Reach' <= Len(run'.batch) + Reach + 0 + BatchSize
          BY <1>2, <1>4, Times
    <1> HIDE DEF S
    <1>9. QED  BY <1>1, <1>4, <1>6, <1>7, <1>8, RunStep

LEMMA ReadPageAccount ==
    ASSUME IInv, ReadPage
    PROVE  Account'
    <1> DEFINE left == Cardinality(Rows) - run.offset
               n == IF left < BatchSize THEN left ELSE BatchSize
               b == TranscriptsOf(Page(run.offset))
    <1>1. /\ run.pc = "page" /\ run.offset < run.total
          /\ UNCHANGED <<legacy, modern, indexed, since>>
          /\ run' = IF b = <<>> THEN [run EXCEPT !.pc = "done"]
                    ELSE [run EXCEPT !.pc = "analytics", !.batch = b]
          BY DEF ReadPage, Unwritten
    <1>2. /\ TypeOK /\ run \in Call /\ Cardinality(Rows) \in Nat /\ since \in Nat
          /\ run.total \in Nat /\ run.offset \in Nat /\ run.migrated \in Nat /\ Owed \in Nat
          /\ run.total <= Cardinality(Rows) + since
          /\ Reach = run.offset /\ run.batch = <<>> /\ Len(run.batch) = 0 /\ BatchIds = {}
          BY <1>1, OnTheWay
    <1>3. /\ b \in Seq(Read) /\ DOMAIN b = 1..n /\ (0 <= n => Len(b) = n)
          /\ \A k \in 1..n : b[k].id \in Rows /\ b[k].text = legacy[b[k].id].text
          /\ \A i \in Rows : Rank(i) \in run.offset .. run.offset + BatchSize - 1 =>
                \E k \in 1..n : b[k].id = i
          BY <1>2, Batches, Zenon
    <1>4. left \in Int /\ n \in Int /\ n <= BatchSize /\ n <= left
          /\ (n # BatchSize => n = left) /\ BatchSize \in Nat \ {0}
          BY <1>2, Times
    <1>5. left = Cardinality(Rows) - run.offset
          OBVIOUS
    <1> HIDE DEF b, n, left
    <1>6. Missing' = Missing /\ Rows' = Rows /\ \A i : Rank(i)' = Rank(i)
          BY <1>1, MissingStays
    <1>7. CASE b = <<>>
      <2>1. run' = [run EXCEPT !.pc = "done"]
            BY <1>1, <1>7
      <2>2. /\ run' \in Call /\ run'.pc = "done" /\ run'.batch = <<>> /\ run'.total = run.total
            /\ run'.dry = run.dry /\ run'.migrated = run.migrated + 0 /\ run'.offset = run.offset
            /\ run'.failed = run.failed /\ run'.unread = run.unread
            BY <1>2, <2>1 DEF Call
      <2>3. n <= 0
        <3>1. DOMAIN b = {}
              BY <1>7, NoBatch
        <3>2. 1 \notin 1..n
              BY <1>3, <3>1
        <3>3. QED  BY <1>4, <3>2
      <2>4. Cardinality(Rows) <= run'.offset + since /\ run.total <= run'.offset + since
            BY <1>2, <1>4, <1>5, <2>2, <2>3
      <2>5. Reach' = Reach /\ Owed' = Owed + 0 /\ Len(run'.batch) = 0
            BY <1>2, <2>2, NoBatch DEF Reach, Busy, Owed
      <2>6. Lost' \subseteq Lost \cup {}
            BY <1>2, <1>6, <2>2, <2>5, EmptyHandsHoldNoneStale, EmptyHandsNext
      <2>7. /\ 0 \in Nat /\ Reach' \in Nat /\ Len(run'.batch) \in Nat
            /\ Len(run.batch) <= Len(run'.batch) + 0 + 0
            /\ Len(run.batch) + Reach' <= Len(run'.batch) + Reach + 0 + 0
            BY <1>2, <2>5
      <2>8. QED  BY <1>1, <2>2, <2>4, <2>5, <2>6, <2>7, NoneMore, RunStep
    <1>8. CASE b # <<>>
      <2>1. run' = [run EXCEPT !.pc = "analytics", !.batch = b]
            BY <1>1, <1>8
      <2>2. Len(b) \in Nat \ {0} /\ Len(b) = n
        <3>1. Len(b) \in Nat \ {0} /\ DOMAIN b = 1..Len(b)
              BY <1>3, <1>8, EmptySeq, LenProperties
        <3>2. 0 <= n
              BY <1>3, <1>4, <3>1
        <3>3. QED  BY <1>3, <3>1, <3>2
      <2>3. /\ run' \in Call /\ run'.pc = "analytics" /\ run'.batch = b
            /\ run'.total = run.total /\ run'.dry = run.dry
            /\ run'.migrated = run.migrated /\ run'.offset = run.offset
            /\ run'.failed = run.failed /\ run'.unread = run.unread
            BY <1>2, <1>3, <2>1 DEF Call, Busy
      <2>4. Reach' = run.offset + BatchSize /\ Owed' = Owed + 0
            BY <1>2, <2>3 DEF Reach, Owed, Busy
      <2>5. /\ 0 \in Nat /\ Reach' \in Nat /\ Len(run'.batch) \in Nat
            /\ Len(run.batch) <= Len(run'.batch) + 0 + 0
            /\ \/ Len(run.batch) + Reach' <= Len(run'.batch) + Reach + 0 + 0
               \/ Len(run.batch) + run.total <= Len(run'.batch) + Reach + 0 + 0 + since
        <3>1. PICK c \in Nat, o \in Nat, s \in Nat, t \in Nat, m \in Nat, z \in Nat :
                /\ c = Cardinality(Rows) /\ o = run.offset /\ s = since /\ t = run.total
                /\ m = n /\ z = BatchSize
              BY <1>2, <1>4, <2>2
        <3>2. /\ 0 <= m /\ (m = z \/ m = c - o) /\ t <= c + s
              BY <1>2, <1>4, <1>5, <3>1
        <3>3. 0 + (o + z) <= m + o + 0 + 0 \/ 0 + t <= m + o + 0 + 0 + s
              BY <3>2
        <3>4. o + z \in Nat /\ 0 <= m + 0 + 0
              BY <3>1
        <3>5. Len(run.batch) = 0 /\ Len(run'.batch) = m /\ Reach = o /\ Reach' = o + z
              BY <1>2, <2>2, <2>3, <2>4, <3>1
        <3>6. QED  BY <3>1, <3>2, <3>3, <3>4, <3>5
      <2>6. Lost' \subseteq Lost \cup {}
        <3>1. Stale' = {}
          <4> SUFFICES ASSUME NEW i \in Stale' PROVE FALSE
              OBVIOUS
          <4>1. PICK k \in DOMAIN b : b[k].id = i /\ b[k].text # legacy[i].text
                BY <1>1, <2>3 DEF Stale
          <4>2. QED  BY <1>3, <4>1
        <3>2. ASSUME NEW i \in Missing, i \in Handled' PROVE i \in Lost
          <4>1. i \in Rows /\ Rank(i) < run.offset + BatchSize /\ i \notin BatchIds'
                BY <1>6, <2>4, <3>2 DEF Handled
          <4>2. \A k \in 1..n : b[k].id # i
                BY <1>3, <2>3, <4>1 DEF BatchIds
          <4>3. Rank(i) \in Nat /\ Rank(i) \notin run.offset .. run.offset + BatchSize - 1
                BY <1>3, <4>1, <4>2, RankBounds, RowsFinite
          <4>4. Rank(i) < run.offset
                BY <1>2, <1>4, <4>1, <4>3
          <4>5. QED  BY <1>2, <4>1, <4>4, EmptyHandsHoldNoneStale
        <3>3. QED  BY <1>6, <3>1, <3>2 DEF Lost
      <2>7. run'.migrated = run.migrated + 0 /\ run'.pc \notin {"none", "page", "done"}
            BY <1>2, <2>3
      <2>8. QED  BY <1>1, <2>3, <2>4, <2>5, <2>6, <2>7, NoneMore, RunStep
    <1>9. QED  BY <1>7, <1>8

LEMMA FinishAccount ==
    ASSUME IInv, Finish
    PROVE  Account'
    <1>1. /\ run.pc = "page" /\ run.offset >= run.total
          /\ UNCHANGED <<legacy, modern, indexed, since>>
          /\ run' = [run EXCEPT !.pc = "done"]
          BY DEF Finish, Unwritten
    <1>2. /\ run \in Call /\ Cardinality(Rows) \in Nat /\ since \in Nat
          /\ run.total \in Nat /\ run.offset \in Nat /\ run.migrated \in Nat /\ Owed \in Nat
          /\ Cardinality(Rows) <= run.total + since
          /\ Reach = run.offset /\ run.batch = <<>> /\ Len(run.batch) = 0
          BY <1>1, OnTheWay
    <1>3. /\ run' \in Call /\ run'.pc = "done" /\ run'.batch = <<>> /\ run'.total = run.total
          /\ run'.dry = run.dry /\ run'.migrated = run.migrated + 0 /\ run'.offset = run.offset
          /\ run'.failed = run.failed /\ run'.unread = run.unread
          BY <1>1, <1>2 DEF Call
    <1>4. Cardinality(Rows) <= run'.offset + since /\ run.total <= run'.offset + since
          BY <1>1, <1>2, <1>3
    <1>5. Reach' = Reach /\ Owed' = Owed + 0 /\ Len(run'.batch) = 0
          BY <1>2, <1>3, NoBatch DEF Reach, Busy, Owed
    <1>6. Missing' = Missing /\ Rows' = Rows /\ \A i : Rank(i)' = Rank(i)
          BY <1>1, MissingStays
    <1>7. Lost' \subseteq Lost \cup {}
          BY <1>2, <1>3, <1>5, <1>6, EmptyHandsHoldNoneStale, EmptyHandsNext
    <1>8. /\ 0 \in Nat /\ Reach' \in Nat /\ Len(run'.batch) \in Nat
          /\ Len(run.batch) <= Len(run'.batch) + 0 + 0
          /\ Len(run.batch) + Reach' <= Len(run'.batch) + Reach + 0 + 0
          BY <1>2, <1>5
    <1>9. QED  BY <1>1, <1>3, <1>4, <1>5, <1>7, <1>8, NoneMore, RunStep

\* The batch is left behind, its rows migrated or, in a dry run, counted.
LEMMA BatchDone ==
    ASSUME IInv, run.pc \in Busy, UNCHANGED <<legacy, since>>,
           run' = Advance([run EXCEPT !.migrated = @ + Len(run.batch)]),
           ~run.dry => \A i \in Missing' : Rank(i) < Reach => i \in Lost
    PROVE  Account'
    <1> DEFINE r == [run EXCEPT !.migrated = @ + Len(run.batch)]
    <1>1. /\ run \in Call /\ run.migrated \in Nat /\ Owed \in Nat /\ Len(run.batch) \in Nat
          /\ Reach = run.offset + BatchSize /\ Reach \in Nat /\ run.pc # "none"
          BY OnTheWay DEF Busy
    <1>2. /\ r \in Call /\ Same(run, r) /\ r.migrated = run.migrated + Len(run.batch)
          /\ r.failed = run.failed /\ r.unread = run.unread
          BY <1>1, Migrates
    <1>3. run' = Advance(r)
          OBVIOUS
    <1> HIDE DEF r
    <1>4. /\ run' \in Call /\ run'.pc = "page" /\ run'.batch = <<>> /\ Len(run'.batch) = 0
          /\ run'.total = run.total /\ run'.dry = run.dry
          /\ run'.migrated = run.migrated + Len(run.batch)
          /\ Reach' = Reach /\ Owed' = r.failed + BatchSize * r.unread
          /\ Lost' = Missing' \cap {i \in Rows' : Rank(i)' < Reach}
          BY <1>1, <1>2, <1>3, AfterAdvance DEF Same
    <1>5. Owed' = Owed + 0
          BY <1>1, <1>2, <1>4 DEF Owed
    <1>6. ~run.dry => Lost' \subseteq Lost \cup {}
          BY <1>4, StandsStill
    <1>7. PICK l \in Nat, a \in Nat : l = Len(run.batch) /\ a = Reach
          BY <1>1
    <1>8. l <= 0 + l + 0 /\ l + a <= 0 + a + l + 0
          BY <1>7
    <1>9. /\ 0 \in Nat /\ Reach' \in Nat /\ Len(run'.batch) \in Nat
          /\ Len(run.batch) <= Len(run'.batch) + Len(run.batch) + 0
          /\ Len(run.batch) + Reach' <= Len(run'.batch) + Reach + Len(run.batch) + 0
          BY <1>4, <1>7, <1>8
    <1>10. QED  BY <1>1, <1>4, <1>5, <1>6, <1>9, NoneMore, RunStep

\* The batch stays in hand, and w of its rows were counted all the same.
LEMMA SameBatch ==
    ASSUME IInv, run.pc \in Busy, UNCHANGED <<legacy, modern, indexed, since>>,
           run' \in Call, run'.pc \in Busy, run'.batch = run.batch, run'.offset = run.offset,
           run'.total = run.total, run'.dry = run.dry,
           run'.failed = run.failed, run'.unread = run.unread,
           NEW w \in Nat, run'.migrated = run.migrated + w,
           run'.pc = "write" => run'.found = WithAnalytics(BatchIds),
           run'.pc = "single" => run'.found = WithAnalytics({Head(run.batch).id})
    PROVE  Account'
    <1>1. /\ run.pc # "none" /\ run'.pc \notin {"none", "page", "done"}
          /\ Reach \in Nat /\ Owed \in Nat /\ Len(run.batch) \in Nat
          BY OnTheWay DEF Busy
    <1>2. /\ Reach' = Reach /\ Owed' = Owed + 0 /\ BatchIds' = BatchIds
          BY <1>1 DEF Reach, Owed, BatchIds
    <1>3. Missing' = Missing /\ Handled' = Handled
          BY <1>2, MissingStays DEF Handled
    <1>4. Stale' \subseteq Stale
          BY NoneStale
    <1>5. Lost' \subseteq Lost \cup {}
          BY <1>3, <1>4 DEF Lost
    <1>6. /\ 0 \in Nat /\ Reach' \in Nat /\ Len(run'.batch) \in Nat
          /\ Len(run.batch) <= Len(run'.batch) + w + 0
          /\ Len(run.batch) + Reach' <= Len(run'.batch) + Reach + w + 0
          BY <1>1, <1>2
    <1>7. QED  BY <1>1, <1>2, <1>5, <1>6, NoneMore, RunStep

LEMMA ReadAnalyticsAccount ==
    ASSUME IInv, ReadAnalytics
    PROVE  Account'
    <1>1. /\ run.pc = "analytics" /\ run.pc \in Busy
          /\ UNCHANGED <<legacy, modern, indexed, since>>
          BY DEF ReadAnalytics, Unwritten, Busy
    <1>2. run \in Call /\ run.migrated \in Nat
          BY <1>1, OnTheWay
    <1>3. CASE run.dry
          BY <1>1, <1>3, BatchDone DEF ReadAnalytics
    <1>4. CASE ~run.dry
      <2> DEFINE found == WithAnalytics(BatchIds)
      <2>1. run' = [run EXCEPT !.pc = "write", !.found = found]
            BY <1>4 DEF ReadAnalytics
      <2>2. found \in SUBSET Ids
            BY DEF WithAnalytics, Rows
      <2> HIDE DEF found
      <2>3. /\ run' \in Call /\ run'.pc = "write" /\ run'.batch = run.batch
            /\ run'.found = found
            /\ run'.offset = run.offset /\ run'.total = run.total /\ run'.dry = run.dry
            /\ run'.failed = run.failed /\ run'.unread = run.unread
            /\ run'.migrated = run.migrated
            BY <1>2, <2>1, <2>2 DEF Call, Busy
      <2>4. run'.migrated = run.migrated + 0 /\ 0 \in Nat /\ run'.pc \in Busy
            BY <1>2, <2>3 DEF Busy
      <2>5. QED  BY <1>1, <2>3, <2>4, SameBatch DEF found
    <1>5. QED  BY <1>3, <1>4

LEMMA RetriesAccount ==
    ASSUME IInv, AnalyticsFail \/ WriteFails \/ CommitFails
    PROVE  Account'
    <1>1. run.pc \in Busy /\ UNCHANGED <<legacy, modern, indexed, since>>
          BY DEF AnalyticsFail, WriteFails, CommitFails, Unwritten, Busy
    <1>2. run \in Call /\ run.migrated \in Nat /\ Len(run.batch) \in Nat
          BY <1>1, OnTheWay DEF Busy
    <1>3. PICK w, r : w \in Nat /\ r = [run EXCEPT !.migrated = @ + w] /\ run' = RetryRows(r)
      <2>1. CASE CommitFails
            BY <1>2, <2>1 DEF CommitFails
      <2>2. CASE AnalyticsFail \/ WriteFails
        <3>1. run' = RetryRows(run)
              BY <2>2 DEF AnalyticsFail, WriteFails
        <3>2. run = [run EXCEPT !.migrated = @ + 0]
              BY <1>2 DEF Call
        <3>3. QED  BY <3>1, <3>2
      <2>3. QED  BY <2>1, <2>2
    <1>4. /\ r \in Call /\ Same(run, r) /\ r.migrated = run.migrated + w
          /\ r.failed = run.failed /\ r.unread = run.unread
          BY <1>2, <1>3, Migrates
    <1>5. /\ run' \in Call /\ run'.pc = "retry" /\ run'.batch = run.batch
          /\ run'.offset = run.offset /\ run'.total = run.total /\ run'.dry = run.dry
          /\ run'.failed = run.failed /\ run'.unread = run.unread
          /\ run'.migrated = run.migrated + w
          BY <1>3, <1>4, Retries DEF Same
    <1>6. QED  BY <1>1, <1>3, <1>5, SameBatch DEF Busy

\* A row that was just written is missing only if what was written was stale.
LEMMA Written ==
    ASSUME TypeOK, NEW batch \in Seq(Read), NEW found \in SUBSET Ids, Upsert(batch, found),
           NEW i \in Missing'
    PROVE  /\ i \in Rows /\ legacy' = legacy
           /\ i \in Missing \/ \E k \in DOMAIN batch : batch[k].id = i
           /\ (\E k \in DOMAIN batch : batch[k].id = i) =>
                \/ \E k \in DOMAIN batch : batch[k].id = i /\ batch[k].text # legacy[i].text
                \/ legacy[i].analytics /\ i \notin found
    <1>1. /\ (\E k \in DOMAIN batch : batch[k].id = i) =>
                \E k \in DOMAIN batch : batch[k].id = i /\ modern'[i] = batch[k].text
          /\ ~(\E k \in DOMAIN batch : batch[k].id = i) => modern'[i] = modern[i]
          /\ indexed' = indexed \cup found
          /\ legacy' = legacy
      <2>1. i \in Ids
            BY DEF Missing, Rows
      <2>2. QED  BY <2>1, Upserts
    <1>2. /\ i \in Rows
          /\ modern'[i] # legacy[i].text \/ (legacy[i].analytics /\ i \notin indexed')
          BY <1>1, StandsStill DEF Missing
    <1>3. QED  BY <1>1, <1>2 DEF Missing

LEMMA WriteBatchAccount ==
    ASSUME IInv, WriteBatch
    PROVE  Account'
    <1>1. /\ run.pc = "write" /\ run.pc \in Busy
          /\ Upsert(run.batch, run.found)
          /\ UNCHANGED <<legacy, since>>
          /\ run' = Advance([run EXCEPT !.migrated = @ + Len(run.batch)])
          BY DEF WriteBatch, Upsert, Busy
    <1>2. TypeOK /\ run.batch \in Seq(Read) /\ run.found \in SUBSET Ids
          BY BatchInHand DEF IInv, SInv
    <1>3. ASSUME NEW i \in Missing', Rank(i) < Reach
          PROVE  i \in Lost
      <2>1. /\ i \in Rows
            /\ i \in Missing \/ \E k \in DOMAIN run.batch : run.batch[k].id = i
            /\ (\E k \in DOMAIN run.batch : run.batch[k].id = i) =>
                \/ \E k \in DOMAIN run.batch :
                        run.batch[k].id = i /\ run.batch[k].text # legacy[i].text
                \/ legacy[i].analytics /\ i \notin run.found
            BY <1>1, <1>2, Written
      <2>2. CASE i \in BatchIds
            BY <1>1, <2>1, <2>2 DEF BatchIds, Stale, Lost
      <2>3. CASE i \notin BatchIds
            BY <1>3, <2>1, <2>3 DEF BatchIds, Handled, Lost
      <2>4. QED  BY <2>2, <2>3
    <1>4. QED  BY <1>1, <1>3, BatchDone


\* The first row of the batch is done with, and d rows more are owed.
LEMMA RowDone ==
    ASSUME IInv, run.pc \in Busy, UNCHANGED <<legacy, since>>,
           NEW r \in Call, run' = Rest(r), Same(run, r),
           NEW w \in Nat, NEW d \in Nat, w + d = 1,
           r.migrated = run.migrated + w, r.failed = run.failed + d, r.unread = run.unread,
           NEW S, IsFiniteSet(S), Cardinality(S) <= d,
           ~run.dry => \A i \in Missing' :
                            IF i = run.batch[1].id THEN i \in Stale \cup S ELSE i \in Missing
    PROVE  Account'
    <1>1. /\ run.batch # <<>> /\ run \in Call /\ r.batch = run.batch /\ run.failed \in Nat
          BY BatchInHand DEF IInv, SInv, InHand, Same
    <1>2. /\ run' \in Call /\ run'.pc \in {"page", "retry"}
          /\ run'.pc = "page" => run'.batch = <<>>
          /\ run'.total = run.total /\ run'.dry = run.dry /\ run'.migrated = run.migrated + w
          /\ Len(run'.batch) = Len(run.batch) - 1
          /\ Reach' = run.offset + BatchSize
          /\ Owed' = r.failed + BatchSize * r.unread
          /\ BatchIds \subseteq BatchIds' \cup {run.batch[1].id}
      <2>1. BatchIds = {r.batch[k].id : k \in DOMAIN r.batch}
            BY <1>1 DEF BatchIds
      <2>2. QED  BY <1>1, <2>1, AfterRest DEF Same
    <1>3. Reach' = Reach /\ Reach \in Nat /\ Owed \in Nat /\ run.unread \in Nat
          /\ Len(run.batch) \in Nat /\ run.pc # "none"
          BY <1>2, OnTheWay DEF Busy
    <1>4. Owed' = Owed + d
      <2>1. BatchSize * run.unread \in Nat
            BY <1>3, Times
      <2>2. QED  BY <1>1, <1>2, <2>1 DEF Owed
    <1>5. Rows' = Rows /\ \A i : Rank(i)' = Rank(i)
          BY StandsStill
    <1>6. Stale' \subseteq Stale
      <2>1. \A k \in DOMAIN run'.batch : \E l \in DOMAIN run.batch :
                run'.batch[k] = run.batch[l]
            BY <1>1, RestIsPart
      <2>2. QED  BY <1>2, <2>1, NoneStale
    <1>7. ~run.dry => Lost' \subseteq Lost \cup S
      <2> SUFFICES ASSUME ~run.dry, NEW i \in Missing', i \in Handled', i \notin Stale \cup S
                   PROVE  i \in Missing /\ i \in Handled
          BY <1>6 DEF Lost
      <2>1. i \in Missing /\ i # run.batch[1].id
            OBVIOUS
      <2>2. i \in Rows /\ Rank(i) < Reach /\ i \notin BatchIds'
            BY <1>3, <1>5 DEF Handled
      <2>3. QED  BY <1>2, <2>1, <2>2 DEF Handled
    <1>8. PICK l \in Nat, a \in Nat, m \in Nat :
                l = Len(run.batch) /\ a = Reach /\ m = Len(run'.batch) /\ m = l - 1
      <2>1. Len(run'.batch) \in Nat
            BY <1>2, LenProperties DEF Call
      <2>2. QED  BY <1>2, <1>3, <2>1
    <1>9. l <= m + w + d /\ l + a <= m + a + w + d
          BY <1>8
    <1>10. /\ Reach' \in Nat /\ Len(run'.batch) \in Nat
           /\ Len(run.batch) <= Len(run'.batch) + w + d
           /\ Len(run.batch) + Reach' <= Len(run'.batch) + Reach + w + d
           BY <1>3, <1>8, <1>9
    <1>11. QED  BY <1>2, <1>3, <1>4, <1>7, <1>10, RunStep

LEMMA RetryReadAccount ==
    ASSUME IInv, RetryRead
    PROVE  Account'
    <1>1. /\ run.pc = "retry" /\ run.pc \in Busy
          /\ UNCHANGED <<legacy, modern, indexed, since>>
          BY DEF RetryRead, Unwritten, Busy
    <1>2. run \in Call /\ run.migrated \in Nat /\ run.failed \in Nat
          BY BatchInHand DEF IInv, SInv
    <1>3. CASE run.dry
      <2> DEFINE r == [run EXCEPT !.migrated = @ + 1]
      <2>1. /\ r \in Call /\ Same(run, r) /\ r.migrated = run.migrated + 1
            /\ r.failed = run.failed /\ r.unread = run.unread
            BY <1>2, Migrates
      <2>2. run' = Rest(r)
            BY <1>3 DEF RetryRead
      <2> HIDE DEF r
      <2>3. 1 \in Nat /\ 0 \in Nat /\ 1 + 0 = 1 /\ r.failed = run.failed + 0
            BY <1>2, <2>1
      <2>4. QED  BY <1>1, <1>3, <2>1, <2>2, <2>3, NoneMore, RowDone
    <1>4. CASE ~run.dry
      <2> DEFINE found == WithAnalytics({Head(run.batch).id})
      <2>1. run' = [run EXCEPT !.pc = "single", !.found = found]
            BY <1>4 DEF RetryRead
      <2>2. found \in SUBSET Ids
            BY DEF WithAnalytics, Rows
      <2> HIDE DEF found
      <2>3. /\ run' \in Call /\ run'.pc = "single" /\ run'.batch = run.batch
            /\ run'.found = found
            /\ run'.offset = run.offset /\ run'.total = run.total /\ run'.dry = run.dry
            /\ run'.failed = run.failed /\ run'.unread = run.unread
            /\ run'.migrated = run.migrated
            BY <1>2, <2>1, <2>2 DEF Call, Busy
      <2>4. run'.migrated = run.migrated + 0 /\ 0 \in Nat /\ run'.pc \in Busy
            BY <1>2, <2>3 DEF Busy
      <2>5. QED  BY <1>1, <2>3, <2>4, SameBatch DEF found
    <1>5. QED  BY <1>3, <1>4

LEMMA RetryWriteAccount ==
    ASSUME IInv, RetryWrite
    PROVE  Account'
    <1> DEFINE r == [run EXCEPT !.migrated = @ + 1]
               b == run.batch[1]
    <1>1. /\ run.pc = "single" /\ run.pc \in Busy /\ TypeOK
          /\ run \in Call /\ run.batch # <<>> /\ run.failed \in Nat
          /\ 1 \in DOMAIN run.batch /\ Head(run.batch) = b /\ b \in Read
          /\ run.found \in SUBSET Ids
          BY BatchInHand DEF RetryWrite, IInv, SInv, InHand, Busy
    <1>2. /\ r \in Call /\ Same(run, r) /\ r.migrated = run.migrated + 1
          /\ r.failed = run.failed /\ r.unread = run.unread
          BY <1>1, Migrates
    <1>3. run' = Rest(r) /\ Upsert(<<b>>, run.found) /\ UNCHANGED <<legacy, since>>
          BY <1>1 DEF RetryWrite, Upsert
    <1>4. b.id \in BatchIds /\ \E k \in DOMAIN run.batch : run.batch[k] = b
          BY <1>1 DEF BatchIds
    <1> HIDE DEF r, b
    <1>5. <<b>> \in Seq(Read) /\ DOMAIN <<b>> = {1} /\ <<b>>[1] = b
          BY <1>1, OneRow
    <1> DEFINE c == <<b>>
    <1>6. ASSUME NEW i \in Missing'
          PROVE  IF i = b.id THEN i \in Stale ELSE i \in Missing
      <2>0. c \in Seq(Read) /\ Upsert(c, run.found)
            BY <1>3, <1>5
      <2> HIDE DEF c
      <2>1. /\ i \in Rows
            /\ i \in Missing \/ \E k \in DOMAIN c : c[k].id = i
            /\ (\E k \in DOMAIN c : c[k].id = i) =>
                \/ \E k \in DOMAIN c : c[k].id = i /\ c[k].text # legacy[i].text
                \/ legacy[i].analytics /\ i \notin run.found
            BY <1>1, <2>0, Written
      <2>2. /\ i # b.id => i \in Missing
            /\ i = b.id => b.text # legacy[i].text \/ (legacy[i].analytics /\ i \notin run.found)
            BY <1>5, <2>1 DEF c
      <2>3. CASE i = b.id
            BY <1>1, <1>4, <2>1, <2>2, <2>3 DEF Stale
      <2>4. QED  BY <2>2, <2>3
    <1>7. \A i \in Missing' :
                IF i = run.batch[1].id THEN i \in Stale \cup {} ELSE i \in Missing
          BY <1>6 DEF b
    <1>8. 1 \in Nat /\ 0 \in Nat /\ 1 + 0 = 1 /\ r.failed = run.failed + 0
          BY <1>1, <1>2
    <1>9. QED  BY <1>1, <1>2, <1>3, <1>7, <1>8, NoneMore, RowDone

LEMMA RetryFailsAccount ==
    ASSUME IInv, RetryFails
    PROVE  Account'
    <1> DEFINE r == [run EXCEPT !.failed = @ + 1]
               h == run.batch[1].id
    <1>1. /\ run.pc \in Busy /\ run \in Call /\ run.migrated \in Nat
          /\ UNCHANGED <<legacy, modern, indexed, since>>
          BY BatchInHand DEF RetryFails, IInv, SInv, Unwritten, Busy
    <1>2. /\ r \in Call /\ Same(run, r) /\ r.migrated = run.migrated
          /\ r.failed = run.failed + 1 /\ r.unread = run.unread
          BY <1>1, Fails
    <1>3. run' = Rest(r)
          BY DEF RetryFails
    <1> HIDE DEF r
    <1>4. Missing' = Missing
          BY <1>1, MissingStays
    <1> HIDE DEF h
    <1>5. IsFiniteSet({h}) /\ Cardinality({h}) <= 1
          BY OneMore
    <1>6. \A i \in Missing' :
                IF i = run.batch[1].id THEN i \in Stale \cup {h} ELSE i \in Missing
          BY <1>4 DEF h
    <1>7. 1 \in Nat /\ 0 \in Nat /\ 0 + 1 = 1 /\ r.migrated = run.migrated + 0
          BY <1>1, <1>2
    <1>8. QED  BY <1>1, <1>2, <1>3, <1>5, <1>6, <1>7, RowDone

LEMMA KillAccount ==
    ASSUME IInv, Kill
    PROVE  Account'
    <1>1. run \in Call /\ run' = [run EXCEPT !.pc = "none", !.batch = <<>>, !.found = {}]
          BY DEF Kill, IInv, SInv, TypeOK
    <1>2. run'.pc = "none"
          BY <1>1 DEF Call
    <1>3. QED  BY <1>2 DEF Account, Totals, LostArePaid, Counted

LEMMA StillAccount ==
    ASSUME IInv, UNCHANGED vars
    PROVE  Account'
    <1>1. /\ Missing' = Missing /\ Rows' = Rows /\ \A i : Rank(i)' = Rank(i)
          BY MissingStays DEF vars
    <1>2. /\ Reach' = Reach /\ Owed' = Owed /\ BatchIds' = BatchIds
          /\ UNCHANGED <<run, since, legacy>>
          BY DEF vars, Reach, Owed, BatchIds
    <1>3. Stale' = Stale /\ Handled' = Handled
          BY <1>1, <1>2 DEF Handled, Stale
    <1>4. Lost' = Lost
          BY <1>1, <1>3 DEF Lost
    <1>5. QED  BY <1>1, <1>2, <1>4 DEF IInv, Account, Totals, LostArePaid, Counted

\* What a write of the legacy program does to the rows and their ranks: a rank
\* falls by at most one, and only when a row is deleted.
LEMMA RowsMove ==
    ASSUME TypeOK, NEW i \in Ids, NEW row \in Transcript \cup {Absent}, LegacyWrite(i, row)
    PROVE  /\ \A j \in Ids : j # i => legacy'[j] = legacy[j] /\ (j \in Rows' <=> j \in Rows)
           /\ row = Absent => Rows' = Rows \ {i} /\ i \in Rows
           /\ row # Absent => Rows' = Rows \cup {i}
           /\ \/ Cardinality(Rows') = Cardinality(Rows)
              \/ Cardinality(Rows') = Cardinality(Rows) + 1
              \/ Cardinality(Rows') = Cardinality(Rows) - 1
    <1>1. legacy' = [legacy EXCEPT ![i] = row] /\ row # legacy[i] /\ DOMAIN legacy = Ids
          BY DEF LegacyWrite, TypeOK
    <1>2. /\ \A j \in Ids : j # i => legacy'[j] = legacy[j]
          /\ legacy'[i] = row
          BY <1>1
    <1>3. \A j \in Ids : j # i => (j \in Rows' <=> j \in Rows)
          BY <1>2 DEF Rows
    <1>4. Rows \subseteq Ids /\ Rows' \subseteq Ids
          BY DEF Rows
    <1>5. row = Absent => Rows' = Rows \ {i} /\ i \in Rows
      <2>1. row = Absent => i \notin Rows' /\ i \in Rows
            BY <1>1, <1>2 DEF Rows
      <2>2. QED  BY <1>3, <1>4, <2>1
    <1>6. row # Absent => Rows' = Rows \cup {i}
      <2>1. row # Absent => i \in Rows'
            BY <1>2 DEF Rows
      <2>2. QED  BY <1>3, <1>4, <2>1
    <1>7. CASE row = Absent
          BY <1>2, <1>3, <1>5, <1>7, RowsFinite, FS_RemoveElement
    <1>8. CASE row # Absent /\ i \in Rows
      <2>1. Rows' = Rows
            BY <1>6, <1>8
      <2>2. QED  BY <1>2, <1>3, <1>6, <1>8, <2>1
    <1>9. CASE row # Absent /\ i \notin Rows
          BY <1>2, <1>3, <1>6, <1>9, RowsFinite, FS_AddElement
    <1>10. QED  BY <1>7, <1>8, <1>9

LEMMA RanksMove ==
    ASSUME TypeOK, NEW i \in Ids, NEW row \in Transcript \cup {Absent}, LegacyWrite(i, row),
           NEW j \in Rows
    PROVE  /\ Rank(j) \in Nat /\ Rank(j)' \in Nat
           /\ Rank(j) <= Rank(j)' + 1
           /\ row # Absent => Rank(j) <= Rank(j)'
    <1> DEFINE B == {k \in Rows : k < j}
               C == {k \in Rows' : k < j}
    <1>1. /\ row = Absent => Rows' = Rows \ {i}
          /\ row # Absent => Rows' = Rows \cup {i}
          BY RowsMove
    <1>2. Rank(j) = Cardinality(B) /\ Rank(j)' = Cardinality(C)
          BY DEF Rank
    <1>3. B \subseteq C \cup {i} /\ (row # Absent => B \subseteq C) /\ C \subseteq Rows \cup {i}
          BY <1>1
    <1> HIDE DEF B, C
    <1>4. IsFiniteSet(Rows \cup {i})
          BY RowsFinite, FS_AddElement
    <1>5. IsFiniteSet(C) /\ Cardinality(C) \in Nat
          BY <1>3, <1>4, FS_Subset, FS_CardinalityType
    <1>6. /\ Cardinality(B) \in Nat /\ Cardinality(B) <= Cardinality(C) + 1
      <2>1. IsFiniteSet({i}) /\ Cardinality({i}) <= 1 /\ 1 \in Nat
            BY OneMore
      <2>2. QED  BY <1>3, <1>5, <2>1, FewMore
    <1>7. row # Absent => Cardinality(B) <= Cardinality(C)
          BY <1>3, <1>5, FS_Subset
    <1>8. QED  BY <1>2, <1>5, <1>6, <1>7

\* A write of the legacy program costs the run at most one of the rows that it
\* has dealt with or has in hand: the row that is written or, when a row is
\* deleted, the one that takes the last rank within reach.
LEMMA LegacyWriteAccount ==
    ASSUME IInv, NEW i \in Ids, NEW row \in Transcript \cup {Absent}, LegacyWrite(i, row)
    PROVE  Account'
    <1>1. /\ since' = since + 1 /\ UNCHANGED <<modern, indexed, run>>
          /\ TypeOK
          BY DEF LegacyWrite, IInv, SInv
    <1>2. /\ \A j \in Ids : j # i => legacy'[j] = legacy[j] /\ (j \in Rows' <=> j \in Rows)
          /\ row = Absent => Rows' = Rows \ {i}
          /\ row # Absent => Rows' = Rows \cup {i}
          /\ \/ Cardinality(Rows') = Cardinality(Rows)
             \/ Cardinality(Rows') = Cardinality(Rows) + 1
             \/ Cardinality(Rows') = Cardinality(Rows) - 1
          BY <1>1, RowsMove
    <1>3. Reach' = Reach /\ Owed' = Owed /\ BatchIds' = BatchIds
          BY <1>1 DEF Reach, Owed, BatchIds
    <1>4. CASE run.pc = "none"
          BY <1>1, <1>4 DEF Account, Totals, LostArePaid, Counted
    <1>5. CASE run.pc # "none"
      <2>1. /\ Cardinality(Rows) \in Nat /\ since \in Nat /\ run.total \in Nat
            /\ run.offset \in Nat /\ run.migrated \in Nat /\ Owed \in Nat /\ Reach \in Nat
            /\ Len(run.batch) \in Nat
            BY <1>5, OnTheWay
      <2>2. Totals'
        <3>1. Totals
              BY DEF IInv, Account
        <3>2. PICK c \in Nat, s \in Nat, t \in Nat, o \in Nat :
                /\ c = Cardinality(Rows) /\ s = since /\ t = run.total /\ o = run.offset
              BY <2>1
        <3>3. PICK e \in {c, c + 1, c - 1} : e = Cardinality(Rows')
              BY <1>2, <3>2
        <3>4. c <= t + s /\ t <= c + s => e <= t + (s + 1) /\ t <= e + (s + 1)
              BY <3>3
        <3>5. c <= o + s /\ t <= o + s => e <= o + (s + 1) /\ t <= o + (s + 1)
              BY <3>3
        <3>6. since' = s + 1 /\ run' = run
              BY <1>1, <3>2
        <3>7. QED  BY <1>5, <3>1, <3>2, <3>3, <3>4, <3>5, <3>6 DEF Totals
      <2>3. Counted'
        <3>1. Counted
              BY DEF IInv, Account
        <3>2. PICK x \in Nat, s \in Nat, t \in Nat :
                    x = run.migrated + Owed + Len(run.batch) /\ s = since /\ t = run.total
          <4>1. run.migrated + Owed + Len(run.batch) \in Nat
                BY <2>1
          <4>2. QED  BY <2>1, <4>1
        <3>3. t <= x + s => t <= x + (s + 1)
              OBVIOUS
        <3>4. /\ run'.migrated + Owed' + Len(run'.batch) = x /\ since' = s + 1
              /\ run'.total = t /\ run'.pc = run.pc
              BY <1>1, <1>3, <3>2
        <3>5. t <= x + s \/ Reach <= x
              BY <1>5, <3>1, <3>2 DEF Counted
        <3>6. t <= x + since' \/ Reach' <= x
              BY <1>3, <3>3, <3>4, <3>5
        <3>7. QED  BY <3>4, <3>6 DEF Counted
      <2>4. LostArePaid'
        <3> SUFFICES ASSUME ~run.dry PROVE Cardinality(Lost)' <= Owed' + since'
            BY <1>1 DEF LostArePaid
        <3> DEFINE S == IF row = Absent
                        THEN {j \in Rows : Rank(j) \in Reach .. Reach + 1 - 1} ELSE {i}
        <3>1. IsFiniteSet(S) /\ Cardinality(S) <= 1 /\ 1 \in Nat
          <4>1. CASE row = Absent
                BY <2>1, <4>1, RankSlots
          <4>2. CASE row # Absent
                BY <4>2, OneMore
          <4>3. QED  BY <4>1, <4>2
        <3>2. Lost' \subseteq Lost \cup S
          <4> SUFFICES ASSUME NEW j \in Lost', j \notin S PROVE j \in Lost
              OBVIOUS
          <4>1. j \in Rows' /\ j \in Ids
                BY DEF Lost, Missing, Stale, Rows
          <4>2. j # i
                BY <1>2, <4>1
          <4>3. j \in Rows /\ legacy'[j] = legacy[j]
                BY <1>2, <4>1, <4>2
          <4>4. CASE j \in Stale'
            <5>1. j \in Stale
                  BY <1>1, <1>3, <4>3, <4>4 DEF Stale
            <5>2. QED  BY <5>1 DEF Lost
          <4>5. CASE j \in Missing' /\ j \in Handled'
            <5>1. j \in Missing
                  BY <1>1, <4>3, <4>5 DEF Missing
            <5>2. Rank(j)' < Reach /\ j \notin BatchIds
                  BY <1>3, <4>5 DEF Handled
            <5>3. /\ Rank(j) \in Nat /\ Rank(j)' \in Nat /\ Rank(j) <= Rank(j)' + 1
                  /\ row # Absent => Rank(j) <= Rank(j)'
                  BY <1>1, <4>3, RanksMove
            <5>4. row = Absent => Rank(j) # Reach
                  BY <2>1, <4>3, <5>3
            <5>5. Rank(j) < Reach
                  BY <2>1, <5>2, <5>3, <5>4
            <5>6. QED  BY <4>3, <5>1, <5>2, <5>5 DEF Handled, Lost
          <4>6. QED  BY <4>4, <4>5 DEF Lost
        <3> HIDE DEF S
        <3>3. /\ Cardinality(Lost') \in Nat /\ Cardinality(Lost) \in Nat
              /\ Cardinality(Lost') <= Cardinality(Lost) + 1
              BY <3>1, <3>2, LostFinite, FewMore
        <3>4. Cardinality(Lost) <= Owed + since
              BY <1>5, OnTheWay
        <3>5. PICK a \in Nat, b \in Nat : a = Cardinality(Lost') /\ b = Cardinality(Lost)
              BY <3>3
        <3>6. a <= Owed + (since + 1)
              BY <2>1, <3>3, <3>4, <3>5
        <3>7. QED  BY <1>1, <1>3, <3>5, <3>6
      <2>5. QED  BY <2>2, <2>3, <2>4 DEF Account
    <1>6. QED  BY <1>4, <1>5

LEMMA InitIInv == Init => IInv
    <1> SUFFICES ASSUME Init PROVE IInv
        OBVIOUS
    <1>1. run.pc = "none"
          BY DEF Init
    <1>2. Account
          BY <1>1 DEF Account, Totals, LostArePaid, Counted
    <1>3. QED  BY <1>2, InitSInv DEF IInv

LEMMA NextIInv == IInv /\ [Next]_vars => IInv'
    <1> SUFFICES ASSUME IInv, [Next]_vars PROVE IInv'
        OBVIOUS
    <1>1. SInv'
          BY NextSInv DEF IInv
    <1>2. ASSUME Step PROVE Account'
          BY <1>2, ReadPageAccount, ReadFailsAccount, FinishAccount, ReadAnalyticsAccount,
             RetriesAccount, WriteBatchAccount, RetryReadAccount, RetryWriteAccount,
             RetryFailsAccount DEF Step
    <1>3. ASSUME NEW i \in Ids, NEW row \in Transcript \cup {Absent}, LegacyWrite(i, row)
          PROVE  Account'
          BY <1>3, LegacyWriteAccount
    <1>4. Account'
          BY <1>2, <1>3, StartAccount, KillAccount, StillAccount DEF Next
    <1>5. QED  BY <1>1, <1>4 DEF IInv

-----------------------------------------------------------------------------
(* The inductive invariant of a migration: what a batch in hand is made    *)
(* of, and that the rows a run has behind it are in the modern database    *)
(* but for those that were counted as failed, that lie on pages it could   *)
(* not read, or that the legacy program has written meanwhile.             *)
THEOREM MigrationInvariant == Spec => []IInv
    BY InitIInv, NextIInv, PTL DEF Spec

(* What the modern database holds is what the legacy row of that id was at *)
(* some time, through retries, crashes, reruns and concurrent writes.      *)
THEOREM TargetIsFromSource == Spec => []TargetFromSource
    <1>1. IInv => TargetFromSource
          BY DEF IInv, SInv
    <1>2. QED  BY <1>1, MigrationInvariant, PTL

(* A run that is over has counted every row of the source as migrated or   *)
(* failed, tells of a page that could not be read, or ran while as many    *)
(* rows were written by the legacy program.                                *)
THEOREM CountersCoverTheRows == Spec => []CountersCover
    <1>1. IInv => CountersCover
      <2> SUFFICES ASSUME IInv, run.pc = "done"
                   PROVE  run.total <= run.migrated + run.failed + BatchSize * run.unread + since
          BY DEF CountersCover
      <2>1. PICK m \in Nat, f \in Nat, u \in Nat, s \in Nat, t \in Nat, o \in Nat :
                /\ m = run.migrated /\ f = run.failed /\ u = BatchSize * run.unread
                /\ s = since /\ t = run.total /\ o = run.offset
        <3>1. run.unread \in Nat
              BY OnTheWay
        <3>2. BatchSize * run.unread \in Nat
              BY <3>1, Times
        <3>3. QED  BY <3>2, OnTheWay
      <2>2. t <= m + (f + u) + 0 + s \/ o <= m + (f + u) + 0
            BY <2>1, OnTheWay DEF Owed
      <2>3. t <= o + s
            BY <2>1 DEF IInv, Account, Totals
      <2>4. t <= m + f + u + s
            BY <2>2, <2>3
      <2>5. QED  BY <2>1, <2>4
    <1>2. QED  BY <1>1, MigrationInvariant, PTL

\* When a run is over, what is missing was lost, or lies behind its last page,
\* where only the legacy program can have put it.
LEMMA MissingWhenDone ==
    ASSUME IInv, run.pc = "done", ~run.dry
    PROVE  Cardinality(Missing) <= Owed + since + since
    <1> DEFINE n == Cardinality(Rows)
               S == {i \in Rows : Rank(i) \in run.offset .. run.offset + since - 1}
    <1>1. /\ run.offset \in Nat /\ since \in Nat /\ Owed \in Nat /\ n \in Nat
          /\ Reach = run.offset /\ run.batch = <<>>
          /\ Cardinality(Lost) <= Owed + since
          BY OnTheWay
    <1>2. n <= run.offset + since
          BY DEF IInv, Account, Totals
    <1>3. IsFiniteSet(S) /\ Cardinality(S) <= since
          BY <1>1, RankSlots
    <1>4. Missing \subseteq Lost \cup S
      <2> SUFFICES ASSUME NEW i \in Missing, i \notin S PROVE i \in Lost
          OBVIOUS
      <2>1. i \in Rows
            BY DEF Missing
      <2>2. Rank(i) \in 0 .. n - 1
            BY <2>1, RankBounds
      <2> HIDE DEF n
      <2>3. Rank(i) \notin run.offset .. run.offset + since - 1
            BY <2>1
      <2>4. Rank(i) < run.offset
            BY <1>1, <1>2, <2>2, <2>3
      <2>5. QED  BY <1>1, <2>1, <2>4, EmptyHandsHoldNoneStale
    <1> HIDE DEF n, S
    <1>5. /\ Cardinality(Missing) \in Nat /\ Cardinality(Lost) \in Nat
          /\ Cardinality(Missing) <= Cardinality(Lost) + since
          BY <1>1, <1>3, <1>4, LostFinite, FewMore
    <1>6. PICK a \in Nat, b \in Nat : a = Cardinality(Missing) /\ b = Cardinality(Lost)
          BY <1>5
    <1>7. a <= Owed + since + since
          BY <1>1, <1>5, <1>6
    <1>8. QED  BY <1>6, <1>7

(* After a run, no more rows are missing than were counted as failed, lie  *)
(* on pages that could not be read, or were written meanwhile, two for     *)
(* every write; when it exits with 0 and without such a page over a        *)
(* database at rest, nothing is missing.                                   *)
THEOREM MissingRowsAreReported == Spec => []MissingAreReported
    <1>1. IInv => MissingAreReported
      <2> SUFFICES ASSUME IInv, run.pc = "done", ~run.dry
                   PROVE  /\ Cardinality(Missing) <= run.failed + BatchSize * run.unread + 2 * since
                          /\ ExitCode(run) = 0 /\ run.unread = 0 /\ since = 0 => Missing = {}
          BY DEF MissingAreReported
      <2>1. Cardinality(Missing) <= Owed + since + since
            BY MissingWhenDone
      <2>2. PICK c \in Nat, f \in Nat, u \in Nat, s \in Nat :
                /\ c = Cardinality(Missing) /\ f = run.failed
                /\ u = BatchSize * run.unread /\ s = since
        <3>1. run.unread \in Nat /\ run.failed \in Nat /\ since \in Nat
              BY OnTheWay
        <3>2. BatchSize * run.unread \in Nat
              BY <3>1, Times
        <3>3. QED  BY <3>1, <3>2, LostFinite
      <2>3. c <= f + u + s + s
            BY <2>1, <2>2 DEF Owed
      <2>4. c <= f + u + 2 * s
            BY <2>3
      <2>5. ASSUME ExitCode(run) = 0, run.unread = 0, since = 0 PROVE Missing = {}
        <3>1. f = 0
              BY <2>2, <2>5 DEF ExitCode
        <3>2. u = 0 /\ s = 0
              BY <2>2, <2>5, Times
        <3>3. Cardinality(Missing) = 0
              BY <2>2, <2>3, <3>1, <3>2
        <3>4. QED  BY <3>3, LostFinite, FS_EmptySet
      <2>6. QED  BY <2>2, <2>4, <2>5
    <1>2. QED  BY <1>1, MigrationInvariant, PTL

-----------------------------------------------------------------------------
(* The migration as whoever reads its result sees it. *)

\* Only a run that is not dry is ever about to write.
DryReads == run.pc \in {"write", "single"} => ~run.dry

LEMMA NextDryReads == SInv /\ DryReads /\ [Next]_vars => DryReads'
    <1> SUFFICES ASSUME SInv, DryReads, [Next]_vars PROVE DryReads'
        OBVIOUS
    <1>1. run \in Call /\ run.batch \in Seq(Read) /\ Len(run.batch) \in Nat
          BY BatchInHand DEF SInv
    <1>2. \A n \in Nat : [run EXCEPT !.migrated = @ + n] \in Call
          BY <1>1, Migrates
    <1>3. [run EXCEPT !.failed = @ + 1] \in Call /\ [run EXCEPT !.unread = @ + 1] \in Call
          BY <1>1, Fails, Unreads
    <1>4. \A r \in Call : run' = Advance(r) \/ run' = RetryRows(r) => DryReads'
          BY Advances, Retries DEF DryReads
    <1>5. \A r \in Call : r.batch # <<>> /\ run' = Rest(r) => DryReads'
      <2> SUFFICES ASSUME NEW r \in Call, r.batch # <<>>, run' = Rest(r) PROVE DryReads'
          OBVIOUS
      <2>1. run'.pc \in {"page", "retry"}
            BY RestIsPart
      <2>2. QED  BY <2>1 DEF DryReads
    <1>6. ASSUME NEW dry \in BOOLEAN, Start(dry) PROVE DryReads'
      <2>1. run'.pc \in {"page", "done"}
            BY <1>6 DEF Start
      <2>2. QED  BY <2>1 DEF DryReads
    <1>7. CASE ReadPage \/ Finish
      <2>1. run'.pc \notin {"write", "single"}
        <3> DEFINE b == TranscriptsOf(Page(run.offset))
        <3>1. CASE Finish
              BY <1>1, <3>1 DEF Finish, Call
        <3>2. CASE ReadPage
          <4>1. run' = IF b = <<>> THEN [run EXCEPT !.pc = "done"]
                       ELSE [run EXCEPT !.pc = "analytics", !.batch = b]
                BY <3>2 DEF ReadPage
          <4> HIDE DEF b
          <4>2. QED  BY <1>1, <4>1 DEF Call
        <3>3. QED  BY <1>7, <3>1, <3>2
      <2>2. QED  BY <2>1 DEF DryReads
    <1>8. CASE ReadFails
          BY <1>3, <1>4, <1>8 DEF ReadFails
    <1>9. CASE ReadAnalytics
      <2>1. CASE run.dry
            BY <1>1, <1>2, <1>4, <1>9, <2>1 DEF ReadAnalytics
      <2>2. CASE ~run.dry
        <3>1. run' = [run EXCEPT !.pc = "write", !.found = WithAnalytics(BatchIds)]
              BY <1>9, <2>2 DEF ReadAnalytics
        <3>2. run'.dry = run.dry
              BY <1>1, <3>1 DEF Call
        <3>3. QED  BY <2>2, <3>2 DEF DryReads
      <2>3. QED  BY <2>1, <2>2
    <1>10. CASE AnalyticsFail \/ WriteFails
           BY <1>1, <1>4, <1>10 DEF AnalyticsFail, WriteFails
    <1>11. CASE CommitFails
           BY <1>1, <1>2, <1>4, <1>11 DEF CommitFails
    <1>12. CASE WriteBatch
           BY <1>1, <1>2, <1>4, <1>12 DEF WriteBatch
    <1>13. CASE RetryRead /\ ~run.dry
      <2>1. run' = [run EXCEPT !.pc = "single", !.found = WithAnalytics({Head(run.batch).id})]
            BY <1>13 DEF RetryRead
      <2>2. run'.dry = run.dry
            BY <1>1, <2>1 DEF Call
      <2>3. QED  BY <1>13, <2>2 DEF DryReads
    <1>14. CASE (RetryRead /\ run.dry) \/ RetryWrite \/ RetryFails
      <2>1. run.batch # <<>>
            BY <1>14 DEF RetryRead, RetryWrite, RetryFails, SInv, InHand, Busy
      <2>2. PICK r \in Call : r.batch = run.batch /\ run' = Rest(r)
        <3>1. CASE RetryFails
              BY <1>1, <3>1, Fails DEF RetryFails, Same
        <3>2. CASE (RetryRead /\ run.dry) \/ RetryWrite
              BY <1>1, <3>2, Migrates DEF RetryRead, RetryWrite, Same
        <3>3. QED  BY <1>14, <3>1, <3>2
      <2>3. QED  BY <1>5, <2>1, <2>2
    <1>15. CASE Kill
      <2>1. run'.pc = "none"
            BY <1>1, <1>15 DEF Kill, Call
      <2>2. QED  BY <2>1 DEF DryReads
    <1>16. CASE UNCHANGED vars
           BY <1>16 DEF vars, DryReads
    <1>17. ASSUME NEW i \in Ids, NEW row \in Transcript \cup {Absent}, LegacyWrite(i, row)
           PROVE  DryReads'
           BY <1>17 DEF LegacyWrite, DryReads
    <1>18. CASE Step
           BY <1>7, <1>8, <1>9, <1>10, <1>11, <1>12, <1>13, <1>14, <1>18 DEF Step
    <1>19. QED  BY <1>6, <1>15, <1>16, <1>17, <1>18 DEF Next

Clean == ~run.dry /\ ExitCode(run) = 0 /\ run.unread = 0 /\ since = 0

LEMMA Reports ==
    /\ run.pc = "none" => Report = "none"
    /\ run.pc = "done" => Report = IF Clean THEN "clean" ELSE "open"
    /\ run.pc \in {"page"} \cup Busy => Report = IF run.dry THEN "dry" ELSE "writing"
    BY DEF Report, Clean, Busy

LEMMA ReportsNext ==
    /\ run'.pc = "none" => Report' = "none"
    /\ run'.pc = "done" => Report' = IF Clean' THEN "clean" ELSE "open"
    /\ run'.pc \in {"page"} \cup Busy => Report' = IF run'.dry THEN "dry" ELSE "writing"
    BY DEF Report, Clean, Busy

\* A step that leaves the databases alone: a run begins, goes on, returns with
\* the report that its counters allow, or is killed.
LEMMA QuietStep ==
    ASSUME TypeOK, TypeOK', MissingAreReported', UNCHANGED <<legacy, modern, indexed, was>>,
           \/ run'.pc \in {"none", "done"}
           \/ run.pc \in {"none", "done"}
           \/ run'.dry = run.dry
    PROVE  [Target!Next]_(Target!state)
    <1>1. /\ run.pc \in {"none", "page", "done"} \cup Busy /\ run.dry \in BOOLEAN
          /\ run'.pc \in {"none", "page", "done"} \cup Busy /\ run'.dry \in BOOLEAN
          BY DEF TypeOK, Call
    <1>2. /\ Report \in {"none", "dry", "writing", "clean", "open"}
          /\ run.pc \in {"none", "done"} => Report \in {"none", "clean", "open"}
          BY <1>1, Reports
    <1>3. CASE run'.pc \in {"none", "done"}
      <2>1. Report' \in {"none", "clean", "open"} /\ (Report' = "clean" => run'.pc = "done" /\ Clean')
            BY <1>3, ReportsNext
      <2>2. ASSUME Report' = "clean" PROVE Target!Left = {}
        <3>1. Missing' = {}
              BY <2>1, <2>2 DEF MissingAreReported, Clean
        <3>2. Missing = {}
              BY <3>1, MissingStays
        <3>3. Target!Left = Missing
              BY DEF Target!Left, Missing, Rows
        <3>4. QED  BY <3>2, <3>3
      <2>3. Target!Return
            BY <1>2, <2>1, <2>2 DEF Target!Return
      <2>4. QED  BY <2>3 DEF Target!Next
    <1>4. CASE run'.pc \notin {"none", "done"} /\ run.pc \in {"none", "done"}
      <2>1. Report' \in {"dry", "writing"}
            BY <1>1, <1>4, ReportsNext
      <2>2. Target!Begin
            BY <1>2, <1>4, <2>1 DEF Target!Begin
      <2>3. QED  BY <2>2 DEF Target!Next
    <1>5. CASE run'.pc \notin {"none", "done"} /\ run.pc \notin {"none", "done"}
      <2>1. Report' = Report
            BY <1>1, <1>5, Reports, ReportsNext
      <2>2. QED  BY <2>1 DEF Target!state
    <1>6. QED  BY <1>3, <1>4, <1>5

\* A transaction moves rows.
LEMMA MovingStep ==
    ASSUME SInv, SInv', DryReads, run.pc \in {"write", "single"},
           run'.pc \in {"page"} \cup Busy, run'.dry = run.dry,
           NEW batch \in Seq(Read), NEW found \in SUBSET Ids, Upsert(batch, found)
    PROVE  Target!Move
    <1>1. Report = "writing" /\ Report' = "writing"
          BY Reports, ReportsNext DEF DryReads, Busy
    <1>2. /\ modern' \in [Ids -> Texts \cup {Absent}]
          /\ \A i \in Ids : (\E k \in DOMAIN batch : batch[k].id = i) =>
                \E k \in DOMAIN batch : batch[k].id = i /\ modern'[i] = batch[k].text
          /\ \A i \in Ids : ~(\E k \in DOMAIN batch : batch[k].id = i) =>
                modern'[i] = modern[i]
          /\ indexed' = indexed \cup found /\ indexed' \in SUBSET Ids
          /\ UNCHANGED <<legacy, was>>
          BY Upserts DEF SInv
    <1>3. \A i \in Ids : /\ modern'[i] # Absent => \E t \in was[i] : t.text = modern'[i]
                         /\ i \in indexed' => modern'[i] # Absent /\ \E t \in was[i] : t.analytics
          BY <1>2 DEF SInv, TargetFromSource
    <1>4. ASSUME NEW i \in Ids
          PROVE  modern'[i] = modern[i] \/ \E t \in was[i] : modern'[i] = t.text
      <2>1. CASE \E k \in DOMAIN batch : batch[k].id = i
        <3>1. PICK k \in DOMAIN batch : modern'[i] = batch[k].text
              BY <1>2, <2>1
        <3>2. batch[k] \in Read
              BY LenProperties, ElementOfSeq
        <3>3. modern'[i] # Absent
              BY <3>1, <3>2, MigrationAssumption DEF Read
        <3>4. QED  BY <1>3, <3>3
      <2>2. CASE ~\E k \in DOMAIN batch : batch[k].id = i
            BY <1>2, <2>2
      <2>3. QED  BY <2>1, <2>2
    <1>5. DOMAIN modern' = Ids
          BY <1>2
    <1>6. QED  BY <1>1, <1>2, <1>3, <1>4, <1>5 DEF Target!Move

LEMMA ChangeStep ==
    ASSUME TypeOK, NEW i \in Ids, NEW row \in Transcript \cup {Absent}, LegacyWrite(i, row)
    PROVE  Target!Change
    <1>1. /\ legacy' = [legacy EXCEPT ![i] = row]
          /\ was' = [was EXCEPT ![i] = @ \cup ({row} \ {Absent})]
          /\ since' = since + 1 /\ UNCHANGED <<modern, indexed, run>>
          BY DEF LegacyWrite
    <1>2. run.pc \in {"none", "page", "done"} \cup Busy /\ since' # 0
          BY <1>1 DEF TypeOK, Call
    <1>3. Report' = IF Report = "clean" THEN "open" ELSE Report
      <2>1. CASE run.pc = "done"
        <3>1. Report' = "open"
              BY <1>1, <1>2, <2>1, ReportsNext DEF Clean
        <3>2. Report \in {"clean", "open"}
              BY <2>1, Reports
        <3>3. QED  BY <3>1, <3>2
      <2>2. CASE run.pc # "done"
            BY <1>1, <1>2, <2>2, Reports, ReportsNext
      <2>3. QED  BY <2>1, <2>2
    <1>4. QED  BY <1>1, <1>3 DEF Target!Change

\* A step of execute() leaves the flag of the run alone.
LEMMA SameRun ==
    ASSUME SInv, Step
    PROVE  run'.dry = run.dry
    <1>1. run \in Call /\ Len(run.batch) \in Nat
          BY BatchInHand DEF SInv
    <1>2. CASE ReadPage \/ Finish
      <2> DEFINE b == TranscriptsOf(Page(run.offset))
      <2>1. \/ run' = [run EXCEPT !.pc = "done"]
            \/ run' = [run EXCEPT !.pc = "analytics", !.batch = b]
            BY <1>2 DEF ReadPage, Finish
      <2> HIDE DEF b
      <2>2. QED  BY <1>1, <2>1 DEF Call
    <1>3. CASE ReadFails
          BY <1>1, <1>3, Unreads, Advances DEF ReadFails, Same
    <1>4. CASE ReadAnalytics
      <2>1. CASE run.dry
        <3> DEFINE r == [run EXCEPT !.migrated = @ + Len(run.batch)]
        <3>1. r \in Call /\ r.dry = run.dry
              BY <1>1, Migrates DEF Same
        <3>2. run' = Advance(r)
              BY <1>4, <2>1 DEF ReadAnalytics
        <3> HIDE DEF r
        <3>3. QED  BY <3>1, <3>2, Advances
      <2>2. CASE ~run.dry
        <3>1. run' = [run EXCEPT !.pc = "write", !.found = WithAnalytics(BatchIds)]
              BY <1>4, <2>2 DEF ReadAnalytics
        <3>2. QED  BY <1>1, <3>1 DEF Call
      <2>3. QED  BY <2>1, <2>2
    <1>5. CASE AnalyticsFail \/ WriteFails
          BY <1>1, <1>5, Retries DEF AnalyticsFail, WriteFails
    <1>6. CASE CommitFails
          BY <1>1, <1>6, Migrates, Retries DEF CommitFails, Same
    <1>7. CASE WriteBatch
          BY <1>1, <1>7, Migrates, Advances DEF WriteBatch, Same
    <1>8. CASE RetryRead /\ ~run.dry
      <2>1. run' = [run EXCEPT !.pc = "single", !.found = WithAnalytics({Head(run.batch).id})]
            BY <1>8 DEF RetryRead
      <2>2. QED  BY <1>1, <2>1 DEF Call
    <1>9. CASE (RetryRead /\ run.dry) \/ RetryWrite \/ RetryFails
      <2>1. run.batch # <<>>
            BY <1>9 DEF RetryRead, RetryWrite, RetryFails, SInv, InHand, Busy
      <2>2. PICK r \in Call : r.batch = run.batch /\ r.dry = run.dry /\ run' = Rest(r)
        <3>1. CASE RetryFails
              BY <1>1, <3>1, Fails DEF RetryFails, Same
        <3>2. CASE (RetryRead /\ run.dry) \/ RetryWrite
              BY <1>1, <3>2, Migrates DEF RetryRead, RetryWrite, Same
        <3>3. QED  BY <1>9, <3>1, <3>2
      <2>3. QED  BY <2>1, <2>2, AfterRest
    <1>10. QED  BY <1>2, <1>3, <1>4, <1>5, <1>6, <1>7, <1>8, <1>9 DEF Step

LEMMA TargetStep ==
    ASSUME SInv, SInv', DryReads, MissingAreReported', [Next]_vars
    PROVE  [Target!Next]_(Target!state)
    <1>1. TypeOK /\ TypeOK' /\ run \in Call /\ Len(run.batch) \in Nat
          BY BatchInHand DEF SInv
    <1>2. ASSUME NEW dry \in BOOLEAN, Start(dry) PROVE [Target!Next]_(Target!state)
          BY <1>1, <1>2, QuietStep DEF Start
    <1>3. CASE Kill
          BY <1>1, <1>3, QuietStep DEF Kill, Unwritten, Call
    <1>4. CASE UNCHANGED vars
      <2>1. Report' = Report
            BY <1>4 DEF vars, Report, ExitCode, Status
      <2>2. QED  BY <1>4, <2>1 DEF vars, Target!state
    <1>5. ASSUME NEW i \in Ids, NEW row \in Transcript \cup {Absent}, LegacyWrite(i, row)
          PROVE  [Target!Next]_(Target!state)
          BY <1>1, <1>5, ChangeStep DEF Target!Next
    <1>6. CASE WriteBatch
      <2> DEFINE r == [run EXCEPT !.migrated = @ + Len(run.batch)]
      <2>1. r \in Call /\ r.dry = run.dry
            BY <1>1, Migrates DEF Same
      <2>2. run' = Advance(r)
            BY <1>6 DEF WriteBatch
      <2> HIDE DEF r
      <2>3. run'.pc = "page" /\ run'.dry = run.dry
            BY <2>1, <2>2, Advances
      <2>4. Upsert(run.batch, run.found) /\ run.pc = "write"
            BY <1>6 DEF WriteBatch
      <2>5. run.batch \in Seq(Read) /\ run.found \in SUBSET Ids
            BY <1>1, BatchInHand
      <2>6. QED  BY <2>3, <2>4, <2>5, MovingStep DEF Target!Next
    <1>7. CASE RetryWrite
      <2> DEFINE r == [run EXCEPT !.migrated = @ + 1]
                 b == run.batch[1]
      <2>1. /\ run.batch # <<>> /\ Head(run.batch) = b /\ b \in Read /\ run.found \in SUBSET Ids
            BY <1>1, <1>7, BatchInHand DEF RetryWrite, SInv, InHand, Busy
      <2>2. r \in Call /\ r.dry = run.dry /\ r.batch = run.batch
            BY <1>1, Migrates DEF Same
      <2>3. run' = Rest(r) /\ Upsert(<<b>>, run.found) /\ run.pc = "single"
            BY <1>7, <2>1 DEF RetryWrite
      <2> HIDE DEF r, b
      <2>4. run'.pc \in {"page", "retry"} /\ run'.dry = run.dry
            BY <2>1, <2>2, <2>3, AfterRest
      <2> DEFINE c == <<b>>
      <2>5. c \in Seq(Read) /\ Upsert(c, run.found)
            BY <2>1, <2>3, OneRow
      <2> HIDE DEF c
      <2>6. QED  BY <2>1, <2>3, <2>4, <2>5, MovingStep DEF Target!Next, Busy
    <1>8. CASE /\ Step /\ ~WriteBatch /\ ~RetryWrite
      <2>1. UNCHANGED <<legacy, modern, indexed, was>>
            BY <1>8 DEF Step, ReadPage, ReadFails, Finish, ReadAnalytics, AnalyticsFail,
                WriteFails, CommitFails, RetryRead, RetryFails, Unwritten
      <2>2. run'.pc \in {"none", "done"} \/ run'.dry = run.dry
            BY <1>1, <1>8, SameRun
      <2>3. QED  BY <1>1, <2>1, <2>2, QuietStep
    <1>9. QED  BY <1>2, <1>3, <1>4, <1>5, <1>6, <1>7, <1>8 DEF Next, Step

(* Migration implements Transfer: the modern database only gains what the  *)
(* legacy one held, in runs that are not dry, and a full success that is   *)
(* reported over a database at rest leaves nothing to move, whatever was   *)
(* read, written or committed in vain, retried or killed.                  *)
THEOREM Refinement == Spec => ImplementsTransfer
    <1>1. Init => Target!Init
      <2> SUFFICES ASSUME Init PROVE Target!Init
          OBVIOUS
      <2>1. run.pc = "none"
            BY DEF Init
      <2>2. QED  BY <2>1, Reports DEF Init, Target!Init
    <1>2. Init => DryReads
      <2> SUFFICES ASSUME Init PROVE DryReads
          OBVIOUS
      <2>1. run.pc = "none"
            BY DEF Init
      <2>2. QED  BY <2>1 DEF DryReads
    <1>3. IInv /\ IInv' /\ DryReads /\ MissingAreReported' /\ [Next]_vars
            => [Target!Next]_(Target!state)
          BY TargetStep DEF IInv
    <1>4. IInv /\ DryReads /\ [Next]_vars => DryReads'
          BY NextDryReads DEF IInv
    <1>5. Spec => []DryReads
          BY <1>2, <1>4, MigrationInvariant, PTL DEF Spec
    <1>6. QED  BY <1>1, <1>3, <1>5, MigrationInvariant, MissingRowsAreReported, PTL
               DEF Spec, ImplementsTransfer, Target!Spec
=============================================================================
