----------------------------- MODULE BuildProofs -----------------------------
(***************************************************************************)
(* Proofs about IdempotentBuild for any builders, files, contents, builds  *)
(* and releases.                                                           *)
(***************************************************************************)
EXTENDS IdempotentBuild, FiniteSetTheorems, TLAPS

\* A builder between two files, and one that is about to commit a file.
Tally == [processed : Nat, skipped : Nat, errors : Nat]
Checking ==
    [at : {"check"}, force : BOOLEAN, dry : BOOLEAN, todo : SUBSET Names, tally : Tally]
Committing ==
    [at : {"commit"}, force : BOOLEAN, dry : BOOLEAN, todo : SUBSET Names, tally : Tally,
     key : Keys, existing : Row \cup {NoRow}]

TypeOK ==
    /\ dir \in [Names -> Contents]
    /\ version \in Nat
    /\ table \in [Contents -> Row \cup {NoRow}]
    /\ builder \in [Builders -> {Idle} \cup Checking \cup Committing]
    /\ asked \in [Contents -> Nat] /\ rebuilt \in [Contents -> Nat]

\* The file that is committed is one of those left to do.
CommitsItsFile ==
    \A b \in Builders : builder[b].at = "commit" => builder[b].key.name \in builder[b].todo

\* A row that a builder saw is still there, and its count is not ahead of what
\* happened.
RowsSeenStay ==
    \A b \in Builders :
        builder[b].at = "commit" /\ builder[b].existing # NoRow =>
            LET c == builder[b].key.content
            IN  table[c] # NoRow /\ builder[b].existing.count <= rebuilt[c]

\* A content without a row was never processed again.
NoRowNoRebuild == \A c \in Contents : table[c] = NoRow => rebuilt[c] = 0

\* The builders that are about to process content c again, each of which was
\* asked to.
Pending(c) ==
    {b \in Builders : /\ builder[b].at = "commit" /\ builder[b].existing # NoRow
                      /\ builder[b].key.content = c}
AskedForEach ==
    \A c \in Contents : rebuilt[c] + Cardinality(Pending(c)) <= asked[c]

IInv ==
    /\ TypeOK /\ CommitsItsFile /\ SummaryAddsUp
    /\ RowsSeenStay /\ NoRowNoRebuild /\ CountIsSound
    /\ AskedForEach

-----------------------------------------------------------------------------
(* The states of a builder. *)
States == {Idle} \cup Checking \cup Committing

LEMMA Busy ==
    ASSUME TypeOK, NEW b \in Builders
    PROVE  /\ builder[b] \in States
           /\ builder[b].at = "check" <=> builder[b] \in Checking
           /\ builder[b].at = "commit" <=> builder[b] \in Committing
           /\ builder[b] # Idle <=> builder[b].at \in {"check", "commit"}
           /\ builder[b] # Idle => /\ builder[b].force \in BOOLEAN
                                   /\ builder[b].dry \in BOOLEAN
                                   /\ builder[b].todo \in SUBSET Names
                                   /\ builder[b].tally \in Tally
           /\ builder[b].at = "commit" => /\ builder[b].key \in Keys
                                          /\ builder[b].key.content \in Contents
                                          /\ builder[b].existing \in Row \cup {NoRow}
    <1>1. builder[b] \in States
          BY DEF TypeOK, States
    <1>2. CASE builder[b] = Idle
          BY <1>2 DEF States, Idle, Checking, Committing
    <1>3. CASE builder[b] \in Checking
          BY <1>3 DEF States, Idle, Checking, Committing
    <1>4. CASE builder[b] \in Committing
          BY <1>4 DEF States, Idle, Checking, Committing, Keys
    <1>5. QED  BY <1>1, <1>2, <1>3, <1>4 DEF States

LEMMA Pendings ==
    ASSUME TypeOK, NEW c
    PROVE  /\ IsFiniteSet(Pending(c))
           /\ Cardinality(Pending(c)) \in Nat
    BY BuildAssumption, FS_Subset, FS_CardinalityType DEF Pending

\* A file that is dealt with: one counter of the summary goes up, and one file
\* less is to do.
LEMMA Settled ==
    ASSUME TypeOK, SummaryAddsUp,
           NEW b \in Builders, builder[b] # Idle, NEW f \in builder[b].todo,
           NEW how \in {"processed", "skipped", "errors"}
    PROVE  /\ Done(b, f, how) \in Checking
           /\ Sum(Done(b, f, how).tally) + Cardinality(Done(b, f, how).todo)
                = Cardinality(Names)
    <1> DEFINE r == builder[b]
               t == r.tally
    <1>1. /\ r.force \in BOOLEAN /\ r.dry \in BOOLEAN
          /\ r.todo \in SUBSET Names /\ t \in Tally
          BY Busy
    <1>2. Sum(t) + Cardinality(r.todo) = Cardinality(Names)
          BY DEF SummaryAddsUp
    <1>3. /\ IsFiniteSet(r.todo) /\ Cardinality(r.todo) \in Nat
          /\ Cardinality(r.todo \ {f}) = Cardinality(r.todo) - 1
          BY <1>1, BuildAssumption, FS_Subset, FS_RemoveElement, FS_CardinalityType
    <1>4. [t EXCEPT ![how] = @ + 1] \in Tally /\ Sum([t EXCEPT ![how] = @ + 1]) = Sum(t) + 1
          BY <1>1 DEF Tally, Sum
    <1>5. /\ Done(b, f, how).tally = [t EXCEPT ![how] = @ + 1]
          /\ Done(b, f, how).todo = r.todo \ {f}
          BY DEF Done
    <1>6. Done(b, f, how) \in Checking
          BY <1>1, <1>4 DEF Done, Checking
    <1>7. Sum(t) \in Int
          BY <1>1 DEF Tally, Sum
    <1>8. Cardinality(Names) \in Nat
          BY BuildAssumption, FS_CardinalityType
    <1> HIDE DEF r, t
    <1>9. QED  BY <1>2, <1>3, <1>4, <1>5, <1>6, <1>7, <1>8

\* What a step of one builder that ends between two files keeps.
LEMMA Leaves ==
    ASSUME TypeOK, SummaryAddsUp, CommitsItsFile,
           NEW b \in Builders, NEW r \in {Idle} \cup Checking,
           r # Idle => Sum(r.tally) + Cardinality(r.todo) = Cardinality(Names),
           builder' = [builder EXCEPT ![b] = r]
    PROVE  /\ builder' \in [Builders -> States]
           /\ SummaryAddsUp' /\ CommitsItsFile'
           /\ \A c : Pending(c)' = Pending(c) \ {b}
           /\ \A q \in Builders : builder'[q].at = "commit" => builder'[q] = builder[q] /\ q # b
    <1>1. builder \in [Builders -> States]
          BY DEF TypeOK, States
    <1>2. r.at # "commit"
          BY DEF Idle, Checking
    <1>3. /\ builder'[b] = r
          /\ \A q \in Builders : q # b => builder'[q] = builder[q]
          BY <1>1
    <1>4. builder' \in [Builders -> States]
          BY <1>1 DEF States
    <1>5. SummaryAddsUp'
          BY <1>3 DEF SummaryAddsUp
    <1>6. CommitsItsFile'
          BY <1>2, <1>3 DEF CommitsItsFile
    <1>7. ASSUME NEW c PROVE Pending(c)' = Pending(c) \ {b}
          BY <1>2, <1>3 DEF Pending
    <1>8. QED  BY <1>2, <1>3, <1>4, <1>5, <1>6, <1>7

\* As long as what was decided and what happened stay as they are, fewer
\* builders about to process a content again can only help.
LEMMA FewerPending ==
    ASSUME TypeOK, AskedForEach, UNCHANGED <<asked, rebuilt>>,
           NEW b \in Builders, \A c : Pending(c)' = Pending(c) \ {b}
    PROVE  AskedForEach'
    <1> SUFFICES ASSUME NEW c \in Contents
                 PROVE  rebuilt[c] + Cardinality(Pending(c)') <= asked[c]
        BY DEF AskedForEach
    <1>1. /\ Cardinality(Pending(c)) \in Nat /\ IsFiniteSet(Pending(c))
          /\ rebuilt[c] + Cardinality(Pending(c)) <= asked[c]
          /\ asked[c] \in Nat /\ rebuilt[c] \in Nat
          BY Pendings DEF AskedForEach, TypeOK
    <1>2. Cardinality(Pending(c) \ {b}) <= Cardinality(Pending(c))
          BY <1>1, FS_Subset
    <1>3. Cardinality(Pending(c) \ {b}) \in Nat
          BY <1>1, FS_Subset, FS_CardinalityType
    <1>4. Pending(c)' = Pending(c) \ {b}
          OBVIOUS
    <1>5. QED  BY <1>1, <1>2, <1>3, <1>4

\* A step of a builder that leaves the table and the history alone and ends
\* between two files.
LEMMA QuietSteps ==
    ASSUME IInv, NEW b \in Builders, NEW r \in {Idle} \cup Checking,
           r # Idle => Sum(r.tally) + Cardinality(r.todo) = Cardinality(Names),
           builder' = [builder EXCEPT ![b] = r],
           UNCHANGED <<dir, version, table, asked, rebuilt>>
    PROVE  IInv'
    <1> USE DEF IInv
    <1>1. /\ builder' \in [Builders -> States] /\ SummaryAddsUp' /\ CommitsItsFile'
          /\ \A c : Pending(c)' = Pending(c) \ {b}
          /\ \A q \in Builders : builder'[q].at = "commit" => builder'[q] = builder[q]
          BY Leaves
    <1>2. TypeOK'
          BY <1>1 DEF TypeOK, States
    <1>3. RowsSeenStay'
          BY <1>1 DEF RowsSeenStay
    <1>4. NoRowNoRebuild' /\ CountIsSound'
          BY DEF NoRowNoRebuild, CountIsSound
    <1>5. AskedForEach'
          BY <1>1, FewerPending
    <1>6. QED  BY <1>1, <1>2, <1>3, <1>4, <1>5

LEMMA Existings ==
    ASSUME TypeOK, NEW k \in Keys
    PROVE  /\ Existing(k) \in Row \cup {NoRow}
           /\ Existing(k) # NoRow =>
                /\ table[k.content] = Existing(k) /\ table[k.content] # NoRow
                /\ Existing(k) \in Row
           /\ table[k.content] = NoRow => Existing(k) = NoRow
    BY DEF Existing, TypeOK, Keys

-----------------------------------------------------------------------------
(* The invariant, action by action. *)
LEMMA InitIInv == Init => IInv
    <1> SUFFICES ASSUME Init PROVE IInv
        OBVIOUS
    <1> USE DEF Init
    <1>1. TypeOK
          BY DEF TypeOK
    <1>2. \A b \in Builders : builder[b] = Idle /\ builder[b].at = "idle"
          BY DEF Idle
    <1>3. CommitsItsFile /\ SummaryAddsUp /\ RowsSeenStay
          BY <1>2 DEF CommitsItsFile, SummaryAddsUp, RowsSeenStay
    <1>4. NoRowNoRebuild /\ CountIsSound
          BY DEF NoRowNoRebuild, CountIsSound
    <1>5. AskedForEach
      <2>1. \A c : Pending(c) = {}
            BY <1>2 DEF Pending
      <2>2. QED  BY <2>1, FS_EmptySet DEF AskedForEach
    <1>6. QED  BY <1>1, <1>3, <1>4, <1>5 DEF IInv

LEMMA StartIInv ==
    ASSUME IInv, NEW b \in Builders, NEW force \in BOOLEAN, NEW dry \in BOOLEAN,
           Start(b, force, dry)
    PROVE  IInv'
    <1> DEFINE r == [at |-> "check", force |-> force, dry |-> dry, todo |-> Names,
                     tally |-> [processed |-> 0, skipped |-> 0, errors |-> 0]]
    <1>1. r \in Checking
          BY DEF Checking, Tally
    <1>2. Sum(r.tally) + Cardinality(r.todo) = Cardinality(Names)
          BY BuildAssumption, FS_CardinalityType DEF Sum
    <1>3. /\ builder' = [builder EXCEPT ![b] = r]
          /\ UNCHANGED <<dir, version, table, asked, rebuilt>>
          BY DEF Start
    <1> HIDE DEF r
    <1>4. QED  BY <1>1, <1>2, <1>3, QuietSteps

LEMMA PassIInv ==
    ASSUME IInv, NEW b \in Builders, NEW f \in Names,
           Skip(b, f) \/ Refuse(b, f) \/ WouldProcess(b, f)
    PROVE  IInv'
    <1>1. PICK how \in {"processed", "skipped", "errors"} :
            builder' = [builder EXCEPT ![b] = Done(b, f, how)]
          BY DEF Skip, Refuse, WouldProcess
    <1>2. /\ builder[b] # Idle /\ f \in builder[b].todo
          /\ UNCHANGED <<dir, version, table, asked, rebuilt>>
          BY DEF Skip, Refuse, WouldProcess, Checks, Idle
    <1>3. /\ Done(b, f, how) \in Checking
          /\ Sum(Done(b, f, how).tally) + Cardinality(Done(b, f, how).todo)
                = Cardinality(Names)
          BY <1>2, Settled DEF IInv
    <1>4. QED  BY <1>1, <1>2, <1>3, QuietSteps

LEMMA EndIInv ==
    ASSUME IInv, NEW b \in Builders, End(b)
    PROVE  IInv'
    BY QuietSteps DEF End

\* What a builder about to commit does with its file.
LEMMA Commits ==
    ASSUME IInv, NEW b \in Builders, builder[b].at = "commit",
           NEW how \in {"processed", "errors"}
    PROVE  /\ Done(b, builder[b].key.name, how) \in Checking
           /\ Sum(Done(b, builder[b].key.name, how).tally)
                + Cardinality(Done(b, builder[b].key.name, how).todo) = Cardinality(Names)
    BY Settled DEF IInv, CommitsItsFile, Idle

LEMMA CommitFailsIInv ==
    ASSUME IInv, NEW b \in Builders, CommitFails(b)
    PROVE  IInv'
    <1> DEFINE r == Done(b, builder[b].key.name, "errors")
    <1>1. /\ builder[b].at = "commit" /\ builder' = [builder EXCEPT ![b] = r]
          /\ UNCHANGED <<dir, version, table, asked, rebuilt>>
          BY DEF CommitFails
    <1>2. r \in Checking /\ Sum(r.tally) + Cardinality(r.todo) = Cardinality(Names)
          BY <1>1, Commits
    <1> HIDE DEF r
    <1>3. QED  BY <1>1, <1>2, QuietSteps

\* A row inserted where there was none.
LEMMA Inserts ==
    ASSUME TypeOK, RowsSeenStay, NoRowNoRebuild, CountIsSound,
           NEW k \in Keys, table[k.content] = NoRow,
           table' = [table EXCEPT ![k.content] = [key |-> k, count |-> 0, force |-> FALSE]],
           UNCHANGED rebuilt
    PROVE  /\ table' \in [Contents -> Row \cup {NoRow}]
           /\ \A c \in Contents : table[c] # NoRow => table'[c] = table[c]
           /\ NoRowNoRebuild' /\ CountIsSound'
    <1> DEFINE new == [key |-> k, count |-> 0, force |-> FALSE]
    <1>1. new \in Row /\ new.count = 0
          BY DEF Row
    <1>2. new # NoRow /\ k.content \in Contents
          BY <1>1, NoRowAssumption DEF Keys
    <1>3. /\ table'[k.content] = new
          /\ \A c \in Contents : c # k.content => table'[c] = table[c]
          /\ rebuilt[k.content] = 0
          BY <1>2 DEF TypeOK, NoRowNoRebuild
    <1>4. table' \in [Contents -> Row \cup {NoRow}]
          BY <1>1, <1>2 DEF TypeOK
    <1> HIDE DEF new
    <1>5. NoRowNoRebuild'
          BY <1>2, <1>3 DEF NoRowNoRebuild
    <1>6. CountIsSound'
          BY <1>1, <1>3 DEF CountIsSound
    <1>7. QED  BY <1>3, <1>4, <1>5, <1>6

LEMMA CommitInsertIInv ==
    ASSUME IInv, NEW b \in Builders, CommitInsert(b)
    PROVE  IInv'
    <1> DEFINE k == builder[b].key
    <1>1. /\ builder[b].at = "commit" /\ k \in Keys
          /\ UNCHANGED <<dir, version, asked, rebuilt>>
          BY Busy DEF CommitInsert, IInv
    <1>2. CASE table[k.content] # NoRow
      <2> DEFINE r == Done(b, k.name, "errors")
      <2>1. builder' = [builder EXCEPT ![b] = r] /\ UNCHANGED table
            BY <1>2 DEF CommitInsert
      <2>2. r \in Checking /\ Sum(r.tally) + Cardinality(r.todo) = Cardinality(Names)
            BY <1>1, Commits
      <2> HIDE DEF r
      <2>3. QED  BY <1>1, <2>1, <2>2, QuietSteps
    <1>3. CASE table[k.content] = NoRow
      <2> DEFINE r == Done(b, k.name, "processed")
      <2>1. /\ builder' = [builder EXCEPT ![b] = r]
            /\ table' = [table EXCEPT ![k.content] =
                            [key |-> k, count |-> 0, force |-> FALSE]]
            BY <1>3 DEF CommitInsert
      <2>2. r \in Checking /\ Sum(r.tally) + Cardinality(r.todo) = Cardinality(Names)
            BY <1>1, Commits
      <2> HIDE DEF r, k
      <2>3. /\ table' \in [Contents -> Row \cup {NoRow}]
            /\ \A c \in Contents : table[c] # NoRow => table'[c] = table[c]
            /\ NoRowNoRebuild' /\ CountIsSound'
            BY <1>1, <1>3, <2>1, Inserts DEF IInv
      <2>4. /\ builder' \in [Builders -> States] /\ SummaryAddsUp' /\ CommitsItsFile'
            /\ \A c : Pending(c)' = Pending(c) \ {b}
            /\ \A q \in Builders : builder'[q].at = "commit" => builder'[q] = builder[q]
            BY <2>1, <2>2, Leaves DEF IInv
      <2>5. TypeOK'
            BY <1>1, <2>3, <2>4 DEF IInv, TypeOK, States
      <2>6. RowsSeenStay'
            BY <1>1, <2>3, <2>4, Busy DEF IInv, RowsSeenStay
      <2>7. AskedForEach'
            BY <1>1, <2>4, FewerPending DEF IInv
      <2>8. QED  BY <2>3, <2>4, <2>5, <2>6, <2>7 DEF IInv
    <1>4. QED  BY <1>2, <1>3

\* The UPDATE of a row: the key stays, the count is the one seen plus one.
LEMMA Updates ==
    ASSUME IInv, NEW b \in Builders, CommitUpdate(b)
    PROVE  LET c == builder[b].key.content
               n == builder[b].existing.count
           IN  /\ c \in Contents /\ n \in Nat /\ n <= rebuilt[c]
               /\ table[c] \in Row /\ table[c] # NoRow
               /\ \E force \in BOOLEAN :
                    table' = [table EXCEPT ![c] =
                                [key |-> table[c].key, count |-> n + 1, force |-> force]]
    <1> DEFINE c == builder[b].key.content
               seen == builder[b].existing
               flag == IF builder[b].force /\ seen.force THEN FALSE ELSE table[c].force
               new == [key |-> table[c].key, count |-> seen.count + 1, force |-> flag]
    <1>1. /\ builder[b].at = "commit" /\ seen # NoRow
          /\ c \in Contents /\ seen \in Row
          BY Busy DEF CommitUpdate, IInv
    <1>2. /\ table[c] # NoRow /\ seen.count <= rebuilt[c]
          BY <1>1 DEF IInv, RowsSeenStay
    <1>3. table[c] \in Row /\ table \in [Contents -> Row \cup {NoRow}]
          BY <1>1, <1>2 DEF IInv, TypeOK
    <1>4. seen.count \in Nat /\ flag \in BOOLEAN
          BY <1>1, <1>3 DEF Row
    <1>5. table' = [table EXCEPT ![c].count = seen.count + 1, ![c].force = flag]
          BY DEF CommitUpdate
    <1>6. [table[c] EXCEPT !.count = seen.count + 1, !.force = flag] = new
      <2>1. ASSUME NEW t \in Row, NEW m, NEW g
            PROVE  [t EXCEPT !.count = m, !.force = g]
                        = [key |-> t.key, count |-> m, force |-> g]
        <3> DEFINE e == [t EXCEPT !.count = m, !.force = g]
        <3>1. /\ e.key = t.key /\ e.count = m /\ e.force = g
              /\ e = [x \in DOMAIN t |-> e[x]]
              BY DEF Row
        <3>2. DOMAIN t = {"key", "count", "force"}
              BY DEF Row
        <3> HIDE DEF e
        <3>3. e = [key |-> t.key, count |-> m, force |-> g]
              BY <3>1, <3>2
        <3>4. QED  BY <3>3 DEF e
      <2> HIDE DEF flag
      <2>2. QED  BY <1>3, <2>1
    <1>7. table' = [table EXCEPT ![c] = new]
          BY <1>1, <1>3, <1>5, <1>6
    <1>8. QED  BY <1>1, <1>2, <1>3, <1>4, <1>7

LEMMA CommitUpdateIInv ==
    ASSUME IInv, NEW b \in Builders, CommitUpdate(b)
    PROVE  IInv'
    <1> DEFINE c == builder[b].key.content
               n == builder[b].existing.count
               r == Done(b, builder[b].key.name, "processed")
    <1>1. /\ c \in Contents /\ n \in Nat /\ n <= rebuilt[c]
          /\ table[c] \in Row /\ table[c] # NoRow
          BY Updates
    <1>2. PICK force \in BOOLEAN :
            table' = [table EXCEPT ![c] =
                        [key |-> table[c].key, count |-> n + 1, force |-> force]]
          BY Updates
    <1> DEFINE new == [key |-> table[c].key, count |-> n + 1, force |-> force]
    <1>3. /\ builder[b].at = "commit" /\ builder[b].existing # NoRow
          /\ builder' = [builder EXCEPT ![b] = r]
          /\ rebuilt' = [rebuilt EXCEPT ![c] = @ + 1]
          /\ UNCHANGED <<dir, version, asked>>
          BY DEF CommitUpdate
    <1>4. b \in Pending(c) /\ \A d : d # c => b \notin Pending(d)
          BY <1>3 DEF Pending
    <1>5. r \in Checking /\ Sum(r.tally) + Cardinality(r.todo) = Cardinality(Names)
          BY <1>3, Commits
    <1>6. new \in Row /\ new # NoRow /\ new.count = n + 1
          BY <1>1, NoRowAssumption DEF Row
    <1>7. /\ table \in [Contents -> Row \cup {NoRow}] /\ rebuilt \in [Contents -> Nat]
          /\ asked \in [Contents -> Nat]
          BY DEF IInv, TypeOK
    <1>8. table' = [table EXCEPT ![c] = new]
          BY <1>2
    <1> HIDE DEF c, n, r, new
    <1>9. /\ table'[c] = new /\ rebuilt'[c] = rebuilt[c] + 1
          /\ \A d \in Contents : d # c => table'[d] = table[d] /\ rebuilt'[d] = rebuilt[d]
          /\ table' \in [Contents -> Row \cup {NoRow}]
          /\ rebuilt' \in [Contents -> Nat]
          BY <1>1, <1>3, <1>6, <1>7, <1>8
    <1>10. /\ builder' \in [Builders -> States] /\ SummaryAddsUp' /\ CommitsItsFile'
           /\ \A d : Pending(d)' = Pending(d) \ {b}
           /\ \A q \in Builders : builder'[q].at = "commit" => builder'[q] = builder[q]
           BY <1>3, <1>5, Leaves DEF IInv
    <1>11. TypeOK'
           BY <1>3, <1>9, <1>10 DEF IInv, TypeOK, States
    <1>12. RowsSeenStay'
      <2> SUFFICES ASSUME NEW q \in Builders,
                          builder'[q].at = "commit", builder'[q].existing # NoRow
                   PROVE  /\ table'[builder'[q].key.content] # NoRow
                          /\ builder'[q].existing.count
                                <= rebuilt'[builder'[q].key.content]
          BY DEF RowsSeenStay
      <2> DEFINE d == builder[q].key.content
      <2>1. builder'[q] = builder[q]
            BY <1>10
      <2>2. /\ d \in Contents /\ builder[q].existing \in Row
            /\ table[d] # NoRow /\ builder[q].existing.count <= rebuilt[d]
            BY <2>1, Busy DEF IInv, RowsSeenStay
      <2>3. builder[q].existing.count \in Nat /\ rebuilt[d] \in Nat
            BY <1>7, <2>2 DEF Row
      <2>4. table'[d] # NoRow /\ rebuilt'[d] \in Nat /\ rebuilt[d] <= rebuilt'[d]
            BY <1>6, <1>7, <1>9, <2>2
      <2>5. QED  BY <2>1, <2>2, <2>3, <2>4
    <1>13. NoRowNoRebuild'
           BY <1>6, <1>9 DEF IInv, NoRowNoRebuild
    <1>14. CountIsSound'
      <2> SUFFICES ASSUME NEW d \in Contents, table'[d] # NoRow
                   PROVE  /\ table'[d].count <= rebuilt'[d]
                          /\ table'[d].count = 0 => rebuilt'[d] = 0
          BY DEF CountIsSound
      <2>1. CASE d = c
            BY <1>1, <1>6, <1>7, <1>9, <2>1
      <2>2. CASE d # c
            BY <1>9, <2>2 DEF IInv, CountIsSound
      <2>3. QED  BY <2>1, <2>2
    <1>15. AskedForEach'
      <2> SUFFICES ASSUME NEW d \in Contents
                   PROVE  rebuilt'[d] + Cardinality(Pending(d)') <= asked[d]
          BY <1>3 DEF AskedForEach
      <2>1. /\ Cardinality(Pending(d)) \in Nat /\ IsFiniteSet(Pending(d))
            /\ rebuilt[d] + Cardinality(Pending(d)) <= asked[d]
            BY Pendings DEF IInv, AskedForEach
      <2>2. CASE d = c
        <3>1. Cardinality(Pending(d) \ {b}) = Cardinality(Pending(d)) - 1
              BY <1>4, <2>1, <2>2, FS_RemoveElement
        <3>2. /\ rebuilt[d] \in Nat /\ asked[d] \in Nat
              /\ rebuilt'[d] = rebuilt[d] + 1
              BY <1>7, <1>9, <2>2
        <3>3. Pending(d)' = Pending(d) \ {b}
              BY <1>10
        <3>4. QED  BY <2>1, <3>1, <3>2, <3>3
      <2>3. CASE d # c
        <3>1. Pending(d) \ {b} = Pending(d)
              BY <1>4, <2>3
        <3>2. QED  BY <1>9, <1>10, <2>1, <2>3, <3>1
      <2>4. QED  BY <2>2, <2>3
    <1>16. QED  BY <1>10, <1>11, <1>12, <1>13, <1>14, <1>15 DEF IInv

LEMMA ProcessIInv ==
    ASSUME IInv, NEW b \in Builders, NEW f \in Names, Process(b, f)
    PROVE  IInv'
    <1> DEFINE c == dir[f]
               k == Key("command", c, f, version)
               row == Existing(k)
               r == [at |-> "commit", force |-> builder[b].force,
                     dry |-> builder[b].dry, todo |-> builder[b].todo,
                     tally |-> builder[b].tally, key |-> k, existing |-> row]
    <1>1. /\ builder[b].at = "check" /\ f \in builder[b].todo
          /\ builder' = [builder EXCEPT ![b] = r]
          /\ UNCHANGED <<dir, version, table, rebuilt>>
          BY DEF Process, Checks
    <1>2. k \in Keys /\ c \in Contents /\ k.content = c /\ k.name = f
          BY DEF IInv, TypeOK, Key, Keys, Schemes
    <1>3. /\ row \in Row \cup {NoRow}
          /\ row # NoRow => /\ table[c] = row /\ table[c] # NoRow /\ row \in Row
          BY <1>2, Existings DEF IInv
    <1>4. /\ builder[b] # Idle /\ builder[b].force \in BOOLEAN
          /\ builder[b].dry \in BOOLEAN /\ builder[b].todo \in SUBSET Names
          /\ builder[b].tally \in Tally
          BY <1>1, Busy DEF IInv
    <1>5. r \in Committing
          BY <1>2, <1>3, <1>4 DEF Committing
    <1>6. /\ r.at = "commit" /\ r.key = k /\ r.existing = row
          /\ r.todo = builder[b].todo /\ r.tally = builder[b].tally
          OBVIOUS
    <1>7. asked' = IF builder[b].force \/ (row # NoRow /\ row.force)
                   THEN [asked EXCEPT ![c] = @ + 1] ELSE asked
          BY DEF Process
    <1>8. row # NoRow => builder[b].force \/ row.force
          BY DEF Process, Known
    <1>9. builder \in [Builders -> States]
          BY DEF IInv, TypeOK, States
    <1>10. /\ asked \in [Contents -> Nat] /\ rebuilt \in [Contents -> Nat]
           BY DEF IInv, TypeOK
    <1> HIDE DEF r, row, k, c
    <1>11. /\ builder'[b] = r
           /\ \A q \in Builders : q # b => builder'[q] = builder[q]
           BY <1>1, <1>9
    <1>12. builder' \in [Builders -> States]
           BY <1>1, <1>5, <1>9 DEF States
    <1>13. /\ asked' \in [Contents -> Nat]
           /\ \A d \in Contents : asked[d] <= asked'[d]
           /\ row # NoRow => asked'[c] = asked[c] + 1
           BY <1>2, <1>7, <1>8, <1>10
    <1>14. TypeOK'
           BY <1>1, <1>12, <1>13 DEF IInv, TypeOK, States
    <1>15. CommitsItsFile'
           BY <1>1, <1>2, <1>6, <1>11 DEF IInv, CommitsItsFile
    <1>16. SummaryAddsUp'
           BY <1>4, <1>6, <1>11 DEF IInv, SummaryAddsUp
    <1>17. RowsSeenStay'
      <2> SUFFICES ASSUME NEW q \in Builders,
                          builder'[q].at = "commit", builder'[q].existing # NoRow
                   PROVE  /\ table[builder'[q].key.content] # NoRow
                          /\ builder'[q].existing.count
                                <= rebuilt[builder'[q].key.content]
          BY <1>1 DEF RowsSeenStay
      <2>1. CASE q = b
            BY <1>2, <1>3, <1>6, <1>11, <2>1 DEF IInv, CountIsSound
      <2>2. CASE q # b
            BY <1>11, <2>2 DEF IInv, RowsSeenStay
      <2>3. QED  BY <2>1, <2>2
    <1>18. NoRowNoRebuild' /\ CountIsSound'
           BY <1>1 DEF IInv, NoRowNoRebuild, CountIsSound
    <1>19. AskedForEach'
      <2> SUFFICES ASSUME NEW d \in Contents
                   PROVE  rebuilt[d] + Cardinality(Pending(d)') <= asked'[d]
          BY <1>1 DEF AskedForEach
      <2>1. /\ Cardinality(Pending(d)) \in Nat /\ IsFiniteSet(Pending(d))
            /\ rebuilt[d] + Cardinality(Pending(d)) <= asked[d]
            /\ asked[d] \in Nat /\ rebuilt[d] \in Nat /\ asked'[d] \in Nat
            BY <1>10, <1>13, Pendings DEF IInv, AskedForEach
      <2>2. CASE row # NoRow /\ d = c
        <3>1. Pending(d)' = Pending(d) \cup {b}
              BY <1>2, <1>6, <1>11, <2>2 DEF Pending
        <3>2. Cardinality(Pending(d) \cup {b}) \in {Cardinality(Pending(d)),
                                                    Cardinality(Pending(d)) + 1}
              BY <2>1, FS_AddElement
        <3>3. QED  BY <1>13, <2>1, <2>2, <3>1, <3>2
      <2>3. CASE row = NoRow \/ d # c
        <3>1. Pending(d)' = Pending(d)
              BY <1>1, <1>2, <1>6, <1>11, <2>3 DEF Pending
        <3>2. QED  BY <1>13, <2>1, <3>1
      <2>4. QED  BY <2>2, <2>3
    <1>20. QED  BY <1>14, <1>15, <1>16, <1>17, <1>18, <1>19 DEF IInv

\* A row whose count and flag change, as decided and counted by a call of the
\* service.
LEMMA MarkIInv ==
    ASSUME IInv, NEW k \in Keys, MarkAsProcessed(k)
    PROVE  IInv'
    <1> DEFINE c == k.content
    <1>1. /\ c \in Contents /\ UNCHANGED <<dir, version, builder>>
          BY DEF MarkAsProcessed, Keys
    <1>2. /\ table \in [Contents -> Row \cup {NoRow}] /\ rebuilt \in [Contents -> Nat]
          /\ asked \in [Contents -> Nat]
          BY DEF IInv, TypeOK
    <1>3. SummaryAddsUp' /\ CommitsItsFile' /\ \A d : Pending(d)' = Pending(d)
          BY <1>1 DEF IInv, SummaryAddsUp, CommitsItsFile, Pending
    <1>4. CASE Existing(k) # NoRow
      <2>1. /\ table[c] \in Row /\ table[c] # NoRow
            BY <1>4, Existings DEF IInv
      <2>2. PICK force \in BOOLEAN, key \in Keys :
                /\ table[c].force = force /\ table[c].key = key
                /\ table[c].count \in Nat
            BY <2>1 DEF Row
      <2> DEFINE new == [key |-> key, count |-> table[c].count + 1, force |-> force]
      <2>3. /\ table' = [table EXCEPT ![c].count = @ + 1]
            /\ rebuilt' = [rebuilt EXCEPT ![c] = @ + 1]
            /\ asked' = [asked EXCEPT ![c] = @ + 1]
            BY <1>4 DEF MarkAsProcessed
      <2>4. [table[c] EXCEPT !.count = @ + 1] = new
            BY <2>1, <2>2 DEF Row
      <2>5. new \in Row /\ new # NoRow /\ new.count = table[c].count + 1
            BY <2>2, NoRowAssumption DEF Row
      <2>6. table' = [table EXCEPT ![c] = new]
            BY <1>1, <1>2, <2>3, <2>4
      <2> HIDE DEF new, c
      <2>7. /\ table'[c] = new /\ rebuilt'[c] = rebuilt[c] + 1 /\ asked'[c] = asked[c] + 1
            /\ \A d \in Contents : d # c => /\ table'[d] = table[d]
                                            /\ rebuilt'[d] = rebuilt[d]
                                            /\ asked'[d] = asked[d]
            /\ table' \in [Contents -> Row \cup {NoRow}]
            /\ rebuilt' \in [Contents -> Nat] /\ asked' \in [Contents -> Nat]
            BY <1>1, <1>2, <2>3, <2>5, <2>6
      <2>8. TypeOK'
            BY <1>1, <2>7 DEF IInv, TypeOK
      <2>9. RowsSeenStay'
        <3> SUFFICES ASSUME NEW q \in Builders,
                            builder[q].at = "commit", builder[q].existing # NoRow
                     PROVE  /\ table'[builder[q].key.content] # NoRow
                            /\ builder[q].existing.count <= rebuilt'[builder[q].key.content]
            BY <1>1 DEF RowsSeenStay
        <3> DEFINE d == builder[q].key.content
        <3>1. /\ d \in Contents /\ builder[q].existing \in Row
              /\ table[d] # NoRow /\ builder[q].existing.count <= rebuilt[d]
              BY Busy DEF IInv, RowsSeenStay
        <3>2. builder[q].existing.count \in Nat /\ rebuilt[d] \in Nat
              BY <1>2, <3>1 DEF Row
        <3>3. table'[d] # NoRow /\ rebuilt'[d] \in Nat /\ rebuilt[d] <= rebuilt'[d]
              BY <1>2, <2>5, <2>7, <3>1
        <3>4. QED  BY <3>1, <3>2, <3>3
      <2>10. NoRowNoRebuild'
             BY <2>5, <2>7 DEF IInv, NoRowNoRebuild
      <2>11. CountIsSound'
        <3> SUFFICES ASSUME NEW d \in Contents, table'[d] # NoRow
                     PROVE  /\ table'[d].count <= rebuilt'[d]
                            /\ table'[d].count = 0 => rebuilt'[d] = 0
            BY DEF CountIsSound
        <3>1. CASE d = c
              BY <1>1, <1>2, <2>1, <2>2, <2>5, <2>7, <3>1 DEF IInv, CountIsSound
        <3>2. CASE d # c
              BY <2>7, <3>2 DEF IInv, CountIsSound
        <3>3. QED  BY <3>1, <3>2
      <2>12. AskedForEach'
        <3> SUFFICES ASSUME NEW d \in Contents
                     PROVE  rebuilt'[d] + Cardinality(Pending(d)') <= asked'[d]
            BY DEF AskedForEach
        <3>1. /\ Cardinality(Pending(d)) \in Nat
              /\ rebuilt[d] + Cardinality(Pending(d)) <= asked[d]
              /\ rebuilt[d] \in Nat /\ asked[d] \in Nat
              /\ Pending(d)' = Pending(d)
              BY <1>2, <1>3, Pendings DEF IInv, AskedForEach
        <3>2. \/ rebuilt'[d] = rebuilt[d] /\ asked'[d] = asked[d]
              \/ rebuilt'[d] = rebuilt[d] + 1 /\ asked'[d] = asked[d] + 1
              BY <2>7
        <3>3. QED  BY <3>1, <3>2
      <2>13. QED  BY <1>3, <2>8, <2>9, <2>10, <2>11, <2>12 DEF IInv
    <1>5. CASE Existing(k) = NoRow /\ table[c] = NoRow
      <2>1. /\ table' = [table EXCEPT ![c] = [key |-> k, count |-> 0, force |-> FALSE]]
            /\ UNCHANGED <<rebuilt, asked>>
            BY <1>5 DEF MarkAsProcessed
      <2>2. /\ table' \in [Contents -> Row \cup {NoRow}]
            /\ \A d \in Contents : table[d] # NoRow => table'[d] = table[d]
            /\ NoRowNoRebuild' /\ CountIsSound'
            BY <1>5, <2>1, Inserts DEF IInv
      <2>3. TypeOK'
            BY <1>1, <2>1, <2>2 DEF IInv, TypeOK
      <2>4. RowsSeenStay'
            BY <1>1, <2>1, <2>2, Busy, ZenonT(40) DEF IInv, RowsSeenStay
      <2>5. AskedForEach'
            BY <1>3, <2>1 DEF IInv, AskedForEach
      <2>6. QED  BY <1>3, <2>2, <2>3, <2>4, <2>5 DEF IInv
    <1>6. CASE Existing(k) = NoRow /\ table[c] # NoRow
      <2>1. UNCHANGED <<table, rebuilt, asked>>
            BY <1>6 DEF MarkAsProcessed
      <2>2. QED  BY <1>1, <2>1 DEF IInv, TypeOK, CommitsItsFile, SummaryAddsUp,
                    RowsSeenStay, NoRowNoRebuild, CountIsSound, AskedForEach, Pending
    <1>7. QED  BY <1>4, <1>5, <1>6

LEMMA MarkForceIInv ==
    ASSUME IInv, NEW k \in Keys, MarkForceRebuild(k)
    PROVE  IInv'
    <1> DEFINE c == k.content
    <1>1. /\ c \in Contents /\ UNCHANGED <<dir, version, builder, asked, rebuilt>>
          /\ table' = [table EXCEPT ![c].force = TRUE]
          BY DEF MarkForceRebuild, Keys
    <1>2. table \in [Contents -> Row \cup {NoRow}]
          BY DEF IInv, TypeOK
    <1>3. table[c] \in Row /\ table[c] # NoRow
          BY Existings DEF IInv, MarkForceRebuild
    <1> DEFINE new == [table[c] EXCEPT !.force = TRUE]
    <1>4. new \in Row /\ new # NoRow /\ new.count = table[c].count
          BY <1>3, NoRowAssumption DEF Row
    <1>5. table' = [table EXCEPT ![c] = new]
          BY <1>1, <1>2
    <1> HIDE DEF new, c
    <1>6. /\ table'[c] = new
          /\ \A d \in Contents : d # c => table'[d] = table[d]
          /\ table' \in [Contents -> Row \cup {NoRow}]
          BY <1>1, <1>2, <1>4, <1>5
    <1>7. /\ \A d \in Contents : table'[d] = NoRow <=> table[d] = NoRow
          /\ \A d \in Contents : table[d] # NoRow => table'[d].count = table[d].count
          BY <1>3, <1>4, <1>6
    <1>8. TypeOK'
          BY <1>1, <1>6 DEF IInv, TypeOK
    <1>9. RowsSeenStay'
          BY <1>1, <1>7, Busy DEF IInv, RowsSeenStay
    <1>10. NoRowNoRebuild' /\ CountIsSound'
           BY <1>1, <1>7 DEF IInv, NoRowNoRebuild, CountIsSound
    <1>11. CommitsItsFile' /\ SummaryAddsUp'
           BY <1>1 DEF IInv, CommitsItsFile, SummaryAddsUp
    <1>12. AskedForEach'
      <2>1. \A d : Pending(d)' = Pending(d)
            BY <1>1 DEF Pending
      <2>2. QED  BY <1>1, <2>1 DEF IInv, AskedForEach
    <1>13. QED  BY <1>8, <1>9, <1>10, <1>11, <1>12 DEF IInv

LEMMA OthersIInv ==
    ASSUME IInv, UNCHANGED <<table, builder, asked, rebuilt>>,
           dir' \in [Names -> Contents], version' \in Nat
    PROVE  IInv'
    <1>1. \A d : Pending(d)' = Pending(d)
          BY DEF Pending
    <1>2. QED  BY <1>1 DEF IInv, TypeOK, CommitsItsFile, SummaryAddsUp, RowsSeenStay,
                  NoRowNoRebuild, CountIsSound, AskedForEach

LEMMA KeyIsKey ==
    ASSUME NEW s \in Schemes, NEW c \in Contents, NEW f \in Names, NEW v \in Nat
    PROVE  Key(s, c, f, v) \in Keys
    BY DEF Key, Keys

LEMMA NextIInv == IInv /\ [Next]_vars => IInv'
    <1> SUFFICES ASSUME IInv, [Next]_vars PROVE IInv'
        OBVIOUS
    <1>1. ASSUME NEW b \in Builders, BuilderStep(b) PROVE IInv'
          BY <1>1, StartIInv, PassIInv, ProcessIInv, CommitUpdateIInv, CommitInsertIInv,
             CommitFailsIInv, EndIInv DEF BuilderStep
    <1>2. version \in Nat /\ dir \in [Names -> Contents]
          BY DEF IInv, TypeOK
    <1>3. ASSUME NEW s \in Schemes, NEW c \in Contents, NEW f \in Names,
                 MarkAsProcessed(Key(s, c, f, version))
          PROVE  IInv'
          BY <1>2, <1>3, KeyIsKey, MarkIInv
    <1>4. ASSUME NEW s \in Schemes, NEW c \in Contents, NEW f \in Names,
                 NEW v \in 1..version, MarkForceRebuild(Key(s, c, f, v))
          PROVE  IInv'
      <2>1. v \in Nat
            BY <1>2
      <2>2. QED  BY <1>4, <2>1, KeyIsKey, MarkForceIInv
    <1>5. ASSUME NEW f \in Names, NEW c \in Contents, Edit(f, c) PROVE IInv'
          BY <1>2, <1>5, OthersIInv DEF Edit
    <1>6. CASE Upgrade
          BY <1>2, <1>6, OthersIInv DEF Upgrade
    <1>7. CASE UNCHANGED vars
          BY <1>2, <1>7, OthersIInv DEF vars
    <1>8. QED  BY <1>1, <1>3, <1>4, <1>5, <1>6, <1>7 DEF Next

-----------------------------------------------------------------------------
(* The inductive invariant of the build: builders commit only files they   *)
(* have left to do, rows that were seen are still there, and each builder  *)
(* about to process a content again was asked to.                          *)
THEOREM BuildInvariant == Spec => []IInv
    BY InitIInv, NextIInv, PTL DEF Spec

(* The summary of a build counts every file it found once, however many    *)
(* builders, service calls, edits and failed commits it met.               *)
THEOREM SummariesAddUp == Spec => []SummaryAddsUp
    <1>1. IInv => SummaryAddsUp
          BY DEF IInv
    <1>2. QED  BY <1>1, BuildInvariant, PTL

(* A content is processed again at most as often as a forced build, a mark *)
(* on its row or a call of the service asked for it.                       *)
THEOREM RebuildsAreAskedFor == Spec => []NoNeedlessRebuild
    <1>1. IInv => NoNeedlessRebuild
      <2> SUFFICES ASSUME IInv, NEW c \in Contents PROVE rebuilt[c] <= asked[c]
          BY DEF NoNeedlessRebuild
      <2>1. /\ rebuilt[c] + Cardinality(Pending(c)) <= asked[c]
            /\ rebuilt[c] \in Nat /\ asked[c] \in Nat /\ Cardinality(Pending(c)) \in Nat
            BY Pendings DEF IInv, AskedForEach, TypeOK
      <2>2. QED  BY <2>1
    <1>2. QED  BY <1>1, BuildInvariant, PTL

(* reprocess_count never counts what did not happen, and never loses all   *)
(* the counts of a content that was processed again.                       *)
THEOREM CountsAreSound == Spec => []CountIsSound
    <1>1. IInv => CountIsSound
          BY DEF IInv
    <1>2. QED  BY <1>1, BuildInvariant, PTL

(* No step replaces the key under which a content was recorded, or removes *)
(* its row.                                                                *)
THEOREM KeysStay == Spec => RowsKeepTheirKey
    <1> DEFINE Keeps == \A c \in Contents : table[c] # NoRow =>
                            table'[c] # NoRow /\ table'[c].key = table[c].key
    <1>1. ASSUME IInv, Next PROVE Keeps
      <2>1. table \in [Contents -> Row \cup {NoRow}]
            BY <1>1 DEF IInv, TypeOK
      <2>2. ASSUME UNCHANGED table PROVE Keeps
            BY <2>2
      <2>3. ASSUME NEW b \in Builders, CommitUpdate(b) PROVE Keeps
        <3> DEFINE d == builder[b].key.content
                   n == builder[b].existing.count
        <3>1. d \in Contents /\ n \in Nat /\ table[d] \in Row
              BY <1>1, <2>3, Updates
        <3>2. PICK force \in BOOLEAN :
                table' = [table EXCEPT ![d] =
                            [key |-> table[d].key, count |-> n + 1, force |-> force]]
              BY <1>1, <2>3, Updates
        <3> DEFINE new == [key |-> table[d].key, count |-> n + 1, force |-> force]
        <3>3. new \in Row /\ new # NoRow /\ new.key = table[d].key
              BY <3>1, NoRowAssumption DEF Row
        <3>4. table' = [table EXCEPT ![d] = new]
              BY <3>2
        <3> HIDE DEF d, n, new
        <3>5. QED  BY <2>1, <3>1, <3>3, <3>4
      <2>4. ASSUME NEW b \in Builders, CommitInsert(b) PROVE Keeps
        <3>1. builder[b].key.content \in Contents
              BY <1>1, <2>4, Busy DEF IInv, CommitInsert
        <3>2. QED  BY <2>1, <2>4, <3>1 DEF CommitInsert
      <2>5. ASSUME NEW k \in Keys, MarkAsProcessed(k) PROVE Keeps
        <3>1. k.content \in Contents
              BY DEF Keys
        <3>2. CASE Existing(k) # NoRow
          <4>1. table[k.content] \in Row
                BY <1>1, <3>2, Existings DEF IInv
          <4> DEFINE new == [table[k.content] EXCEPT !.count = @ + 1]
          <4>2. new \in Row /\ new # NoRow /\ new.key = table[k.content].key
                BY <4>1, NoRowAssumption DEF Row
          <4>3. table' = [table EXCEPT ![k.content] = new]
                BY <2>1, <2>5, <3>1, <3>2 DEF MarkAsProcessed
          <4> HIDE DEF new
          <4>4. QED  BY <2>1, <3>1, <4>2, <4>3
        <3>3. CASE Existing(k) = NoRow
              BY <2>1, <2>5, <3>1, <3>3 DEF MarkAsProcessed
        <3>4. QED  BY <3>2, <3>3
      <2>6. ASSUME NEW k \in Keys, MarkForceRebuild(k) PROVE Keeps
        <3>1. k.content \in Contents
              BY DEF Keys
        <3>2. table[k.content] \in Row
              BY <1>1, <2>6, Existings DEF IInv, MarkForceRebuild
        <3> DEFINE new == [table[k.content] EXCEPT !.force = TRUE]
        <3>3. new \in Row /\ new # NoRow /\ new.key = table[k.content].key
              BY <3>2, NoRowAssumption DEF Row
        <3>4. table' = [table EXCEPT ![k.content] = new]
              BY <2>1, <2>6, <3>1 DEF MarkForceRebuild
        <3> HIDE DEF new
        <3>5. QED  BY <2>1, <3>1, <3>3, <3>4
      <2> HIDE DEF Keeps
      <2>7. ASSUME NEW b \in Builders, BuilderStep(b) PROVE Keeps
            BY <2>2, <2>3, <2>4, <2>7
            DEF BuilderStep, Start, Skip, Refuse, WouldProcess, Process, CommitFails, End
      <2>8. version \in Nat /\ \A v \in 1..version : v \in Nat
            BY <1>1 DEF IInv, TypeOK
      <2>9. ASSUME NEW s \in Schemes, NEW c \in Contents, NEW f \in Names,
                   \/ MarkAsProcessed(Key(s, c, f, version))
                   \/ \E v \in 1..version : MarkForceRebuild(Key(s, c, f, v))
            PROVE  Keeps
            BY <2>5, <2>6, <2>8, <2>9, KeyIsKey
      <2>10. ASSUME Upgrade \/ \E f \in Names, c \in Contents : Edit(f, c) PROVE Keeps
            BY <2>2, <2>10 DEF Upgrade, Edit
      <2>11. QED  BY <1>1, <2>7, <2>9, <2>10 DEF Next
    <1>2. IInv /\ [Next]_vars => [Keeps]_vars
          BY <1>1
    <1>3. Spec => [][Keeps]_vars
          BY <1>2, BuildInvariant, PTL DEF Spec
    <1>4. QED  BY <1>3 DEF RowsKeepTheirKey
=============================================================================
