----------------------------- MODULE PanelProofs -----------------------------
(***************************************************************************)
(* Proofs about PanelAnalysis: what aggregations, network runs and         *)
(* pipeline runs leave in a panel's tables, for any number of sessions,    *)
(* references and texts.                                                   *)
(***************************************************************************)
EXTENDS PanelAnalysis, TLAPS

Session == Runs \cup Cmds

TypeOK ==
    /\ db \in Tables /\ draft \in Tables
    /\ lock \in Session \cup {NoSession}
    /\ doomed \subseteq Session
    /\ cmd \in [Cmds -> Command]
    /\ started \in Nat
    /\ counted \in [Refs -> Nat]
    /\ overlap \in BOOLEAN
    /\ run \in [Runs -> Run]
    /\ texts \in 0..MaxTexts

-----------------------------------------------------------------------------
Aggregates == {"references", "get", "check", "upsert", "commit"}

\* While the records say that no two aggregations have met, none do.
OneAggregates ==
    ~overlap => \A c, d \in Cmds : Aggregating(c) /\ Aggregating(d) => c = d

EdgesHaveRows(tables) == \A p \in Pairs : tables.edges[p] > 0 => HasRow(tables.applied, p)

\* `old' has no row that `new' has not.
RowsStay(old, new) == \A p \in Pairs : HasRow(old, p) => HasRow(new, p)

Once(b) == IF b THEN 1 ELSE 0

\* `count' is what an aggregation that read `read' may write for reference r.
Fits(count, r, read) ==
    /\ count <= counted[r] + Once(r \in read)
    /\ ~overlap => count = counted[r] + Once(r \in read)

\* A command has the lock only between a flush and the end of its transaction,
\* and is doomed only after one that failed.
CmdSession(c, e) ==
    /\ lock = c => e.at \in {"get", "check", "upsert", "commit", "commit flows"}
    /\ c \in doomed => e.at \in {"get", "commit", "commit flows"} /\ lock # c
    /\ e.at \in Aggregates /\ c \notin doomed /\ e.stored # {} => lock = c

\* The pairs of what an aggregation read are stored, left, or in hand.
CmdPairs(e) ==
    /\ e.at = "references" => e.read = {} /\ e.stored = {} /\ e.todo = {}
    /\ e.at \in {"get", "check", "upsert"} => e.todo \cap e.stored = {}
    /\ e.todo \subseteq {PairOf[r] : r \in e.read}
    /\ e.at \in {"check", "upsert"} =>
           e.pair \in {PairOf[r] : r \in e.read} /\ e.pair \notin e.todo \cup e.stored
    /\ ~e.errors =>
           /\ e.at = "get" => \A r \in e.read : PairOf[r] \in e.todo \cup e.stored
           /\ e.at \in {"check", "upsert"} => \A r \in e.read : PairOf[r] \in e.todo \cup e.stored \cup {e.pair}
           /\ e.at = "commit" => \A r \in e.read : PairOf[r] \in e.stored

\* The sentiment in hand counts what its aggregation read, on top of what the
\* aggregations before had counted.
CmdValue(e) ==
    /\ e.at \in {"check", "upsert"} =>
           \A r \in RefsOf(e.pair) : Fits(e.value[r], r, e.read) /\ (r \in e.read => e.value[r] > 0)
    /\ e.at = "flows" => RowsStay(e.value, db.applied)

\* What a command that is through with its aggregation has stored.
CmdStored(e) ==
    /\ e.at # "done" => e.exit = "none"
    /\ e.at \notin Aggregates /\ ~e.errors /\ e.exit # "raised" =>
           \A r \in e.read : HasRow(db.applied, PairOf[r])

\* The tables as a session that has the lock sees them.
Holds(s) ==
    lock = s =>
        /\ db.refs \subseteq draft.refs
        /\ RowsStay(db.applied, draft.applied)
        /\ EdgesHaveRows(draft)

CmdDraft(c, e) ==
    lock = c =>
        IF e.at \in Aggregates
        THEN \A r \in Refs : IF PairOf[r] \in e.stored
                             THEN Fits(draft.applied[r], r, e.read)
                             ELSE draft.applied[r] = db.applied[r]
        ELSE draft.applied = db.applied

StoredHasRows(c, e) ==
    lock = c /\ e.at \in Aggregates => \A p \in e.stored : HasRow(draft.applied, p)

CmdInv(c, e) ==
    /\ CmdSession(c, e) /\ CmdPairs(e) /\ CmdValue(e) /\ CmdStored(e)
    /\ Holds(c) /\ CmdDraft(c, e) /\ StoredHasRows(c, e)

-----------------------------------------------------------------------------
AfterGather == {"topic", "salience", "assemble", "detect", "finalize", "close", "done"}
AfterTopic == AfterGather \ {"topic"}
AfterSalience == AfterTopic \ {"salience"}
AfterDetect == {"finalize", "close", "done"}

\* A run that no stage complained of has what the stages so far give.
RunStages(e) ==
    e.errors = {} /\ e.stage # "raised" =>
        /\ e.at \in AfterGather => Collectors \subseteq e.have
        /\ e.at \in AfterTopic => "TOPIC" \in e.have
        /\ e.at \in AfterSalience => "SALIENCE" \in e.have
        /\ e.at \in AfterDetect => e.detected /\ (FailFast => e.ai)

RunResult(r, e) ==
    /\ e.at # "idle" => e.text \in 1..MaxTexts
    /\ e.at \notin {"close", "done"} => ~e.success /\ e.stage = "none"
    /\ e.at \in {"close", "done"} /\ e.stage # "raised" => (e.success <=> e.errors = {})
    /\ e.at = "close" /\ e.stage # "raised" /\ e.success /\ WithSession =>
           e.refs \subseteq lost \/ e.refs = {} \/ (lock = r /\ e.refs \subseteq draft.refs)
    /\ e.at = "done" /\ e.stage # "raised" /\ e.success /\ WithSession =>
           e.refs \subseteq db.refs \cup lost

RunSession(r, e) ==
    /\ lock = r => e.at = "close" /\ draft.applied = db.applied
    /\ r \in doomed => e.at = "close" /\ lock # r

RunInv(r, e) == RunStages(e) /\ RunResult(r, e) /\ RunSession(r, e) /\ Holds(r)

IInv ==
    /\ TypeOK
    /\ OneAggregates /\ MentionsCount /\ EdgesHaveRows(db)
    /\ \A c \in Cmds : CmdInv(c, cmd[c])
    /\ \A r \in Runs : RunInv(r, run[r])

-----------------------------------------------------------------------------
USE SessionsAssumption, StoreAssumption

\* What a step of another session leaves to session s.
Apart(s) ==
    /\ lock = s <=> lock' = s
    /\ s \in doomed <=> s \in doomed'
    /\ lock = s => db' = db /\ draft' = draft

\* What every step leaves in the committed tables.
Grows ==
    /\ db.refs \subseteq db'.refs
    /\ RowsStay(db.applied, db'.applied)
    /\ EdgesHaveRows(db)'

StoreTyped ==
    /\ db \in Tables /\ draft \in Tables
    /\ lock \in Session \cup {NoSession}
    /\ doomed \subseteq Session

LEMMA StoreUnchanged ==
  ASSUME IInv, UNCHANGED store
  PROVE  StoreTyped' /\ Grows /\ (\A s \in Session : Apart(s))
BY DEF IInv, TypeOK, store, StoreTyped, Grows, RowsStay, EdgesHaveRows, HasRow, RefsOf, Apart

LEMMA ViewTyped == ASSUME IInv, NEW s PROVE View(s) \in Tables
BY DEF IInv, TypeOK, View

LEMMA FlushStep ==
  ASSUME IInv, NEW s \in Session, NEW tables \in Tables, Flush(s, tables)
  PROVE  /\ StoreTyped' /\ Grows
         /\ lock' = s /\ draft' = tables /\ db' = db /\ doomed' = doomed
         /\ lock \in {NoSession, s}
         /\ \A t \in Session \ {s} : Apart(t)
BY DEF IInv, TypeOK, StoreTyped, Session, Flush, Busy, Grows, RowsStay, EdgesHaveRows, HasRow, RefsOf, Apart

LEMMA FlushFailsStep ==
  ASSUME IInv, NEW s \in Session, FlushFails(s)
  PROVE  /\ StoreTyped' /\ Grows
         /\ lock' # s /\ db' = db /\ doomed' = doomed \cup {s}
         /\ \A t \in Session \ {s} : Apart(t)
BY DEF IInv, TypeOK, StoreTyped, Session, FlushFails, Release, Grows, RowsStay, EdgesHaveRows, HasRow, RefsOf, Apart

LEMMA RollbackStep ==
  ASSUME IInv, NEW s \in Session, Rollback(s)
  PROVE  /\ StoreTyped' /\ Grows
         /\ lock' # s /\ db' = db /\ doomed' = doomed \ {s}
         /\ \A t \in Session \ {s} : Apart(t)
BY DEF IInv, TypeOK, StoreTyped, Session, Rollback, Release, Grows, RowsStay, EdgesHaveRows, HasRow, RefsOf, Apart

LEMMA HeldGrows == ASSUME IInv, NEW s \in Session PROVE Holds(s)
BY DEF IInv, Session, CmdInv, RunInv

LEMMA CommitStep ==
  ASSUME IInv, NEW s \in Session, Commit(s)
  PROVE  /\ StoreTyped' /\ Grows
         /\ lock' # s /\ db' = View(s) /\ doomed' = doomed /\ s \notin doomed
         /\ \A t \in Session \ {s} : Apart(t)
<1>1. db' = View(s) /\ doomed' = doomed /\ s \notin doomed
  BY DEF Commit
<1>2. lock' = (IF lock = s THEN NoSession ELSE lock) /\ draft' = (IF lock = s THEN db' ELSE draft)
  BY DEF Commit, Release
<1>3. db \in Tables /\ draft \in Tables /\ lock \in Session \cup {NoSession} /\ doomed \subseteq Session
  BY DEF IInv, TypeOK
<1>4. StoreTyped'
  BY <1>1, <1>2, <1>3, ViewTyped DEF StoreTyped
<1>5. lock' # s
  BY <1>2 DEF Session
<1>6. ASSUME NEW t \in Session \ {s} PROVE Apart(t)
  BY <1>6, <1>1, <1>2 DEF Apart, View, Session
<1>7. CASE lock = s
  <2>1. db' = draft
    BY <1>1, <1>7 DEF View
  <2>2. db.refs \subseteq draft.refs /\ RowsStay(db.applied, draft.applied) /\ EdgesHaveRows(draft)
    BY <1>7, HeldGrows DEF Holds
  <2>3. Grows
    BY <2>1, <2>2 DEF Grows, RowsStay, EdgesHaveRows, HasRow, RefsOf
  <2> QED BY <1>1, <1>4, <1>5, <1>6, <2>3
<1>8. CASE lock # s
  <2>1. db' = db
    BY <1>1, <1>8 DEF View
  <2>2. Grows
    BY <2>1 DEF IInv, Grows, RowsStay, EdgesHaveRows, HasRow, RefsOf
  <2> QED BY <1>1, <1>4, <1>5, <1>6, <2>2
<1> QED BY <1>7, <1>8

-----------------------------------------------------------------------------
\* The parts of the invariant that other sessions' steps leave alone.
LEMMA ApartHolds ==
  ASSUME IInv, NEW s \in Session, Apart(s)
  PROVE  Holds(s)'
<1>1. CASE lock' = s
  <2>1. lock = s /\ db' = db /\ draft' = draft
    BY <1>1 DEF Apart
  <2> QED BY <2>1, HeldGrows DEF Holds, RowsStay, EdgesHaveRows, HasRow, RefsOf
<1> QED BY <1>1 DEF Holds

LEMMA ApartRun ==
  ASSUME IInv, NEW r \in Runs, Apart(r), Grows, lost \subseteq lost', run'[r] = run[r]
  PROVE  RunInv(r, run[r])'
<1>1. RunInv(r, run[r])
  BY DEF IInv
<1>2. Holds(r)'
  BY ApartHolds DEF Session
<1>3. RunStages(run[r])'
  BY <1>1 DEF RunInv, RunStages
<1>4. RunSession(r, run[r])'
  BY <1>1 DEF RunInv, RunSession, Apart
<1>5. RunResult(r, run[r])'
  <2>1. run[r].at # "idle" => run[r].text \in 1..MaxTexts
    BY <1>1 DEF RunInv, RunResult
  <2>2. run[r].at \in {"close", "done"} /\ run[r].stage # "raised" => (run[r].success <=> run[r].errors = {})
    BY <1>1 DEF RunInv, RunResult
  <2>3. run[r].at = "close" /\ run[r].stage # "raised" /\ run[r].success /\ WithSession =>
           run[r].refs \subseteq lost' \/ run[r].refs = {} \/ (lock' = r /\ run[r].refs \subseteq draft'.refs)
    BY <1>1 DEF RunInv, RunResult, Apart
  <2>4. run[r].at = "done" /\ run[r].stage # "raised" /\ run[r].success /\ WithSession =>
           run[r].refs \subseteq db'.refs \cup lost'
    BY <1>1 DEF RunInv, RunResult, Grows
  <2>5. run[r].at \notin {"close", "done"} => ~run[r].success /\ run[r].stage = "none"
    BY <1>1 DEF RunInv, RunResult
  <2> QED BY <2>1, <2>2, <2>3, <2>4, <2>5 DEF RunResult
<1> QED BY <1>2, <1>3, <1>4, <1>5 DEF RunInv

\* What an aggregation's step leaves to the counts of the others.
Counts(c) ==
    /\ counted' \in [Refs -> Nat]
    /\ \A r \in Refs : counted[r] <= counted'[r]
    /\ overlap => overlap'
    /\ ~overlap' /\ Aggregating(c) => counted' = counted

LEMMA FitsStays ==
  ASSUME IInv, NEW c \in Cmds, Aggregating(c), Counts(c), overlap' \in BOOLEAN,
         NEW r \in Refs, NEW count \in Nat, NEW read, Fits(count, r, read)
  PROVE  /\ count <= counted'[r] + Once(r \in read)
         /\ ~overlap' => count = counted'[r] + Once(r \in read)
<1>1. PICK o \in Nat : o = Once(r \in read)
  BY DEF Once
<1>2. PICK a \in Nat, b \in Nat : a = counted[r] /\ b = counted'[r]
  BY DEF IInv, TypeOK, Counts
<1>3. overlap \in BOOLEAN
  BY DEF IInv, TypeOK
<1>4. count <= a + o /\ (~overlap => count = a + o)
  BY <1>1, <1>2 DEF Fits
<1>5. a <= b
  BY <1>2 DEF Counts
<1>6. ~overlap' => b = a /\ ~overlap
  BY <1>2, <1>3 DEF Counts
<1> QED BY <1>1, <1>2, <1>4, <1>5, <1>6

LEMMA ApartCmd ==
  ASSUME IInv, NEW c \in Cmds, Apart(c), Grows, Counts(c), overlap' \in BOOLEAN, cmd'[c] = cmd[c]
  PROVE  CmdInv(c, cmd[c])'
<1> DEFINE e == cmd[c]
<1>1. CmdInv(c, cmd[c])
  BY DEF IInv
<1>0. e \in Command /\ db \in Tables /\ draft \in Tables
  BY DEF IInv, TypeOK
<1>2. Holds(c)'
  BY ApartHolds DEF Session
<1>3. CmdSession(c, cmd[c])'
  BY <1>1 DEF CmdInv, CmdSession, Apart
<1>4. CmdPairs(cmd[c])'
  BY <1>1 DEF CmdInv, CmdPairs
<1>5. CmdValue(cmd[c])'
  <2>1. ASSUME cmd[c].at \in {"check", "upsert"}, NEW r \in RefsOf(cmd[c].pair)
        PROVE  Fits(cmd[c].value[r], r, cmd[c].read)' /\ (r \in cmd[c].read => cmd[c].value[r] > 0)
    <3>1. Fits(cmd[c].value[r], r, cmd[c].read) /\ (r \in cmd[c].read => cmd[c].value[r] > 0)
      BY <1>1, <2>1 DEF CmdInv, CmdValue
    <3>2. cmd[c].value[r] \in Nat /\ r \in Refs
      BY <1>0 DEF Command, RefsOf
    <3>3. Aggregating(c)
      BY <2>1 DEF Aggregating
    <3>4. /\ cmd[c].value[r] <= counted'[r] + Once(r \in cmd[c].read)
          /\ ~overlap' => cmd[c].value[r] = counted'[r] + Once(r \in cmd[c].read)
      BY <3>1, <3>2, <3>3, FitsStays
    <3> QED BY <3>1, <3>4 DEF Fits, Once
  <2>2. cmd[c].at = "flows" => RowsStay(cmd[c].value, db'.applied)
    BY <1>1 DEF CmdInv, CmdValue, Grows, RowsStay
  <2> QED BY <2>1, <2>2 DEF CmdValue, RowsStay, HasRow, RefsOf
<1>6. CmdStored(cmd[c])'
  <2>1. ASSUME NEW r \in cmd[c].read, HasRow(db.applied, PairOf[r]) PROVE HasRow(db'.applied, PairOf[r])
    <3>1. PairOf[r] \in Pairs
      BY <1>0, <2>1 DEF Command
    <3> QED BY <2>1, <3>1 DEF Grows, RowsStay
  <2>2. cmd[c].at # "done" => cmd[c].exit = "none"
    BY <1>1 DEF CmdInv, CmdStored
  <2>3. cmd[c].at \notin Aggregates /\ ~cmd[c].errors /\ cmd[c].exit # "raised" =>
           \A r \in cmd[c].read : HasRow(db'.applied, PairOf[r])
    BY <1>1, <2>1 DEF CmdInv, CmdStored
  <2> QED BY <2>2, <2>3 DEF CmdStored, HasRow, RefsOf
<1>7. CmdDraft(c, cmd[c])'
  <2>1. CASE lock' = c
    <3>1. lock = c /\ db' = db /\ draft' = draft
      BY <2>1 DEF Apart
    <3>2. CASE cmd[c].at \in Aggregates
      <4>1. ASSUME NEW r \in Refs
            PROVE  IF PairOf[r] \in cmd[c].stored
                   THEN Fits(draft.applied[r], r, cmd[c].read)'
                   ELSE draft'.applied[r] = db'.applied[r]
        <5>1. IF PairOf[r] \in cmd[c].stored
              THEN Fits(draft.applied[r], r, cmd[c].read)
              ELSE draft.applied[r] = db.applied[r]
          BY <1>1, <3>1, <3>2 DEF CmdInv, CmdDraft
        <5>2. draft.applied[r] \in Nat
          BY <1>0 DEF Tables
        <5>3. Aggregating(c)
          BY <3>2 DEF Aggregating, Aggregates
        <5>4. ASSUME PairOf[r] \in cmd[c].stored PROVE Fits(draft.applied[r], r, cmd[c].read)'
          <6>1. /\ draft.applied[r] <= counted'[r] + Once(r \in cmd[c].read)
                /\ ~overlap' => draft.applied[r] = counted'[r] + Once(r \in cmd[c].read)
            BY <5>1, <5>2, <5>3, <5>4, FitsStays
          <6> QED BY <6>1, <3>1 DEF Fits, Once
        <5> QED BY <5>1, <5>4, <3>1
      <4> QED BY <4>1, <3>2 DEF CmdDraft, Aggregates
    <3>3. CASE cmd[c].at \notin Aggregates
      BY <1>1, <3>1, <3>3 DEF CmdInv, CmdDraft, Aggregates
    <3> QED BY <3>2, <3>3
  <2> QED BY <2>1 DEF CmdDraft
<1>8. StoredHasRows(c, cmd[c])'
  BY <1>1 DEF CmdInv, StoredHasRows, Apart, HasRow, RefsOf, Aggregates
<1> QED BY <1>2, <1>3, <1>4, <1>5, <1>6, <1>7, <1>8 DEF CmdInv

-----------------------------------------------------------------------------
\* A step of a run keeps the invariant when it keeps the run's own part.
RunTyped == run \in [Runs -> Run] /\ texts \in 0..MaxTexts

LEMMA RunStepInv ==
  ASSUME IInv, NEW r \in Runs, StoreTyped', RunTyped', Grows, UNCHANGED network,
         db'.applied = db.applied, lost \subseteq lost',
         \A s \in Session \ {r} : Apart(s),
         \A s \in Runs \ {r} : run'[s] = run[s],
         RunInv(r, run[r])'
  PROVE  IInv'
<1>1. TypeOK'
  BY DEF IInv, TypeOK, StoreTyped, RunTyped, network
<1>2. OneAggregates'
  BY DEF IInv, OneAggregates, Aggregating, network
<1>3. MentionsCount'
  BY DEF IInv, MentionsCount, network
<1>4. EdgesHaveRows(db)'
  BY DEF Grows
<1>5. ASSUME NEW c \in Cmds PROVE CmdInv(c, cmd[c])'
  <2>1. c \in Session \ {r}
    BY DEF Session
  <2>2. Counts(c) /\ overlap' \in BOOLEAN /\ cmd'[c] = cmd[c]
    BY DEF IInv, TypeOK, Counts, network
  <2> QED BY <2>1, <2>2, ApartCmd
<1>6. ASSUME NEW s \in Runs PROVE RunInv(s, run[s])'
  <2>1. CASE s # r
    BY <2>1, ApartRun DEF Session
  <2> QED BY <2>1
<1> QED BY <1>1, <1>2, <1>3, <1>4, <1>5, <1>6 DEF IInv

LEMMA GotoRun ==
  ASSUME IInv, NEW r \in Runs, NEW f, Goto(r, f)
  PROVE  /\ run'[r] = With(run[r], f)
         /\ \A s \in Runs \ {r} : run'[s] = run[s]
         /\ With(run[r], f) \in Run => run' \in [Runs -> Run]
BY DEF IInv, TypeOK, Goto

LEMMA SameTexts == ASSUME IInv, UNCHANGED texts PROVE texts' \in 0..MaxTexts
BY DEF IInv, TypeOK

\* A run between its start and its last step has no lock.
LEMMA RunFree ==
  ASSUME IInv, NEW r \in Runs, run[r].at # "close"
  PROVE  lock # r /\ r \notin doomed
BY DEF IInv, RunInv, RunSession

\* What is left to show when a run does not touch the tables and does not end.
LEMMA QuietRun ==
  ASSUME IInv, NEW r \in Runs, run[r].at # "close", UNCHANGED <<store, lost, network>>, RunTyped',
         \A s \in Runs \ {r} : run'[s] = run[s],
         RunStages(run[r])', RunResult(r, run[r])'
  PROVE  IInv'
<1>1. StoreTyped' /\ Grows /\ \A s \in Session : Apart(s)
  BY StoreUnchanged
<1>2. lock' # r /\ r \notin doomed' /\ db'.applied = db.applied
  BY RunFree DEF store
<1>3. RunInv(r, run[r])'
  BY <1>2 DEF RunInv, RunSession, Holds
<1> QED BY <1>1, <1>2, <1>3, RunStepInv

LEMMA StartRunStep == ASSUME IInv, NEW r \in Runs, StartRun(r), UNCHANGED network PROVE IInv'
<1>1. PICK past \in BOOLEAN :
         run' = [run EXCEPT ![r] = [NotRun EXCEPT !.text = texts + 1, !.at = "gather", !.past = past]]
  BY DEF StartRun
<1> DEFINE e == [NotRun EXCEPT !.text = texts + 1, !.at = "gather", !.past = past]
<1>2. texts + 1 \in 1..MaxTexts /\ texts' = texts + 1 /\ run \in [Runs -> Run]
  BY PipelineAssumption DEF StartRun, IInv, TypeOK
<1>3. /\ e.text = texts + 1 /\ e.at = "gather" /\ e.past = past /\ e.have = {} /\ e.ai = FALSE
      /\ e.refs = {} /\ e.errors = {} /\ e.dki = "none" /\ e.detected = FALSE /\ e.stage = "none"
      /\ e.success = FALSE
  BY DEF NotRun
<1>4. e = [x \in DOMAIN NotRun |-> e[x]] /\ DOMAIN NotRun = {"text", "at", "past", "have", "ai", "refs",
              "errors", "dki", "detected", "stage", "success"}
  BY DEF NotRun
<1>5. run[r].at # "close" /\ UNCHANGED <<store, lost>>
  BY DEF StartRun, At
<1>6. run' = [run EXCEPT ![r] = e]
  BY <1>1
<1> HIDE DEF e
<1>7. e \in Run
  <2>1. e = [text |-> e.text, at |-> e.at, past |-> e.past, have |-> e.have, ai |-> e.ai, refs |-> e.refs,
             errors |-> e.errors, dki |-> e.dki, detected |-> e.detected, stage |-> e.stage,
             success |-> e.success]
    BY <1>4
  <2>2. e.text \in 0..MaxTexts /\ e.past \in BOOLEAN
    BY <1>2, <1>3
  <2> QED BY <1>3, <2>1, <2>2 DEF Run
<1>8. RunTyped' /\ (\A s \in Runs \ {r} : run'[s] = run[s]) /\ run'[r] = e
  BY <1>2, <1>7, <1>6 DEF RunTyped
<1>9. run'[r].text \in 1..MaxTexts /\ run'[r].at = "gather" /\ ~run'[r].success /\ run'[r].stage = "none"
  BY <1>2, <1>3, <1>8
<1>10. RunStages(run[r])' /\ RunResult(r, run[r])'
  BY <1>9 DEF RunStages, RunResult, AfterGather, AfterTopic, AfterSalience, AfterDetect
<1> QED BY <1>5, <1>8, <1>10, QuietRun

LEMMA GatherRaisesStep == ASSUME IInv, NEW r \in Runs, GatherRaises(r), UNCHANGED network PROVE IInv'
<1> DEFINE f == [at |-> "close", stage |-> "raised"]
           e == With(run[r], f)
<1>1. Goto(r, f) /\ run[r].at = "gather" /\ UNCHANGED <<store, texts, lost>>
  BY DEF GatherRaises, At
<1>2. run[r] \in Run
  BY DEF IInv, TypeOK
<1>3. e \in Run /\ e.at = "close" /\ e.stage = "raised" /\ e.text = run[r].text
  BY <1>2 DEF With, Run
<1>4. run'[r] = e /\ (\A s \in Runs \ {r} : run'[s] = run[s]) /\ run' \in [Runs -> Run]
  BY <1>1, <1>3, GotoRun
<1>5. run[r].text \in 1..MaxTexts
  BY <1>1 DEF IInv, RunInv, RunResult
<1> HIDE DEF e
<1>6. RunStages(run[r])' /\ RunResult(r, run[r])'
  BY <1>3, <1>4, <1>5 DEF RunStages, RunResult
<1> QED BY <1>1, <1>4, <1>6, SameTexts, QuietRun DEF RunTyped

LEMMA ResultsTyped ==
  ASSUME IInv, NEW r \in Runs, run[r].at = "gather"
  PROVE  CountryResults(r) \subseteq SUBSET Refs
<1>1. run[r].text \in 1..MaxTexts
  BY DEF IInv, RunInv, RunResult
<1>2. ASSUME NEW m \in Mentions PROVE Reference(r, m) \in Refs
  BY <1>1, PipelineAssumption DEF Reference
<1>3. Rules(r) \subseteq Refs
  BY <1>2 DEF Rules
<1>4. ASSUME NEW M \in SUBSET Lookup PROVE {Reference(r, m) : m \in M} \subseteq Refs
  BY <1>2 DEF Lookup
<1>5. Classified(r) \subseteq SUBSET Refs
  BY <1>4 DEF Classified
<1> QED BY <1>3, <1>5 DEF CountryResults, LlmResults

LEMMA GatherStep == ASSUME IInv, NEW r \in Runs, Gather(r), UNCHANGED network PROVE IInv'
<1>1. PICK raised \in SUBSET MayRaise, refs \in CountryResults(r), scores \in BOOLEAN :
           Goto(r, [at |-> "topic", have |-> Defaults(raised), errors |-> raised,
                    refs |-> IF "COUNTRY" \in raised THEN {} ELSE refs,
                    ai |-> scores /\ "AI" \notin raised])
  BY DEF Gather
<1>2. PICK kept \in SUBSET Refs : kept = IF "COUNTRY" \in raised THEN {} ELSE refs
  <2>1. run[r].at = "gather"
    BY DEF Gather, At
  <2> QED BY <2>1, ResultsTyped
<1>3. PICK ai \in BOOLEAN : ai = (scores /\ "AI" \notin raised)
  OBVIOUS
<1> DEFINE f == [at |-> "topic", have |-> Defaults(raised), errors |-> raised, refs |-> kept, ai |-> ai]
           e == With(run[r], f)
<1>4. Goto(r, f) /\ run[r].at = "gather" /\ UNCHANGED <<store, texts, lost>>
  <2>1. UNCHANGED <<store, texts, lost>> /\ run[r].at = "gather"
    BY DEF Gather, At
  <2> QED BY <1>1, <1>2, <1>3, <2>1
<1>5. run[r] \in Run /\ run[r].text \in 1..MaxTexts /\ ~run[r].success /\ run[r].stage = "none"
  BY <1>4 DEF IInv, TypeOK, RunInv, RunResult
<1>6. raised \in SUBSET Tags /\ Defaults(raised) \in SUBSET Tags
  BY PipelineAssumption DEF Defaults, Tags
<1>7. /\ e \in Run /\ e.at = "topic" /\ e.have = Defaults(raised) /\ e.errors = raised
      /\ e.text = run[r].text /\ e.stage = run[r].stage /\ e.success = run[r].success
  BY <1>5, <1>6 DEF With, Run
<1>8. run'[r] = e /\ (\A s \in Runs \ {r} : run'[s] = run[s]) /\ run' \in [Runs -> Run]
  BY <1>4, <1>7, GotoRun
<1> HIDE DEF e
<1>9. RunStages(run[r])' /\ RunResult(r, run[r])'
  BY <1>5, <1>7, <1>8 DEF RunStages, RunResult, Defaults, AfterTopic, AfterSalience, AfterDetect
<1> QED BY <1>4, <1>8, <1>9, SameTexts, QuietRun DEF RunTyped

\* The steps between the gather and the end of a run, which gives up early
\* only when a stage failed.
LEMMA StageStep ==
  ASSUME IInv, NEW r \in Runs, run[r].at \notin {"idle", "close", "done"}, UNCHANGED <<store, texts, lost, network>>,
         NEW e \in Run, run' = [run EXCEPT ![r] = e], e.text = run[r].text, e.success = run[r].success,
         \/ e.at = "close" /\ e.errors # {}
         \/ e.at \notin {"close", "done"} /\ e.stage = run[r].stage,
         RunStages(e)
  PROVE  IInv'
<1>1. run' \in [Runs -> Run] /\ (\A s \in Runs \ {r} : run'[s] = run[s]) /\ run'[r] = e
  BY DEF IInv, TypeOK
<1>2. run[r].text \in 1..MaxTexts /\ ~run[r].success /\ run[r].stage = "none"
  BY DEF IInv, RunInv, RunResult
<1>3. RunStages(run[r])' /\ RunResult(r, run[r])'
  BY <1>1, <1>2 DEF RunStages, RunResult
<1> QED BY <1>1, <1>3, SameTexts, QuietRun DEF RunTyped

LEMMA Stages ==
  ASSUME IInv, NEW r \in Runs
  PROVE  run[r] \in Run /\ RunStages(run[r])
BY DEF IInv, TypeOK, RunInv

LEMMA TopicStep == ASSUME IInv, NEW r \in Runs, Topic(r), UNCHANGED network PROVE IInv'
<1>1. run[r].at = "topic" /\ UNCHANGED <<store, texts, lost>>
  BY DEF Topic, At
<1>2. run[r] \in Run /\ RunStages(run[r])
  BY Stages
<1>3. CASE "TOKENIZER" \notin run[r].have /\ Goto(r, [at |-> "salience"])
  <2>1. PICK e : e = With(run[r], [at |-> "salience"])
    OBVIOUS
  <2>2. /\ e \in Run /\ e.at = "salience" /\ e.have = run[r].have /\ e.errors = run[r].errors
        /\ e.text = run[r].text /\ e.stage = run[r].stage /\ e.success = run[r].success
    BY <1>2, <2>1 DEF With, Run
  <2>3. e.stage # "raised" => e.errors # {}
    BY <1>1, <1>2, <1>3, <2>2 DEF RunStages, AfterGather, Collectors
  <2>4. RunStages(e)
    BY <2>3 DEF RunStages
  <2> QED BY <1>1, <1>3, <2>1, <2>2, <2>4, StageStep DEF Goto
<1>4. CASE Goto(r, [at |-> "salience", have |-> run[r].have \cup {"TOPIC"}])
  <2>1. PICK e : e = With(run[r], [at |-> "salience", have |-> run[r].have \cup {"TOPIC"}])
    OBVIOUS
  <2>2. /\ e.at = "salience" /\ e.have = run[r].have \cup {"TOPIC"} /\ e.errors = run[r].errors
        /\ e.text = run[r].text /\ e.stage = run[r].stage /\ e.success = run[r].success
    BY <1>2, <2>1 DEF With, Run
  <2>3. e \in Run
    <3>1. run[r].have \cup {"TOPIC"} \in SUBSET Tags
      BY <1>2 DEF Run, Tags
    <3> QED BY <1>2, <2>1, <3>1 DEF With, Run
  <2>4. RunStages(e)
    BY <1>1, <1>2, <2>2 DEF RunStages, AfterGather, AfterTopic, AfterSalience, AfterDetect
  <2> QED BY <1>1, <1>4, <2>1, <2>2, <2>3, <2>4, StageStep DEF Goto
<1>5. CASE Goto(r, [at |-> "salience", errors |-> run[r].errors \cup {"TOPIC"}])
  <2>1. PICK e : e = With(run[r], [at |-> "salience", errors |-> run[r].errors \cup {"TOPIC"}])
    OBVIOUS
  <2>2. e.at = "salience" /\ e.errors = run[r].errors \cup {"TOPIC"} /\ e.text = run[r].text /\ e.success = run[r].success
        /\ e.stage = run[r].stage
    BY <1>2, <2>1 DEF With, Run
  <2>3. e \in Run
    <3>1. run[r].errors \cup {"TOPIC"} \in SUBSET Tags
      BY <1>2 DEF Run, Tags
    <3> QED BY <1>2, <2>1, <3>1 DEF With, Run
  <2>4. RunStages(e)
    BY <2>2 DEF RunStages
  <2> QED BY <1>1, <1>5, <2>1, <2>2, <2>3, <2>4, StageStep DEF Goto
<1> QED BY <1>3, <1>4, <1>5 DEF Topic

LEMMA SalienceStep == ASSUME IInv, NEW r \in Runs, Salience(r), UNCHANGED network PROVE IInv'
<1>1. run[r].at = "salience" /\ UNCHANGED <<store, texts, lost>>
  BY DEF Salience, At
<1>2. run[r] \in Run /\ RunStages(run[r])
  BY Stages
<1>3. CASE "FRAME" \notin run[r].have /\ Goto(r, [at |-> "assemble"])
  <2>1. PICK e : e = With(run[r], [at |-> "assemble"])
    OBVIOUS
  <2>2. /\ e \in Run /\ e.at = "assemble" /\ e.have = run[r].have /\ e.errors = run[r].errors
        /\ e.text = run[r].text /\ e.stage = run[r].stage /\ e.success = run[r].success
    BY <1>2, <2>1 DEF With, Run
  <2>3. e.stage # "raised" => e.errors # {}
    BY <1>1, <1>2, <1>3, <2>2 DEF RunStages, AfterGather, Collectors
  <2>4. RunStages(e)
    BY <2>3 DEF RunStages
  <2> QED BY <1>1, <1>3, <2>1, <2>2, <2>4, StageStep DEF Goto
<1>4. CASE Goto(r, [at |-> "assemble", have |-> run[r].have \cup {"SALIENCE"}])
  <2>1. PICK e : e = With(run[r], [at |-> "assemble", have |-> run[r].have \cup {"SALIENCE"}])
    OBVIOUS
  <2>2. /\ e.at = "assemble" /\ e.have = run[r].have \cup {"SALIENCE"} /\ e.errors = run[r].errors
        /\ e.text = run[r].text /\ e.stage = run[r].stage /\ e.success = run[r].success
    BY <1>2, <2>1 DEF With, Run
  <2>3. e \in Run
    <3>1. run[r].have \cup {"SALIENCE"} \in SUBSET Tags
      BY <1>2 DEF Run, Tags
    <3> QED BY <1>2, <2>1, <3>1 DEF With, Run
  <2>4. RunStages(e)
    BY <1>1, <1>2, <2>2 DEF RunStages, AfterGather, AfterTopic, AfterSalience, AfterDetect
  <2> QED BY <1>1, <1>4, <2>1, <2>2, <2>3, <2>4, StageStep DEF Goto
<1>5. CASE Goto(r, [at |-> "assemble", errors |-> run[r].errors \cup {"SALIENCE"}])
  <2>1. PICK e : e = With(run[r], [at |-> "assemble", errors |-> run[r].errors \cup {"SALIENCE"}])
    OBVIOUS
  <2>2. e.at = "assemble" /\ e.errors = run[r].errors \cup {"SALIENCE"} /\ e.text = run[r].text /\ e.success = run[r].success
        /\ e.stage = run[r].stage
    BY <1>2, <2>1 DEF With, Run
  <2>3. e \in Run
    <3>1. run[r].errors \cup {"SALIENCE"} \in SUBSET Tags
      BY <1>2 DEF Run, Tags
    <3> QED BY <1>2, <2>1, <3>1 DEF With, Run
  <2>4. RunStages(e)
    BY <2>2 DEF RunStages
  <2> QED BY <1>1, <1>5, <2>1, <2>2, <2>3, <2>4, StageStep DEF Goto
<1> QED BY <1>3, <1>4, <1>5 DEF Salience

LEMMA AssembleStep == ASSUME IInv, NEW r \in Runs, Assemble(r), UNCHANGED network PROVE IInv'
<1>1. PICK d \in Dki(r) : Goto(r, [at |-> "detect", dki |-> d])
  BY DEF Assemble
<1>2. run[r].at = "assemble" /\ UNCHANGED <<store, texts, lost>>
  BY DEF Assemble, At
<1>3. run[r] \in Run /\ RunStages(run[r])
  BY Stages
<1>4. d \in {"none", "neutral", "shift"}
  BY DEF Dki
<1>5. PICK e : e = With(run[r], [at |-> "detect", dki |-> d])
  OBVIOUS
<1>6. /\ e \in Run /\ e.at = "detect" /\ e.have = run[r].have /\ e.errors = run[r].errors
      /\ e.text = run[r].text /\ e.stage = run[r].stage /\ e.success = run[r].success
  BY <1>3, <1>4, <1>5 DEF With, Run
<1>7. RunStages(e)
  BY <1>2, <1>3, <1>6 DEF RunStages, AfterGather, AfterTopic, AfterSalience, AfterDetect
<1> QED BY <1>1, <1>2, <1>5, <1>6, <1>7, StageStep DEF Goto

LEMMA AssembleFailsStep == ASSUME IInv, NEW r \in Runs, AssembleFails(r), UNCHANGED network PROVE IInv'
<1>1. /\ Goto(r, [at |-> "close", errors |-> run[r].errors \cup {"ASSEMBLE"}, stage |-> "assemble"])
      /\ run[r].at = "assemble" /\ UNCHANGED <<store, texts, lost>>
  BY DEF AssembleFails, At
<1>2. run[r] \in Run
  BY Stages
<1>3. PICK e : e = With(run[r], [at |-> "close", errors |-> run[r].errors \cup {"ASSEMBLE"}, stage |-> "assemble"])
  OBVIOUS
<1>4. /\ e.at = "close" /\ e.errors = run[r].errors \cup {"ASSEMBLE"} /\ e.text = run[r].text
      /\ e.success = run[r].success
  BY <1>2, <1>3 DEF With, Run
<1>5. e \in Run
  <2>1. run[r].errors \cup {"ASSEMBLE"} \in SUBSET Tags
    BY <1>2 DEF Run, Tags
  <2> QED BY <1>2, <1>3, <2>1 DEF With, Run
<1>6. e.errors # {}
  BY <1>4
<1>7. RunStages(e)
  BY <1>6 DEF RunStages
<1>8. run' = [run EXCEPT ![r] = e]
  BY <1>1, <1>3 DEF Goto
<1>9. run[r].at \notin {"idle", "close", "done"}
  BY <1>1
<1> QED BY <1>1, <1>4, <1>5, <1>6, <1>7, <1>8, <1>9, StageStep

LEMMA MissingAiStep == ASSUME IInv, NEW r \in Runs, MissingAi(r), UNCHANGED network PROVE IInv'
<1>1. /\ Goto(r, [at |-> "finalize", errors |-> run[r].errors \cup {"MISSING_AI"}])
      /\ run[r].at = "detect" /\ UNCHANGED <<store, texts, lost>>
  BY DEF MissingAi, At
<1>2. run[r] \in Run
  BY Stages
<1>3. PICK e : e = With(run[r], [at |-> "finalize", errors |-> run[r].errors \cup {"MISSING_AI"}])
  OBVIOUS
<1>4. e.at = "finalize" /\ e.errors = run[r].errors \cup {"MISSING_AI"} /\ e.text = run[r].text /\ e.success = run[r].success
      /\ e.stage = run[r].stage
  BY <1>2, <1>3 DEF With, Run
<1>5. e \in Run
  <2>1. run[r].errors \cup {"MISSING_AI"} \in SUBSET Tags
    BY <1>2 DEF Run, Tags
  <2> QED BY <1>2, <1>3, <2>1 DEF With, Run
<1>6. RunStages(e)
  BY <1>4 DEF RunStages
<1> QED BY <1>1, <1>3, <1>4, <1>5, <1>6, StageStep DEF Goto

LEMMA DetectStep == ASSUME IInv, NEW r \in Runs, Detect(r), UNCHANGED network PROVE IInv'
<1>1. run[r].at = "detect" /\ ~(FailFast /\ ~run[r].ai) /\ UNCHANGED <<store, texts, lost>>
  BY DEF Detect, At, HasAiOutput
<1>2. run[r] \in Run /\ RunStages(run[r])
  BY Stages
<1>3. CASE Goto(r, [at |-> "finalize", detected |-> TRUE])
  <2>1. PICK e : e = With(run[r], [at |-> "finalize", detected |-> TRUE])
    OBVIOUS
  <2>2. /\ e \in Run /\ e.at = "finalize" /\ e.have = run[r].have /\ e.errors = run[r].errors
        /\ e.text = run[r].text /\ e.stage = run[r].stage /\ e.success = run[r].success /\ e.detected = TRUE /\ e.ai = run[r].ai
    BY <1>2, <2>1 DEF With, Run
  <2>3. RunStages(e)
    BY <1>1, <1>2, <2>2 DEF RunStages, AfterGather, AfterTopic, AfterSalience, AfterDetect
  <2> QED BY <1>1, <1>3, <2>1, <2>2, <2>3, StageStep DEF Goto
<1>4. CASE Goto(r, [at |-> "finalize", errors |-> run[r].errors \cup {"DETECT"}])
  <2>1. PICK e : e = With(run[r], [at |-> "finalize", errors |-> run[r].errors \cup {"DETECT"}])
    OBVIOUS
  <2>2. e.at = "finalize" /\ e.errors = run[r].errors \cup {"DETECT"} /\ e.text = run[r].text /\ e.success = run[r].success
        /\ e.stage = run[r].stage
    BY <1>2, <2>1 DEF With, Run
  <2>3. e \in Run
    <3>1. run[r].errors \cup {"DETECT"} \in SUBSET Tags
      BY <1>2 DEF Run, Tags
    <3> QED BY <1>2, <2>1, <3>1 DEF With, Run
  <2>4. RunStages(e)
    BY <2>2 DEF RunStages
  <2> QED BY <1>1, <1>4, <2>1, <2>2, <2>3, <2>4, StageStep DEF Goto
<1> QED BY <1>3, <1>4 DEF Detect

\* FINALIZE ends every run alike.
LEMMA CompletedRun ==
  ASSUME IInv, NEW r \in Runs, run[r].at = "finalize", Goto(r, Completed(r)), UNCHANGED texts
  PROVE  /\ RunTyped'
         /\ \A s \in Runs \ {r} : run'[s] = run[s]
         /\ run'[r].at = "close" /\ run'[r].stage # "raised" /\ run'[r].refs = run[r].refs
         /\ run'[r].text \in 1..MaxTexts
         /\ run'[r].success <=> run'[r].errors = {}
         /\ RunStages(run[r])'
<1>1. run[r] \in Run /\ RunStages(run[r])
  BY Stages
<1>2. PICK b \in BOOLEAN : b = (run[r].errors = {})
  OBVIOUS
<1>3. PICK g \in {"completed", "completed_with_errors"} : g = IF run[r].errors = {} THEN "completed" ELSE "completed_with_errors"
  OBVIOUS
<1>4. PICK e : e = With(run[r], [at |-> "close", success |-> b, stage |-> g])
  OBVIOUS
<1>5. Completed(r) = [at |-> "close", success |-> b, stage |-> g]
  BY <1>2, <1>3 DEF Completed
<1>6. run' = [run EXCEPT ![r] = e]
  BY <1>4, <1>5 DEF Goto
<1>7. /\ e \in Run /\ e.at = "close" /\ e.have = run[r].have /\ e.errors = run[r].errors
      /\ e.text = run[r].text /\ e.stage = g /\ e.success = b /\ e.detected = run[r].detected
      /\ e.ai = run[r].ai /\ e.refs = run[r].refs
  BY <1>1, <1>4 DEF With, Run
<1>8. run[r].text \in 1..MaxTexts
  BY DEF IInv, RunInv, RunResult
<1>9. run[r].errors = {} => run[r].stage # "raised"
  BY DEF IInv, RunInv, RunResult
<1>10. run'[r] = e /\ run' \in [Runs -> Run] /\ \A s \in Runs \ {r} : run'[s] = run[s]
  BY <1>6, <1>7 DEF IInv, TypeOK
<1>11. RunStages(e)
  BY <1>1, <1>7, <1>9 DEF RunStages, AfterGather, AfterTopic, AfterSalience, AfterDetect
<1>12. RunStages(run[r])'
  BY <1>10, <1>11 DEF RunStages
<1> QED BY <1>2, <1>3, <1>7, <1>8, <1>10, <1>12, SameTexts DEF RunTyped

LEMMA FinalizeStep == ASSUME IInv, NEW r \in Runs, Finalize(r), UNCHANGED network PROVE IInv'
<1>1. run[r].at = "finalize" /\ Goto(r, Completed(r)) /\ UNCHANGED <<texts, lost>>
  BY DEF Finalize, At
<1>2. lock # r /\ r \notin doomed
  BY <1>1, RunFree
<1>3. CASE WithSession /\ run[r].refs # {}
  <2> DEFINE tables == [db EXCEPT !.refs = @ \cup run[r].refs]
  <2>1. Flush(r, tables)
    BY <1>2, <1>3 DEF Finalize, View
  <2>2. db \in Tables /\ run[r].refs \in SUBSET Refs
    BY DEF IInv, TypeOK, Run
  <2>3. /\ tables.refs = db.refs \cup run[r].refs /\ tables.applied = db.applied
        /\ tables.edges = db.edges /\ tables \in Tables
    BY <2>2 DEF Tables
  <2> HIDE DEF tables
  <2>4. /\ StoreTyped' /\ Grows
        /\ lock' = r /\ draft' = tables /\ db' = db /\ doomed' = doomed
        /\ \A s \in Session \ {r} : Apart(s)
    BY <2>1, <2>3, FlushStep DEF Session
  <2>5. EdgesHaveRows(draft)'
    BY <2>3, <2>4 DEF IInv, EdgesHaveRows, HasRow, RefsOf
  <2>6. RowsStay(db.applied, draft.applied)'
    BY <2>3, <2>4 DEF RowsStay
  <2>7. Holds(r)'
    BY <2>3, <2>4, <2>5, <2>6 DEF Holds
  <2>8. RunSession(r, run[r])'
    BY <1>1, <1>2, <2>3, <2>4, CompletedRun DEF RunSession
  <2>9. RunResult(r, run[r])'
    BY <1>1, <2>3, <2>4, CompletedRun DEF RunResult
  <2>10. RunInv(r, run[r])'
    BY <1>1, <2>7, <2>8, <2>9, CompletedRun DEF RunInv
  <2> QED BY <1>1, <2>4, <2>10, CompletedRun, RunStepInv
<1>4. CASE ~(WithSession /\ run[r].refs # {})
  <2>1. UNCHANGED store
    BY <1>4 DEF Finalize
  <2>2. StoreTyped' /\ Grows /\ (\A s \in Session : Apart(s)) /\ lock' # r /\ r \notin doomed' /\ db' = db
    BY <1>2, <2>1, StoreUnchanged DEF store
  <2>3. RunSession(r, run[r])' /\ Holds(r)'
    BY <2>2 DEF RunSession, Holds
  <2>4. RunResult(r, run[r])'
    BY <1>1, <1>4, CompletedRun DEF RunResult
  <2>5. RunInv(r, run[r])'
    BY <1>1, <2>3, <2>4, CompletedRun DEF RunInv
  <2> QED BY <1>1, <2>2, <2>5, CompletedRun, RunStepInv
<1> QED BY <1>3, <1>4

LEMMA FinalizeFailsStep == ASSUME IInv, NEW r \in Runs, FinalizeFails(r), UNCHANGED network PROVE IInv'
<1>1. /\ run[r].at = "finalize" /\ Goto(r, Completed(r)) /\ UNCHANGED texts
      /\ lost' = lost \cup run[r].refs /\ FlushFails(r)
  BY DEF FinalizeFails, At
<1>2. /\ StoreTyped' /\ Grows
      /\ lock' # r /\ db' = db /\ doomed' = doomed \cup {r}
      /\ \A s \in Session \ {r} : Apart(s)
  BY <1>1, FlushFailsStep DEF Session
<1>3. RunSession(r, run[r])' /\ Holds(r)'
  BY <1>1, <1>2, CompletedRun DEF RunSession, Holds
<1>4. RunResult(r, run[r])'
  BY <1>1, <1>2, CompletedRun DEF RunResult
<1>5. RunInv(r, run[r])'
  BY <1>1, <1>3, <1>4, CompletedRun DEF RunInv
<1> QED BY <1>1, <1>2, <1>5, CompletedRun, RunStepInv

\* Closing the session changes nothing of the run's result.
LEMMA ClosedRun ==
  ASSUME IInv, NEW r \in Runs, run[r].at = "close", Goto(r, [at |-> "done"]), UNCHANGED texts
  PROVE  /\ RunTyped'
         /\ \A s \in Runs \ {r} : run'[s] = run[s]
         /\ run'[r].at = "done" /\ run'[r].refs = run[r].refs /\ run'[r].stage = run[r].stage
         /\ run'[r].success = run[r].success
         /\ run'[r].text \in 1..MaxTexts
         /\ run'[r].stage # "raised" => (run'[r].success <=> run'[r].errors = {})
         /\ RunStages(run[r])'
<1>1. run[r] \in Run /\ RunStages(run[r])
  BY Stages
<1>2. PICK e : e = With(run[r], [at |-> "done"])
  OBVIOUS
<1>3. run' = [run EXCEPT ![r] = e]
  BY <1>2 DEF Goto
<1>4. /\ e \in Run /\ e.at = "done" /\ e.have = run[r].have /\ e.errors = run[r].errors
      /\ e.text = run[r].text /\ e.stage = run[r].stage /\ e.success = run[r].success
      /\ e.detected = run[r].detected /\ e.ai = run[r].ai /\ e.refs = run[r].refs
  BY <1>1, <1>2 DEF With, Run
<1>5. /\ run[r].text \in 1..MaxTexts
      /\ run[r].stage # "raised" => (run[r].success <=> run[r].errors = {})
  BY DEF IInv, RunInv, RunResult
<1>6. run'[r] = e /\ run' \in [Runs -> Run] /\ \A s \in Runs \ {r} : run'[s] = run[s]
  BY <1>3, <1>4 DEF IInv, TypeOK
<1>7. RunStages(e)
  BY <1>1, <1>4 DEF RunStages, AfterGather, AfterTopic, AfterSalience, AfterDetect
<1>8. RunStages(run[r])'
  BY <1>6, <1>7 DEF RunStages
<1> QED BY <1>4, <1>5, <1>6, <1>8, SameTexts DEF RunTyped

LEMMA CallerCommitsStep == ASSUME IInv, NEW r \in Runs, CallerCommits(r), UNCHANGED network PROVE IInv'
<1>1. /\ run[r].at = "close" /\ Goto(r, [at |-> "done"]) /\ UNCHANGED <<texts, lost>> /\ Commit(r)
  BY DEF CallerCommits, At
<1>2. /\ StoreTyped' /\ Grows
      /\ lock' # r /\ db' = View(r) /\ doomed' = doomed /\ r \notin doomed
      /\ \A s \in Session \ {r} : Apart(s)
  BY <1>1, CommitStep DEF Session
<1>3. lock = r => draft.applied = db.applied
  BY DEF IInv, RunInv, RunSession
<1>4. db'.applied = db.applied
  BY <1>2, <1>3 DEF View
<1>5. run[r].stage # "raised" /\ run[r].success /\ WithSession => run[r].refs \subseteq db'.refs \cup lost
  <2>1. run[r].stage # "raised" /\ run[r].success /\ WithSession =>
           run[r].refs \subseteq lost \/ run[r].refs = {} \/ (lock = r /\ run[r].refs \subseteq draft.refs)
    BY <1>1 DEF IInv, RunInv, RunResult
  <2> QED BY <1>2, <2>1 DEF View
<1>6. RunSession(r, run[r])' /\ Holds(r)'
  BY <1>2 DEF RunSession, Holds
<1>7. RunResult(r, run[r])'
  BY <1>1, <1>5, ClosedRun DEF RunResult
<1>8. RunInv(r, run[r])'
  BY <1>1, <1>6, <1>7, ClosedRun DEF RunInv
<1> QED BY <1>1, <1>2, <1>4, <1>8, ClosedRun, RunStepInv

LEMMA CallerRollsBackStep == ASSUME IInv, NEW r \in Runs, CallerRollsBack(r), UNCHANGED network PROVE IInv'
<1>1. /\ run[r].at = "close" /\ Goto(r, [at |-> "done"]) /\ UNCHANGED texts /\ Rollback(r)
      /\ lost' = lost \cup run[r].refs
  BY DEF CallerRollsBack, At
<1>2. /\ StoreTyped' /\ Grows
      /\ lock' # r /\ db' = db /\ doomed' = doomed \ {r}
      /\ \A s \in Session \ {r} : Apart(s)
  BY <1>1, RollbackStep DEF Session
<1>3. RunSession(r, run[r])' /\ Holds(r)'
  BY <1>2 DEF RunSession, Holds
<1>4. RunResult(r, run[r])'
  BY <1>1, ClosedRun DEF RunResult
<1>5. RunInv(r, run[r])'
  BY <1>1, <1>3, <1>4, ClosedRun DEF RunInv
<1> QED BY <1>1, <1>2, <1>5, ClosedRun, RunStepInv

LEMMA RunsStep == ASSUME IInv, PipelineNext, UNCHANGED network PROVE IInv'
<1>1. PICK r \in Runs : RunStep(r)
  BY DEF PipelineNext
<1> QED BY <1>1, StartRunStep, GatherRaisesStep, GatherStep, TopicStep, SalienceStep, AssembleStep,
           AssembleFailsStep, MissingAiStep, DetectStep, FinalizeStep, FinalizeFailsStep,
           CallerCommitsStep, CallerRollsBackStep DEF RunStep

-----------------------------------------------------------------------------
\* A step of a command keeps the invariant when it keeps the command's own part.
NetworkTyped ==
    cmd \in [Cmds -> Command] /\ started \in Nat /\ counted \in [Refs -> Nat] /\ overlap \in BOOLEAN

LEMMA CmdStepInv ==
  ASSUME IInv, NEW c \in Cmds, StoreTyped', NetworkTyped', Grows, UNCHANGED pipeline,
         \A s \in Session \ {c} : Apart(s),
         \A d \in Cmds \ {c} : cmd'[d] = cmd[d] /\ Counts(d),
         OneAggregates', MentionsCount',
         CmdInv(c, cmd[c])'
  PROVE  IInv'
<1>1. TypeOK'
  BY DEF IInv, TypeOK, StoreTyped, NetworkTyped, pipeline
<1>2. EdgesHaveRows(db)'
  BY DEF Grows
<1>3. ASSUME NEW r \in Runs PROVE RunInv(r, run[r])'
  <2>1. Apart(r) /\ run'[r] = run[r] /\ lost' = lost
    BY SessionsAssumption DEF Session, pipeline
  <2> QED BY <2>1, ApartRun
<1>4. ASSUME NEW d \in Cmds PROVE CmdInv(d, cmd[d])'
  <2>1. CASE d # c
    BY <2>1, ApartCmd DEF Session, NetworkTyped
  <2> QED BY <2>1
<1> QED BY <1>1, <1>2, <1>3, <1>4 DEF IInv

\* No step but a start and the end of an aggregation touches the counts.
LEMMA Uncounted ==
  ASSUME IInv, NEW c \in Cmds, NEW e \in Command, cmd' = [cmd EXCEPT ![c] = e],
         UNCHANGED <<started, counted, overlap>>, db'.applied = db.applied,
         e.at \in Aggregates => Aggregating(c)
  PROVE  /\ NetworkTyped'
         /\ \A d \in Cmds \ {c} : cmd'[d] = cmd[d] /\ Counts(d)
         /\ OneAggregates' /\ MentionsCount'
         /\ cmd'[c] = e
<1>1. NetworkTyped' /\ cmd'[c] = e /\ \A d \in Cmds \ {c} : cmd'[d] = cmd[d]
  BY DEF IInv, TypeOK, NetworkTyped
<1>2. ASSUME NEW d \in Cmds PROVE Counts(d)
  BY DEF IInv, TypeOK, Counts
<1>3. ASSUME NEW d \in Cmds, Aggregating(d)' PROVE Aggregating(d)
  BY <1>1, <1>3 DEF Aggregating, Aggregates
<1>4. OneAggregates'
  BY <1>3 DEF IInv, OneAggregates
<1>5. MentionsCount'
  BY DEF IInv, MentionsCount
<1> QED BY <1>1, <1>2, <1>4, <1>5

LEMMA QuietCmd ==
  ASSUME IInv, NEW c \in Cmds, NEW e \in Command, cmd' = [cmd EXCEPT ![c] = e],
         UNCHANGED <<store, started, counted, overlap, pipeline>>,
         e.at \in Aggregates => Aggregating(c),
         CmdSession(c, e), CmdPairs(e), CmdValue(e), CmdStored(e), CmdDraft(c, e), StoredHasRows(c, e)
  PROVE  IInv'
<1>1. StoreTyped' /\ Grows /\ \A s \in Session : Apart(s)
  BY StoreUnchanged
<1>2. UNCHANGED <<db, draft, lock, doomed>>
  BY DEF store
<1>3. cmd'[c] = e
  BY <1>2, Uncounted
<1>4. Holds(c)'
  BY <1>1, ApartHolds DEF Session
<1>5. CmdSession(c, cmd[c])' /\ CmdPairs(cmd[c])'
  BY <1>2, <1>3 DEF CmdSession, CmdPairs
<1>6. CmdValue(cmd[c])'
  BY <1>2, <1>3 DEF CmdValue, Fits, Once, RowsStay, HasRow, RefsOf
<1>7. CmdStored(cmd[c])'
  BY <1>2, <1>3 DEF CmdStored, HasRow, RefsOf, Aggregates
<1>8. CmdDraft(c, cmd[c])'
  BY <1>2, <1>3 DEF CmdDraft, Fits, Once, Aggregates
<1>9. StoredHasRows(c, cmd[c])'
  BY <1>2, <1>3 DEF StoredHasRows, HasRow, RefsOf, Aggregates
<1>10. CmdInv(c, cmd[c])'
  BY <1>4, <1>5, <1>6, <1>7, <1>8, <1>9 DEF CmdInv
<1> QED BY <1>1, <1>2, <1>10, CmdStepInv, Uncounted

LEMMA ToCmd ==
  ASSUME IInv, NEW c \in Cmds, NEW f, To(c, f)
  PROVE  cmd' = [cmd EXCEPT ![c] = With(cmd[c], f)]
BY DEF To

LEMMA OfCmd ==
  ASSUME IInv, NEW c \in Cmds
  PROVE  /\ cmd[c] \in Command /\ CmdInv(c, cmd[c])
         /\ db \in Tables /\ draft \in Tables /\ counted \in [Refs -> Nat] /\ overlap \in BOOLEAN
BY DEF IInv, TypeOK

LEMMA StartStep ==
  ASSUME IInv, NEW c \in Cmds, NEW kind \in Kinds, Start(c, kind), UNCHANGED pipeline
  PROVE  IInv'
<1> DEFINE at == IF kind = "network" THEN "sentiments" ELSE "references"
           e == [Idle EXCEPT !.kind = kind, !.at = at]
<1>1. /\ cmd[c].at \in {"idle", "done"}
      /\ started' = started + 1 /\ started \in Nat
      /\ cmd' = [cmd EXCEPT ![c] = e]
      /\ overlap' = (overlap \/ (kind # "network" /\ \E d \in Cmds \ {c} : Aggregating(d)))
      /\ UNCHANGED <<store, counted>>
  BY DEF Start, IInv, TypeOK
<1>2. /\ e.at = at /\ e.read = {} /\ e.todo = {} /\ e.stored = {} /\ e.errors = FALSE /\ e.exit = "none"
      /\ e.kind = kind /\ e.pair = NoPair /\ e.value = None /\ e.fresh = FALSE
  BY DEF Idle
<1>3. e = [x \in DOMAIN Idle |-> e[x]] /\ DOMAIN Idle = {"kind", "at", "read", "todo", "pair", "value",
              "fresh", "stored", "errors", "exit"}
  BY DEF Idle
<1>4. at \in {"sentiments", "references"} /\ (at = "references" <=> kind # "network")
  OBVIOUS
<1> HIDE DEF e, at
<1>5. e \in Command
  <2>1. e = [kind |-> e.kind, at |-> e.at, read |-> e.read, todo |-> e.todo, pair |-> e.pair,
             value |-> e.value, fresh |-> e.fresh, stored |-> e.stored, errors |-> e.errors, exit |-> e.exit]
    BY <1>3
  <2>2. None \in [Refs -> Nat]
    BY DEF None
  <2> QED BY <1>2, <1>4, <2>1, <2>2 DEF Command, Kinds
<1>6. PICK x \in Command : x = e
  BY <1>5
<1>7. cmd'[c] = x /\ (\A d \in Cmds \ {c} : cmd'[d] = cmd[d]) /\ cmd' \in [Cmds -> Command]
  BY <1>1, <1>6 DEF IInv, TypeOK
<1>8. lock # c /\ c \notin doomed
  BY <1>1 DEF IInv, CmdInv, CmdSession
<1>9. StoreTyped' /\ Grows /\ (\A s \in Session : Apart(s)) /\ UNCHANGED <<db, draft, lock, doomed>>
  BY <1>1, StoreUnchanged DEF store
<1>10. overlap' \in BOOLEAN /\ (overlap => overlap') /\ counted' = counted
  BY <1>1 DEF IInv, TypeOK
<1>11. NetworkTyped'
  BY <1>1, <1>7, <1>10 DEF NetworkTyped, IInv, TypeOK
<1>12. ASSUME NEW d \in Cmds PROVE Counts(d)
  BY <1>10 DEF Counts, IInv, TypeOK
<1>13. OneAggregates'
  <2>1. ASSUME ~overlap', NEW a \in Cmds, NEW b \in Cmds, Aggregating(a)', Aggregating(b)', a # b
        PROVE  FALSE
    <3>1. ~overlap /\ ~(kind # "network" /\ \E d \in Cmds \ {c} : Aggregating(d))
      BY <1>1, <2>1 DEF IInv, TypeOK
    <3>2. ASSUME NEW d \in Cmds \ {c}, Aggregating(d)' PROVE Aggregating(d)
      BY <1>7, <3>2 DEF Aggregating
    <3>3. Aggregating(c)' => kind # "network"
      BY <1>2, <1>4, <1>6, <1>7 DEF Aggregating
    <3> QED BY <2>1, <3>1, <3>2, <3>3 DEF IInv, OneAggregates
  <2> QED BY <2>1 DEF OneAggregates
<1>14. MentionsCount'
  BY <1>9, <1>10 DEF IInv, MentionsCount
<1>15. Holds(c)'
  BY <1>8, <1>9 DEF Holds
<1>16. CmdSession(c, cmd[c])' /\ CmdDraft(c, cmd[c])' /\ StoredHasRows(c, cmd[c])'
  BY <1>2, <1>6, <1>7, <1>8, <1>9 DEF CmdSession, CmdDraft, StoredHasRows
<1>17. CmdPairs(cmd[c])' /\ CmdValue(cmd[c])' /\ CmdStored(cmd[c])'
  BY <1>2, <1>4, <1>6, <1>7 DEF CmdPairs, CmdValue, CmdStored
<1>18. CmdInv(c, cmd[c])'
  BY <1>15, <1>16, <1>17 DEF CmdInv
<1> QED BY <1>7, <1>9, <1>11, <1>12, <1>13, <1>14, <1>18, CmdStepInv

LEMMA GetByPanelStep == ASSUME IInv, NEW c \in Cmds, GetByPanel(c), UNCHANGED pipeline PROVE IInv'
<1>1. /\ cmd[c].at = "references"
      /\ To(c, [at |-> "get", read |-> db.refs, todo |-> {PairOf[r] : r \in db.refs}])
      /\ UNCHANGED <<store, started, counted, overlap>>
  BY DEF GetByPanel, Is
<1>2. PICK e : e = With(cmd[c], [at |-> "get", read |-> db.refs, todo |-> {PairOf[r] : r \in db.refs}])
  OBVIOUS
<1>3. db.refs \in SUBSET Refs /\ {PairOf[r] : r \in db.refs} \in SUBSET Pairs
  BY OfCmd DEF Tables
<1>4. /\ e \in Command /\ e.at = "get" /\ e.read = db.refs /\ e.todo = {PairOf[r] : r \in db.refs}
      /\ e.stored = cmd[c].stored /\ e.exit = cmd[c].exit
  BY <1>2, <1>3, OfCmd, ZenonT(40) DEF With, Command
<1>5. lock # c /\ c \notin doomed /\ cmd[c].stored = {} /\ cmd[c].exit = "none"
  BY <1>1, OfCmd DEF CmdInv, CmdSession, CmdPairs, CmdStored
<1>6. CmdSession(c, e) /\ CmdDraft(c, e) /\ StoredHasRows(c, e)
  BY <1>4, <1>5 DEF CmdSession, CmdDraft, StoredHasRows
<1>7. CmdPairs(e) /\ CmdValue(e) /\ CmdStored(e)
  BY <1>4, <1>5 DEF CmdPairs, CmdValue, CmdStored, Aggregates
<1>8. Aggregating(c)
  BY <1>1 DEF Aggregating
<1>9. cmd' = [cmd EXCEPT ![c] = e]
  BY <1>1, <1>2, ToCmd
<1> QED BY <1>1, <1>4, <1>6, <1>7, <1>8, <1>9, QuietCmd

LEMMA GetByPanelFailsStep == ASSUME IInv, NEW c \in Cmds, GetByPanelFails(c), UNCHANGED pipeline PROVE IInv'
<1>1. /\ cmd[c].at = "references" /\ To(c, [at |-> "commit", errors |-> TRUE])
      /\ UNCHANGED <<store, started, counted, overlap>>
  BY DEF GetByPanelFails, Is
<1>2. PICK e : e = With(cmd[c], [at |-> "commit", errors |-> TRUE])
  OBVIOUS
<1>3. /\ e \in Command /\ e.at = "commit" /\ e.errors = TRUE /\ e.read = cmd[c].read
      /\ e.todo = cmd[c].todo /\ e.stored = cmd[c].stored /\ e.exit = cmd[c].exit
  BY <1>2, OfCmd DEF With, Command
<1>4. lock # c /\ c \notin doomed /\ cmd[c].stored = {} /\ cmd[c].todo = {} /\ cmd[c].exit = "none"
  BY <1>1, OfCmd DEF CmdInv, CmdSession, CmdPairs, CmdStored
<1>5. CmdSession(c, e) /\ CmdDraft(c, e) /\ StoredHasRows(c, e)
  BY <1>3, <1>4 DEF CmdSession, CmdDraft, StoredHasRows
<1>6. CmdPairs(e) /\ CmdValue(e) /\ CmdStored(e)
  BY <1>3, <1>4 DEF CmdPairs, CmdValue, CmdStored
<1>7. Aggregating(c)
  BY <1>1 DEF Aggregating
<1>8. cmd' = [cmd EXCEPT ![c] = e]
  BY <1>1, <1>2, ToCmd
<1> QED BY <1>1, <1>3, <1>5, <1>6, <1>7, <1>8, QuietCmd

\* What a session sees of a pair it has not stored is what is committed.
LEMMA UnstoredView ==
  ASSUME IInv, NEW c \in Cmds, cmd[c].at \in Aggregates, NEW r \in Refs, PairOf[r] \notin cmd[c].stored
  PROVE  View(c).applied[r] = db.applied[r]
<1>1. CASE lock = c
  BY <1>1, OfCmd DEF CmdInv, CmdDraft, View
<1>2. CASE lock # c
  BY <1>2 DEF View
<1> QED BY <1>1, <1>2

LEMMA GetByPairStep ==
  ASSUME IInv, NEW c \in Cmds, NEW p \in Pairs, GetByPair(c, p), UNCHANGED pipeline PROVE IInv'
<1> DEFINE value == Applied(View(c).applied, cmd[c].read, p)
<1>1. /\ cmd[c].at = "get" /\ c \notin doomed /\ p \in cmd[c].todo
      /\ To(c, [at |-> "check", pair |-> p, todo |-> cmd[c].todo \ {p}, value |-> value])
      /\ UNCHANGED <<store, started, counted, overlap>>
  BY DEF GetByPair, Is
<1>2. View(c).applied \in [Refs -> Nat] /\ cmd[c].todo \in SUBSET Pairs
  BY ViewTyped, OfCmd DEF Tables, Command
<1>3. value \in [Refs -> Nat]
  BY <1>2 DEF Applied
<1>4. ASSUME NEW r \in RefsOf(p)
      PROVE  Fits(value[r], r, cmd[c].read) /\ (r \in cmd[c].read => value[r] > 0)
  <2>1. r \in Refs /\ PairOf[r] = p /\ p \notin cmd[c].stored
    BY <1>1, OfCmd DEF RefsOf, CmdInv, CmdPairs
  <2>2. View(c).applied[r] = db.applied[r]
    BY <1>1, <2>1, UnstoredView DEF Aggregates
  <2>3. value[r] = db.applied[r] + Once(r \in cmd[c].read)
    BY <2>1, <2>2 DEF Applied, Once
  <2>4. PICK o \in Nat : o = Once(r \in cmd[c].read) /\ (r \in cmd[c].read => o = 1)
    BY DEF Once
  <2>5. PICK n \in Nat, k \in Nat : n = db.applied[r] /\ k = counted[r]
    BY <2>1, OfCmd DEF Tables
  <2>6. n <= k /\ (~overlap => n = k)
    BY <2>1, <2>5 DEF IInv, MentionsCount
  <2>7. value[r] = n + o
    BY <2>3, <2>4, <2>5
  <2>8. n + o <= k + o /\ (~overlap => n + o = k + o) /\ (o = 1 => n + o > 0)
    BY <2>6
  <2> HIDE DEF value
  <2> QED BY <2>4, <2>5, <2>7, <2>8 DEF Fits
<1> HIDE DEF value
<1>5. PICK e : e = With(cmd[c], [at |-> "check", pair |-> p, todo |-> cmd[c].todo \ {p}, value |-> value])
  OBVIOUS
<1>6. /\ e.at = "check" /\ e.pair = p /\ e.todo = cmd[c].todo \ {p} /\ e.value = value
      /\ e.read = cmd[c].read /\ e.stored = cmd[c].stored /\ e.errors = cmd[c].errors /\ e.exit = cmd[c].exit
  BY <1>5, OfCmd DEF With, Command
<1>7. e \in Command
  <2>1. cmd[c].todo \ {p} \in SUBSET Pairs
    BY <1>2
  <2> QED BY <1>3, <1>5, <2>1, OfCmd, ZenonT(40) DEF With, Command
<1>8. CmdSession(c, e) /\ CmdDraft(c, e) /\ StoredHasRows(c, e)
  BY <1>1, <1>6, OfCmd DEF CmdInv, CmdSession, CmdDraft, StoredHasRows, Aggregates
<1>9. CmdPairs(e)
  BY <1>1, <1>6, OfCmd DEF CmdInv, CmdPairs
<1>10. CmdValue(e)
  BY <1>4, <1>6 DEF CmdValue
<1>11. CmdStored(e)
  BY <1>1, <1>6, OfCmd DEF CmdInv, CmdStored, Aggregates
<1>12. Aggregating(c)
  BY <1>1 DEF Aggregating
<1>13. cmd' = [cmd EXCEPT ![c] = e]
  BY <1>1, <1>5, ToCmd
<1> QED BY <1>1, <1>7, <1>8, <1>9, <1>10, <1>11, <1>12, <1>13, QuietCmd

\* Going on to the next pair keeps the command's part, in whichever way it
\* still holds the lock.
LEMMA Skipped ==
  ASSUME IInv, NEW c \in Cmds, NEW p,
         \/ cmd[c].at = "get"
         \/ cmd[c].at \in {"check", "upsert"} /\ p = cmd[c].pair,
         Skip(c, p)
  PROVE  \E e \in Command :
            /\ cmd' = [cmd EXCEPT ![c] = e]
            /\ e.at = "get" /\ e.errors = TRUE /\ e.read = cmd[c].read /\ e.stored = cmd[c].stored
            /\ CmdPairs(e) /\ CmdValue(e) /\ CmdStored(e)
            /\ Aggregating(c)
<1> DEFINE f == [at |-> "get", pair |-> NoPair, value |-> None, fresh |-> FALSE,
                 todo |-> cmd[c].todo \ {p}, errors |-> TRUE]
<1>1. PICK e : e = With(cmd[c], f)
  OBVIOUS
<1>2. cmd' = [cmd EXCEPT ![c] = e]
  BY <1>1, ToCmd DEF Skip
<1>3. /\ e.at = "get" /\ e.errors = TRUE /\ e.todo = cmd[c].todo \ {p}
      /\ e.read = cmd[c].read /\ e.stored = cmd[c].stored /\ e.exit = cmd[c].exit
  BY <1>1, OfCmd, ZenonT(40) DEF With, Command
<1>4. e \in Command
  <2>1. cmd[c].todo \ {p} \in SUBSET Pairs
    BY OfCmd DEF Command
  <2>2. None \in [Refs -> Nat]
    BY DEF None
  <2> QED BY <1>1, <2>1, <2>2, OfCmd, ZenonT(40) DEF With, Command
<1>5. CmdPairs(e)
  BY <1>3, OfCmd DEF CmdInv, CmdPairs
<1>6. CmdValue(e) /\ CmdStored(e)
  BY <1>3, OfCmd DEF CmdInv, CmdValue, CmdStored, Aggregates
<1>7. Aggregating(c)
  BY DEF Aggregating
<1> QED BY <1>2, <1>3, <1>4, <1>5, <1>6, <1>7

LEMMA PairFailsStep ==
  ASSUME IInv, NEW c \in Cmds, NEW p \in Pairs, PairFails(c, p), UNCHANGED pipeline PROVE IInv'
<1>1. /\ \/ cmd[c].at = "get"
         \/ cmd[c].at = "check" /\ p = cmd[c].pair
      /\ Skip(c, p) /\ UNCHANGED <<store, started, counted, overlap>>
  BY DEF PairFails, Is
<1>2. PICK e \in Command :
            /\ cmd' = [cmd EXCEPT ![c] = e]
            /\ e.at = "get" /\ e.errors = TRUE /\ e.read = cmd[c].read /\ e.stored = cmd[c].stored
            /\ CmdPairs(e) /\ CmdValue(e) /\ CmdStored(e)
            /\ Aggregating(c)
  BY <1>1, Skipped
<1>3. CmdSession(c, e) /\ CmdDraft(c, e) /\ StoredHasRows(c, e)
  BY <1>1, <1>2, OfCmd DEF CmdInv, CmdSession, CmdDraft, StoredHasRows, Aggregates
<1> QED BY <1>1, <1>2, <1>3, QuietCmd

LEMMA CheckStep == ASSUME IInv, NEW c \in Cmds, Check(c), UNCHANGED pipeline PROVE IInv'
<1>1. PICK fresh \in BOOLEAN : fresh = ~HasRow(View(c).applied, cmd[c].pair)
  OBVIOUS
<1>2. /\ cmd[c].at = "check" /\ To(c, [at |-> "upsert", fresh |-> fresh])
      /\ UNCHANGED <<store, started, counted, overlap>>
  BY <1>1 DEF Check, Is
<1>3. PICK e : e = With(cmd[c], [at |-> "upsert", fresh |-> fresh])
  OBVIOUS
<1>4. /\ e \in Command /\ e.at = "upsert" /\ e.pair = cmd[c].pair /\ e.todo = cmd[c].todo
      /\ e.value = cmd[c].value /\ e.read = cmd[c].read /\ e.stored = cmd[c].stored
      /\ e.errors = cmd[c].errors /\ e.exit = cmd[c].exit
  BY <1>3, OfCmd DEF With, Command
<1>5. CmdSession(c, e) /\ CmdDraft(c, e) /\ StoredHasRows(c, e)
  BY <1>2, <1>4, OfCmd DEF CmdInv, CmdSession, CmdDraft, StoredHasRows, Aggregates
<1>6. CmdPairs(e)
  BY <1>2, <1>4, OfCmd DEF CmdInv, CmdPairs
<1>7. CmdValue(e) /\ CmdStored(e)
  BY <1>2, <1>4, OfCmd DEF CmdInv, CmdValue, CmdStored, Aggregates
<1>8. Aggregating(c)
  BY <1>2 DEF Aggregating
<1>9. cmd' = [cmd EXCEPT ![c] = e]
  BY <1>2, <1>3, ToCmd
<1> QED BY <1>2, <1>4, <1>5, <1>6, <1>7, <1>8, <1>9, QuietCmd

LEMMA PairsDoneStep == ASSUME IInv, NEW c \in Cmds, PairsDone(c), UNCHANGED pipeline PROVE IInv'
<1>1. /\ cmd[c].at = "get" /\ cmd[c].todo = {} /\ To(c, [at |-> "commit"])
      /\ UNCHANGED <<store, started, counted, overlap>>
  BY DEF PairsDone, Is
<1>2. PICK e : e = With(cmd[c], [at |-> "commit"])
  OBVIOUS
<1>3. /\ e \in Command /\ e.at = "commit" /\ e.todo = cmd[c].todo /\ e.read = cmd[c].read
      /\ e.stored = cmd[c].stored /\ e.errors = cmd[c].errors /\ e.exit = cmd[c].exit
  BY <1>2, OfCmd DEF With, Command
<1>4. CmdSession(c, e) /\ CmdDraft(c, e) /\ StoredHasRows(c, e)
  BY <1>1, <1>3, OfCmd DEF CmdInv, CmdSession, CmdDraft, StoredHasRows, Aggregates
<1>5. CmdPairs(e)
  BY <1>1, <1>3, OfCmd DEF CmdInv, CmdPairs
<1>6. CmdValue(e) /\ CmdStored(e)
  BY <1>1, <1>3, OfCmd DEF CmdInv, CmdValue, CmdStored, Aggregates
<1>7. Aggregating(c)
  BY <1>1 DEF Aggregating
<1>8. cmd' = [cmd EXCEPT ![c] = e]
  BY <1>1, <1>2, ToCmd
<1> QED BY <1>1, <1>3, <1>4, <1>5, <1>6, <1>7, <1>8, QuietCmd

\* What a session sees has all that is committed.
LEMMA ViewHolds ==
  ASSUME IInv, NEW s \in Session
  PROVE  /\ db.refs \subseteq View(s).refs
         /\ RowsStay(db.applied, View(s).applied)
         /\ EdgesHaveRows(View(s))
<1>1. CASE lock = s
  BY <1>1, HeldGrows DEF Holds, View
<1>2. CASE lock # s
  BY <1>2 DEF View, RowsStay, IInv
<1> QED BY <1>1, <1>2

\* An aggregation whose flushes were kept has the lock as soon as one was.
LEMMA StoredView ==
  ASSUME IInv, NEW c \in Cmds, cmd[c].at \in Aggregates, c \notin doomed
  PROVE  /\ \A r \in Refs : PairOf[r] \in cmd[c].stored => Fits(View(c).applied[r], r, cmd[c].read)
         /\ \A p \in cmd[c].stored : HasRow(View(c).applied, p)
<1>1. CASE cmd[c].stored = {}
  BY <1>1
<1>2. CASE cmd[c].stored # {}
  <2>1. lock = c /\ View(c) = draft
    BY <1>2, OfCmd DEF CmdInv, CmdSession, View
  <2> QED BY <2>1, OfCmd DEF CmdInv, CmdDraft, StoredHasRows
<1> QED BY <1>1, <1>2

LEMMA UpsertStep == ASSUME IInv, NEW c \in Cmds, Upsert(c), UNCHANGED pipeline PROVE IInv'
<1> DEFINE v == View(c)
           p == cmd[c].pair
           merged == Merged(v.applied, cmd[c].value, p)
           tables == [v EXCEPT !.applied = merged]
           f == [at |-> "get", pair |-> NoPair, value |-> None, fresh |-> FALSE, stored |-> cmd[c].stored \cup {p}]
<1>1. /\ cmd[c].at = "upsert" /\ Flush(c, tables) /\ To(c, f) /\ UNCHANGED <<started, counted, overlap>>
  BY DEF Upsert, Is
<1>2. cmd[c] \in Command /\ v \in Tables
  BY OfCmd, ViewTyped
<1>3. /\ cmd[c].todo \cap cmd[c].stored = {} /\ p \notin cmd[c].todo \cup cmd[c].stored
      /\ cmd[c].todo \subseteq {PairOf[r] : r \in cmd[c].read}
      /\ p \in {PairOf[r] : r \in cmd[c].read}
      /\ ~cmd[c].errors => \A r \in cmd[c].read : PairOf[r] \in cmd[c].todo \cup cmd[c].stored \cup {p}
  BY <1>1, OfCmd DEF CmdInv, CmdPairs
<1>4. p \in Pairs
  BY <1>2, <1>3 DEF Command
<1>5. merged \in [Refs -> Nat]
  BY <1>2 DEF Merged, Tables, Command
<1>6. /\ tables \in Tables /\ tables.refs = v.refs /\ tables.edges = v.edges /\ tables.applied = merged
  BY <1>2, <1>5 DEF Tables
<1>7. \A r \in Refs : merged[r] = IF PairOf[r] = p THEN cmd[c].value[r] ELSE v.applied[r]
  BY DEF Merged
<1>8. c \notin doomed
  BY <1>1, OfCmd DEF CmdInv, CmdSession
<1>9. PICK e : e = With(cmd[c], f)
  OBVIOUS
<1>10. /\ e.at = "get" /\ e.stored = cmd[c].stored \cup {p} /\ e.todo = cmd[c].todo /\ e.read = cmd[c].read
       /\ e.errors = cmd[c].errors /\ e.exit = cmd[c].exit
  BY <1>2, <1>9 DEF With, Command
<1>11. e \in Command
  <2>1. cmd[c].stored \cup {p} \in SUBSET Pairs
    BY <1>2, <1>4 DEF Command
  <2>2. None \in [Refs -> Nat]
    BY DEF None
  <2> QED BY <1>2, <1>9, <2>1, <2>2 DEF With, Command
<1>12. cmd' = [cmd EXCEPT ![c] = e]
  BY <1>1, <1>9, ToCmd
<1> HIDE DEF merged, tables, f
<1>13. /\ StoreTyped' /\ Grows
       /\ lock' = c /\ draft' = tables /\ db' = db /\ doomed' = doomed
       /\ \A t \in Session \ {c} : Apart(t)
  BY <1>1, <1>6, FlushStep DEF Session
<1>14. Aggregating(c)
  BY <1>1 DEF Aggregating
<1>15. /\ NetworkTyped' /\ OneAggregates' /\ MentionsCount' /\ cmd'[c] = e
       /\ \A d \in Cmds \ {c} : cmd'[d] = cmd[d] /\ Counts(d)
  BY <1>1, <1>11, <1>12, <1>13, <1>14, Uncounted
<1>16. HasRow(merged, p)
  <2>1. PICK r \in cmd[c].read : PairOf[r] = p
    BY <1>3
  <2>2. r \in RefsOf(p)
    BY <1>2, <2>1 DEF Command, RefsOf
  <2>3. cmd[c].value[r] > 0
    BY <1>1, <2>1, <2>2, OfCmd DEF CmdInv, CmdValue
  <2> QED BY <1>7, <2>1, <2>2, <2>3 DEF HasRow, RefsOf
<1>17. RowsStay(v.applied, merged)
  <2>1. ASSUME NEW q \in Pairs, HasRow(v.applied, q), q # p PROVE HasRow(merged, q)
    BY <1>7, <2>1 DEF HasRow, RefsOf
  <2> QED BY <1>16, <2>1 DEF RowsStay
<1>18. Holds(c)'
  <2>1. db.refs \subseteq v.refs /\ RowsStay(db.applied, v.applied) /\ EdgesHaveRows(v)
    BY ViewHolds DEF Session
  <2>2. RowsStay(db.applied, merged)
    BY <1>17, <2>1 DEF RowsStay
  <2>3. EdgesHaveRows(tables)
    BY <1>6, <1>17, <2>1 DEF EdgesHaveRows, RowsStay
  <2>4. EdgesHaveRows(draft)'
    BY <1>13, <2>3 DEF EdgesHaveRows, HasRow, RefsOf
  <2>5. RowsStay(db.applied, draft.applied)'
    BY <1>6, <1>13, <2>2 DEF RowsStay, HasRow, RefsOf
  <2>6. (db.refs \subseteq draft.refs)'
    BY <1>6, <1>13, <2>1
  <2> QED BY <2>4, <2>5, <2>6 DEF Holds
<1>19. CmdSession(c, cmd[c])'
  BY <1>8, <1>10, <1>13, <1>15 DEF CmdSession
<1>20. CmdPairs(cmd[c])'
  BY <1>3, <1>10, <1>15 DEF CmdPairs
<1>21. CmdValue(cmd[c])' /\ CmdStored(cmd[c])'
  BY <1>1, <1>10, <1>15, OfCmd DEF CmdInv, CmdValue, CmdStored, Aggregates
<1>22. CmdDraft(c, cmd[c])'
  <2>1. ASSUME NEW r \in Refs
        PROVE  IF PairOf[r] \in e.stored THEN Fits(merged[r], r, e.read) ELSE merged[r] = db.applied[r]
    <3>1. CASE PairOf[r] = p
      <4>1. r \in RefsOf(p)
        BY <3>1 DEF RefsOf
      <4>2. Fits(cmd[c].value[r], r, cmd[c].read)
        BY <1>1, <4>1, OfCmd DEF CmdInv, CmdValue
      <4> QED BY <1>7, <1>10, <3>1, <4>2
    <3>2. CASE PairOf[r] # p /\ PairOf[r] \in cmd[c].stored
      <4>1. Fits(v.applied[r], r, cmd[c].read)
        BY <1>1, <1>8, <3>2, StoredView DEF Aggregates
      <4> QED BY <1>7, <1>10, <3>2, <4>1
    <3>3. CASE PairOf[r] # p /\ PairOf[r] \notin cmd[c].stored
      <4>1. v.applied[r] = db.applied[r]
        BY <1>1, <3>3, UnstoredView DEF Aggregates
      <4> QED BY <1>7, <1>10, <3>3, <4>1
    <3> QED BY <3>1, <3>2, <3>3
  <2>2. \A r \in Refs : IF PairOf[r] \in e.stored
                        THEN Fits(draft.applied[r], r, e.read)'
                        ELSE draft'.applied[r] = db'.applied[r]
    BY <1>1, <1>6, <1>13, <2>1 DEF Fits, Once
  <2> QED BY <1>15, <2>2, <1>10 DEF CmdDraft, Aggregates, Fits
<1>23. StoredHasRows(c, cmd[c])'
  <2>1. ASSUME NEW q \in cmd[c].stored PROVE HasRow(merged, q)
    <3>1. HasRow(v.applied, q)
      BY <1>1, <1>8, StoredView DEF Aggregates
    <3>2. q \in Pairs
      BY <1>2 DEF Command
    <3> QED BY <1>17, <3>1, <3>2 DEF RowsStay
  <2>2. \A q \in e.stored : HasRow(merged, q)
    BY <1>10, <1>16, <2>1
  <2> QED BY <1>6, <1>13, <1>15, <2>2 DEF StoredHasRows, HasRow, RefsOf
<1>24. CmdInv(c, cmd[c])'
  BY <1>18, <1>19, <1>20, <1>21, <1>22, <1>23 DEF CmdInv
<1> QED BY <1>13, <1>15, <1>24, CmdStepInv

\* What is left to show when a command ends without the lock, after its
\* transaction or without one.
LEMMA FreeCmd ==
  ASSUME IInv, NEW c \in Cmds, lock' # c, NEW e \in Command, cmd'[c] = e,
         e.at \in Aggregates => e.stored = {} \/ c \in doomed',
         c \in doomed' => e.at \in {"get", "commit", "commit flows"},
         CmdPairs(e), CmdValue(e)', CmdStored(e)'
  PROVE  CmdInv(c, cmd[c])'
<1>1. Holds(c)' /\ CmdDraft(c, cmd[c])' /\ StoredHasRows(c, cmd[c])'
  BY DEF Holds, CmdDraft, StoredHasRows
<1>2. CmdSession(c, cmd[c])'
  BY DEF CmdSession
<1>3. CmdPairs(cmd[c])'
  BY DEF CmdPairs
<1>4. CmdValue(cmd[c])'
  BY DEF CmdValue, Fits
<1>5. CmdStored(cmd[c])'
  BY DEF CmdStored
<1> QED BY <1>1, <1>2, <1>3, <1>4, <1>5 DEF CmdInv

LEMMA UpsertFailsStep == ASSUME IInv, NEW c \in Cmds, UpsertFails(c), UNCHANGED pipeline PROVE IInv'
<1>1. /\ cmd[c].at = "upsert" /\ FlushFails(c) /\ Skip(c, cmd[c].pair)
      /\ UNCHANGED <<started, counted, overlap>>
  BY DEF UpsertFails, Is
<1>2. PICK e \in Command :
            /\ cmd' = [cmd EXCEPT ![c] = e]
            /\ e.at = "get" /\ e.errors = TRUE /\ e.read = cmd[c].read /\ e.stored = cmd[c].stored
            /\ CmdPairs(e) /\ CmdValue(e) /\ CmdStored(e)
            /\ Aggregating(c)
  BY <1>1, Skipped
<1>3. /\ StoreTyped' /\ Grows
      /\ lock' # c /\ db' = db /\ doomed' = doomed \cup {c}
      /\ \A t \in Session \ {c} : Apart(t)
  BY <1>1, FlushFailsStep DEF Session
<1>4. /\ NetworkTyped' /\ OneAggregates' /\ MentionsCount' /\ cmd'[c] = e
      /\ \A d \in Cmds \ {c} : cmd'[d] = cmd[d] /\ Counts(d)
  BY <1>1, <1>2, <1>3, Uncounted
<1>5. CmdValue(e)' /\ CmdStored(e)'
  BY <1>2 DEF CmdValue, CmdStored, Aggregates
<1>6. CmdInv(c, cmd[c])'
  BY <1>2, <1>3, <1>4, <1>5, FreeCmd
<1> QED BY <1>3, <1>4, <1>6, CmdStepInv

LEMMA CommitSentimentsStep ==
  ASSUME IInv, NEW c \in Cmds, CommitSentiments(c), UNCHANGED pipeline PROVE IInv'
<1>1. /\ cmd[c].at = "commit" /\ Commit(c) /\ To(c, AfterAggregation(c)) /\ UNCHANGED <<started, overlap>>
      /\ counted' = [r \in Refs |->
             counted[r] + (IF r \in cmd[c].read /\ PairOf[r] \in cmd[c].stored THEN 1 ELSE 0)]
  BY DEF CommitSentiments, Is
<1>2. /\ StoreTyped' /\ Grows
      /\ lock' # c /\ db' = View(c) /\ doomed' = doomed /\ c \notin doomed
      /\ \A t \in Session \ {c} : Apart(t)
  BY <1>1, CommitStep DEF Session
<1>3. PICK e : e = With(cmd[c], AfterAggregation(c))
  OBVIOUS
<1>4. cmd' = [cmd EXCEPT ![c] = e]
  BY <1>1, <1>3, ToCmd
<1>5. /\ e \in Command /\ e.at \in {"sentiments", "done"} /\ (e.at # "done" => e.exit = "none")
      /\ e.todo = cmd[c].todo /\ e.read = cmd[c].read /\ e.stored = cmd[c].stored
      /\ e.errors = cmd[c].errors
  <2>1. cmd[c] \in Command /\ cmd[c].exit = "none"
    BY <1>1, OfCmd DEF CmdInv, CmdStored
  <2>2. CASE AfterAggregation(c) = [at |-> "sentiments"]
    <3>1. e = With(cmd[c], [at |-> "sentiments"])
      BY <1>3, <2>2
    <3> QED BY <2>1, <3>1 DEF With, Command
  <2>3. ASSUME NEW exit \in {"one", "zero"}, AfterAggregation(c) = [at |-> "done", exit |-> exit]
        PROVE  /\ e \in Command /\ e.at \in {"sentiments", "done"} /\ (e.at # "done" => e.exit = "none")
               /\ e.todo = cmd[c].todo /\ e.read = cmd[c].read /\ e.stored = cmd[c].stored
               /\ e.errors = cmd[c].errors
    <3>1. e = With(cmd[c], [at |-> "done", exit |-> exit])
      BY <1>3, <2>3
    <3> QED BY <2>1, <3>1 DEF With, Command
  <2>4. CASE cmd[c].kind = "full"
    BY <2>2, <2>4 DEF AfterAggregation
  <2>5. CASE cmd[c].kind # "full"
    <3>1. PICK exit \in {"one", "zero"} : exit = IF cmd[c].errors /\ cmd[c].stored = {} THEN "one" ELSE "zero"
      OBVIOUS
    <3>2. AfterAggregation(c) = [at |-> "done", exit |-> exit]
      BY <2>5, <3>1 DEF AfterAggregation
    <3> QED BY <2>3, <3>2
  <2> QED BY <2>4, <2>5
<1>6. cmd'[c] = e /\ (\A d \in Cmds \ {c} : cmd'[d] = cmd[d]) /\ cmd' \in [Cmds -> Command]
  BY <1>4, <1>5 DEF IInv, TypeOK
<1>7. counted' \in [Refs -> Nat] /\ \A r \in Refs : counted[r] <= counted'[r]
  BY <1>1, OfCmd
<1>8. NetworkTyped'
  BY <1>1, <1>6, <1>7 DEF IInv, TypeOK, NetworkTyped
<1>9. ASSUME NEW d \in Cmds \ {c} PROVE Counts(d)
  <2>1. Aggregating(c)
    BY <1>1 DEF Aggregating
  <2>2. overlap' = overlap /\ (~overlap => ~Aggregating(d))
    BY <1>1, <2>1 DEF IInv, OneAggregates
  <2> QED BY <1>7, <2>2 DEF Counts
<1>10. OneAggregates'
  <2>1. ASSUME NEW d \in Cmds, Aggregating(d)' PROVE Aggregating(d)
    BY <1>5, <1>6, <2>1 DEF Aggregating
  <2> QED BY <1>1, <2>1 DEF IInv, OneAggregates
<1>11. MentionsCount'
  <2>1. ASSUME NEW r \in Refs
        PROVE  View(c).applied[r] <= counted'[r] /\ (~overlap => View(c).applied[r] = counted'[r])
    <3>1. CASE PairOf[r] \in cmd[c].stored
      <4>1. Fits(View(c).applied[r], r, cmd[c].read)
        BY <1>1, <1>2, <3>1, StoredView DEF Aggregates
      <4>2. counted'[r] = counted[r] + Once(r \in cmd[c].read)
        BY <1>1, <3>1 DEF Once
      <4> QED BY <4>1, <4>2 DEF Fits
    <3>2. CASE PairOf[r] \notin cmd[c].stored
      <4>1. View(c).applied[r] = db.applied[r]
        BY <1>1, <3>2, UnstoredView DEF Aggregates
      <4>2. counted'[r] = counted[r]
        BY <1>1, <3>2, OfCmd
      <4> QED BY <4>1, <4>2 DEF IInv, MentionsCount
    <3> QED BY <3>1, <3>2
  <2> QED BY <1>1, <1>2, <2>1 DEF MentionsCount
<1>12. CmdPairs(e)
  BY <1>5, OfCmd DEF CmdInv, CmdPairs
<1>13. CmdValue(e)'
  BY <1>5 DEF CmdValue
<1>14. CmdStored(e)'
  <2>1. ASSUME ~e.errors, NEW r \in e.read PROVE HasRow(View(c).applied, PairOf[r])
    <3>1. PairOf[r] \in cmd[c].stored
      BY <1>1, <1>5, <2>1, OfCmd DEF CmdInv, CmdPairs
    <3> QED BY <1>1, <1>2, <3>1, StoredView DEF Aggregates
  <2>2. ~e.errors => \A r \in e.read : HasRow(db'.applied, PairOf[r])
    BY <1>2, <2>1
  <2> QED BY <1>5, <2>2 DEF CmdStored, HasRow, RefsOf
<1>15. CmdInv(c, cmd[c])'
  BY <1>2, <1>5, <1>6, <1>12, <1>13, <1>14, FreeCmd DEF Aggregates
<1> QED BY <1>2, <1>6, <1>8, <1>9, <1>10, <1>11, <1>15, CmdStepInv

LEMMA CommitFailsStep == ASSUME IInv, NEW c \in Cmds, CommitFails(c), UNCHANGED pipeline PROVE IInv'
<1>1. /\ cmd[c].at \in {"commit", "commit flows"} /\ Rollback(c)
      /\ To(c, [at |-> "done", exit |-> "raised"]) /\ UNCHANGED <<started, counted, overlap>>
  BY DEF CommitFails
<1>2. /\ StoreTyped' /\ Grows
      /\ lock' # c /\ db' = db /\ doomed' = doomed \ {c}
      /\ \A t \in Session \ {c} : Apart(t)
  BY <1>1, RollbackStep DEF Session
<1>3. PICK e : e = With(cmd[c], [at |-> "done", exit |-> "raised"])
  OBVIOUS
<1>4. cmd' = [cmd EXCEPT ![c] = e]
  BY <1>1, <1>3, ToCmd
<1>5. /\ e \in Command /\ e.at = "done" /\ e.exit = "raised" /\ e.todo = cmd[c].todo /\ e.read = cmd[c].read
  BY <1>3, OfCmd DEF With, Command
<1>6. /\ NetworkTyped' /\ OneAggregates' /\ MentionsCount' /\ cmd'[c] = e
      /\ \A d \in Cmds \ {c} : cmd'[d] = cmd[d] /\ Counts(d)
  BY <1>1, <1>2, <1>4, <1>5, Uncounted DEF Aggregates
<1>7. CmdPairs(e)
  BY <1>5, OfCmd DEF CmdInv, CmdPairs
<1>8. CmdValue(e)' /\ CmdStored(e)'
  BY <1>5 DEF CmdValue, CmdStored
<1>9. CmdInv(c, cmd[c])'
  BY <1>2, <1>5, <1>6, <1>7, <1>8, FreeCmd DEF Aggregates
<1> QED BY <1>2, <1>6, <1>9, CmdStepInv

\* A command that is past its aggregation, or had none, and moves on without
\* touching the tables.
LEMMA PastStep ==
  ASSUME IInv, NEW c \in Cmds, cmd[c].at \in {"sentiments", "topics"}, NEW e \in Command,
         cmd' = [cmd EXCEPT ![c] = e], UNCHANGED <<store, started, counted, overlap, pipeline>>,
         e.at \in {"flows", "commit flows", "done"}, e.at = "flows" => e.value = db.applied,
         e.todo = cmd[c].todo, e.read = cmd[c].read, ~e.errors => ~cmd[c].errors,
         e.at # "done" => e.exit = cmd[c].exit
  PROVE  IInv'
<1>1. lock # c /\ c \notin doomed
  BY OfCmd DEF CmdInv, CmdSession
<1>2. CmdSession(c, e) /\ CmdDraft(c, e) /\ StoredHasRows(c, e)
  BY <1>1 DEF CmdSession, CmdDraft, StoredHasRows, Aggregates
<1>3. CmdPairs(e)
  BY OfCmd DEF CmdInv, CmdPairs
<1>4. CmdValue(e) /\ CmdStored(e)
  BY OfCmd DEF CmdInv, CmdValue, CmdStored, RowsStay, Aggregates
<1> QED BY <1>2, <1>3, <1>4, QuietCmd DEF Aggregates

LEMMA GetSentimentsStep == ASSUME IInv, NEW c \in Cmds, GetSentiments(c), UNCHANGED pipeline PROVE IInv'
<1>1. /\ cmd[c].at = "sentiments" /\ To(c, [at |-> "flows", value |-> db.applied])
      /\ UNCHANGED <<store, started, counted, overlap>>
  BY DEF GetSentiments, Is
<1>2. PICK e : e = With(cmd[c], [at |-> "flows", value |-> db.applied])
  OBVIOUS
<1>3. db.applied \in [Refs -> Nat]
  BY OfCmd DEF Tables
<1>4. /\ e \in Command /\ e.at = "flows" /\ e.value = db.applied /\ e.todo = cmd[c].todo /\ e.read = cmd[c].read
      /\ e.errors = cmd[c].errors /\ e.exit = cmd[c].exit
  BY <1>2, <1>3, OfCmd DEF With, Command
<1>5. cmd' = [cmd EXCEPT ![c] = e]
  BY <1>1, <1>2, ToCmd
<1> QED BY <1>1, <1>4, <1>5, PastStep

LEMMA GetSentimentsFailsStep ==
  ASSUME IInv, NEW c \in Cmds, GetSentimentsFails(c), UNCHANGED pipeline PROVE IInv'
<1>1. /\ cmd[c].at = "sentiments" /\ To(c, [at |-> "commit flows", errors |-> TRUE])
      /\ UNCHANGED <<store, started, counted, overlap>>
  BY DEF GetSentimentsFails, Is
<1>2. PICK e : e = With(cmd[c], [at |-> "commit flows", errors |-> TRUE])
  OBVIOUS
<1>3. /\ e \in Command /\ e.at = "commit flows" /\ e.todo = cmd[c].todo /\ e.read = cmd[c].read
      /\ e.errors = TRUE /\ e.exit = cmd[c].exit
  BY <1>2, OfCmd DEF With, Command
<1>4. cmd' = [cmd EXCEPT ![c] = e]
  BY <1>1, <1>2, ToCmd
<1> QED BY <1>1, <1>3, <1>4, PastStep

LEMMA TopicsStep == ASSUME IInv, NEW c \in Cmds, Topics(c), UNCHANGED pipeline PROVE IInv'
<1>1. PICK exit \in {"one", "zero"} : exit = IF cmd[c].errors THEN "one" ELSE "zero"
  OBVIOUS
<1>2. /\ cmd[c].at = "topics" /\ To(c, [at |-> "done", exit |-> exit])
      /\ UNCHANGED <<store, started, counted, overlap>>
  BY <1>1 DEF Topics, Is
<1>3. PICK e : e = With(cmd[c], [at |-> "done", exit |-> exit])
  OBVIOUS
<1>4. /\ e \in Command /\ e.at = "done" /\ e.todo = cmd[c].todo /\ e.read = cmd[c].read
      /\ e.errors = cmd[c].errors
  BY <1>3, OfCmd DEF With, Command
<1>5. cmd' = [cmd EXCEPT ![c] = e]
  BY <1>2, <1>3, ToCmd
<1> QED BY <1>2, <1>4, <1>5, PastStep

LEMMA TopicsFailsStep == ASSUME IInv, NEW c \in Cmds, TopicsFails(c), UNCHANGED pipeline PROVE IInv'
<1>1. /\ cmd[c].at = "topics" /\ To(c, [at |-> "done", exit |-> "raised"])
      /\ UNCHANGED <<store, started, counted, overlap>>
  BY DEF TopicsFails, Is
<1>2. PICK e : e = With(cmd[c], [at |-> "done", exit |-> "raised"])
  OBVIOUS
<1>3. /\ e \in Command /\ e.at = "done" /\ e.todo = cmd[c].todo /\ e.read = cmd[c].read
      /\ e.errors = cmd[c].errors
  BY <1>2, OfCmd DEF With, Command
<1>4. cmd' = [cmd EXCEPT ![c] = e]
  BY <1>1, <1>2, ToCmd
<1> QED BY <1>1, <1>3, <1>4, PastStep

\* The command after its flush of the flows, kept or not.
LEMMA FlowsDone ==
  ASSUME IInv, NEW c \in Cmds, cmd[c].at = "flows", NEW e \in Command, e.at = "commit flows",
         e.read = cmd[c].read, e.todo = cmd[c].todo, e.exit = cmd[c].exit, ~e.errors => ~cmd[c].errors,
         db' = db
  PROVE  CmdPairs(e) /\ CmdValue(e)' /\ CmdStored(e)'
<1>1. CmdPairs(e) /\ CmdValue(e)'
  BY OfCmd DEF CmdInv, CmdPairs, CmdValue
<1>2. CmdStored(e)
  BY OfCmd DEF CmdInv, CmdStored, Aggregates
<1>3. CmdStored(e)'
  BY <1>2 DEF CmdStored, HasRow, RefsOf, Aggregates
<1> QED BY <1>1, <1>3

LEMMA SaveFlowsStep == ASSUME IInv, NEW c \in Cmds, SaveFlows(c), UNCHANGED pipeline PROVE IInv'
<1>1. /\ cmd[c].at = "flows" /\ To(c, [at |-> "commit flows", value |-> None])
      /\ UNCHANGED <<started, counted, overlap>>
  BY DEF SaveFlows, Is
<1>2. lock # c /\ c \notin doomed
  BY <1>1, OfCmd DEF CmdInv, CmdSession
<1>3. PICK e : e = With(cmd[c], [at |-> "commit flows", value |-> None])
  OBVIOUS
<1>4. /\ e \in Command /\ e.at = "commit flows" /\ e.todo = cmd[c].todo /\ e.read = cmd[c].read
      /\ e.errors = cmd[c].errors /\ e.exit = cmd[c].exit
  <2>1. None \in [Refs -> Nat]
    BY DEF None
  <2> QED BY <1>3, <2>1, OfCmd DEF With, Command
<1>5. cmd' = [cmd EXCEPT ![c] = e]
  BY <1>1, <1>3, ToCmd
<1>6. CASE Flows(c) = {}
  <2>1. UNCHANGED store
    BY <1>6 DEF SaveFlows
  <2>2. /\ StoreTyped' /\ Grows /\ (\A s \in Session : Apart(s))
        /\ lock' # c /\ c \notin doomed' /\ db' = db
    BY <1>2, <2>1, StoreUnchanged DEF store
  <2>3. /\ NetworkTyped' /\ OneAggregates' /\ MentionsCount' /\ cmd'[c] = e
        /\ \A d \in Cmds \ {c} : cmd'[d] = cmd[d] /\ Counts(d)
    BY <1>1, <1>4, <1>5, <2>2, Uncounted DEF Aggregates
  <2>4. CmdPairs(e) /\ CmdValue(e)' /\ CmdStored(e)'
    BY <1>1, <1>4, <2>2, FlowsDone
  <2>5. CmdInv(c, cmd[c])'
    BY <1>4, <2>2, <2>3, <2>4, FreeCmd DEF Aggregates
  <2> QED BY <2>2, <2>3, <2>5, CmdStepInv
<1>7. CASE Flows(c) # {}
  <2> DEFINE edges == [p \in Pairs |-> db.edges[p] + (IF p \in Flows(c) THEN 1 ELSE 0)]
             tables == [db EXCEPT !.edges = edges]
  <2>1. Flush(c, tables)
    BY <1>2, <1>7 DEF SaveFlows, View
  <2>2. db \in Tables /\ edges \in [Pairs -> Nat]
    BY OfCmd DEF Tables
  <2>3. tables \in Tables /\ tables.refs = db.refs /\ tables.applied = db.applied /\ tables.edges = edges
    BY <2>2 DEF Tables
  <2>4. EdgesHaveRows(tables)
    <3>1. ASSUME NEW p \in Pairs, edges[p] > 0 PROVE HasRow(db.applied, p)
      <4>1. CASE p \in Flows(c)
        <5>1. HasRow(cmd[c].value, p)
          BY <4>1 DEF Flows
        <5> QED BY <1>1, <5>1, OfCmd DEF CmdInv, CmdValue, RowsStay
      <4>2. CASE p \notin Flows(c)
        <5>1. db.edges[p] > 0
          BY <2>2, <3>1, <4>2 DEF Tables
        <5> QED BY <5>1 DEF IInv, EdgesHaveRows
      <4> QED BY <4>1, <4>2
    <3> HIDE DEF edges, tables
    <3> QED BY <2>3, <3>1 DEF EdgesHaveRows
  <2> HIDE DEF edges, tables
  <2>5. /\ StoreTyped' /\ Grows
        /\ lock' = c /\ draft' = tables /\ db' = db /\ doomed' = doomed
        /\ \A t \in Session \ {c} : Apart(t)
    BY <2>1, <2>3, FlushStep DEF Session
  <2>6. /\ NetworkTyped' /\ OneAggregates' /\ MentionsCount' /\ cmd'[c] = e
        /\ \A d \in Cmds \ {c} : cmd'[d] = cmd[d] /\ Counts(d)
    BY <1>1, <1>4, <1>5, <2>5, Uncounted DEF Aggregates
  <2>7. Holds(c)'
    <3>1. EdgesHaveRows(draft)'
      BY <2>4, <2>5 DEF EdgesHaveRows, HasRow, RefsOf
    <3>2. RowsStay(db.applied, draft.applied)' /\ (db.refs \subseteq draft.refs)'
      BY <2>3, <2>5 DEF RowsStay
    <3> QED BY <3>1, <3>2 DEF Holds
  <2>8. CmdPairs(e) /\ CmdValue(e)' /\ CmdStored(e)'
    BY <1>1, <1>4, <2>5, FlowsDone
  <2>9. CmdPairs(cmd[c])' /\ CmdValue(cmd[c])' /\ CmdStored(cmd[c])'
    <3>1. CmdPairs(cmd[c])'
      BY <2>6, <2>8 DEF CmdPairs
    <3>2. CmdValue(cmd[c])'
      BY <2>6, <2>8 DEF CmdValue, Fits
    <3>3. CmdStored(cmd[c])'
      BY <2>6, <2>8 DEF CmdStored
    <3> QED BY <3>1, <3>2, <3>3
  <2>10. CmdSession(c, cmd[c])' /\ CmdDraft(c, cmd[c])' /\ StoredHasRows(c, cmd[c])'
    BY <1>2, <1>4, <2>3, <2>5, <2>6 DEF CmdSession, CmdDraft, StoredHasRows, Aggregates
  <2>11. CmdInv(c, cmd[c])'
    BY <2>7, <2>9, <2>10 DEF CmdInv
  <2> QED BY <2>5, <2>6, <2>11, CmdStepInv
<1> QED BY <1>6, <1>7

LEMMA SaveFlowsFailsStep == ASSUME IInv, NEW c \in Cmds, SaveFlowsFails(c), UNCHANGED pipeline PROVE IInv'
<1>1. /\ cmd[c].at = "flows" /\ To(c, [at |-> "commit flows", value |-> None, errors |-> TRUE])
      /\ FlushFails(c) /\ UNCHANGED <<started, counted, overlap>>
  BY DEF SaveFlowsFails, Is
<1>2. PICK e : e = With(cmd[c], [at |-> "commit flows", value |-> None, errors |-> TRUE])
  OBVIOUS
<1>3. /\ e \in Command /\ e.at = "commit flows" /\ e.todo = cmd[c].todo /\ e.read = cmd[c].read
      /\ e.errors = TRUE /\ e.exit = cmd[c].exit
  <2>1. None \in [Refs -> Nat]
    BY DEF None
  <2> QED BY <1>2, <2>1, OfCmd DEF With, Command
<1>4. cmd' = [cmd EXCEPT ![c] = e]
  BY <1>1, <1>2, ToCmd
<1>5. /\ StoreTyped' /\ Grows
      /\ lock' # c /\ db' = db /\ doomed' = doomed \cup {c}
      /\ \A t \in Session \ {c} : Apart(t)
  BY <1>1, FlushFailsStep DEF Session
<1>6. /\ NetworkTyped' /\ OneAggregates' /\ MentionsCount' /\ cmd'[c] = e
      /\ \A d \in Cmds \ {c} : cmd'[d] = cmd[d] /\ Counts(d)
  BY <1>1, <1>3, <1>4, <1>5, Uncounted DEF Aggregates
<1>7. CmdPairs(e) /\ CmdValue(e)' /\ CmdStored(e)'
  BY <1>1, <1>3, <1>5, FlowsDone
<1>8. CmdInv(c, cmd[c])'
  BY <1>3, <1>5, <1>6, <1>7, FreeCmd DEF Aggregates
<1> QED BY <1>5, <1>6, <1>8, CmdStepInv

LEMMA CommitFlowsStep == ASSUME IInv, NEW c \in Cmds, CommitFlows(c), UNCHANGED pipeline PROVE IInv'
<1> DEFINE f == IF cmd[c].kind = "full" THEN [at |-> "topics"]
                ELSE [at |-> "done", exit |-> IF cmd[c].errors THEN "one" ELSE "zero"]
<1>1. /\ cmd[c].at = "commit flows" /\ Commit(c) /\ To(c, f) /\ UNCHANGED <<started, counted, overlap>>
  BY DEF CommitFlows, Is
<1>2. /\ StoreTyped' /\ Grows
      /\ lock' # c /\ db' = View(c) /\ doomed' = doomed /\ c \notin doomed
      /\ \A t \in Session \ {c} : Apart(t)
  BY <1>1, CommitStep DEF Session
<1>3. PICK e : e = With(cmd[c], f)
  OBVIOUS
<1>4. cmd' = [cmd EXCEPT ![c] = e]
  BY <1>1, <1>3, ToCmd
<1>5. /\ e \in Command /\ e.at \in {"topics", "done"} /\ (e.at # "done" => e.exit = "none")
      /\ e.todo = cmd[c].todo /\ e.read = cmd[c].read /\ e.errors = cmd[c].errors
  <2>1. cmd[c] \in Command /\ cmd[c].exit = "none"
    BY <1>1, OfCmd DEF CmdInv, CmdStored
  <2>2. CASE cmd[c].kind = "full"
    <3>1. e = With(cmd[c], [at |-> "topics"])
      BY <1>3, <2>2
    <3> QED BY <2>1, <3>1 DEF With, Command
  <2>3. CASE cmd[c].kind # "full"
    <3>1. PICK exit \in {"one", "zero"} : exit = IF cmd[c].errors THEN "one" ELSE "zero"
      OBVIOUS
    <3>2. e = With(cmd[c], [at |-> "done", exit |-> exit])
      BY <1>3, <2>3, <3>1
    <3> QED BY <2>1, <3>2 DEF With, Command
  <2> QED BY <2>2, <2>3
<1>6. db'.applied = db.applied
  BY <1>1, <1>2, OfCmd DEF CmdInv, CmdDraft, View, Aggregates
<1>7. /\ NetworkTyped' /\ OneAggregates' /\ MentionsCount' /\ cmd'[c] = e
      /\ \A d \in Cmds \ {c} : cmd'[d] = cmd[d] /\ Counts(d)
  BY <1>1, <1>4, <1>5, <1>6, Uncounted DEF Aggregates
<1>8. CmdPairs(e) /\ CmdValue(e)'
  BY <1>5, OfCmd DEF CmdInv, CmdPairs, CmdValue
<1>9. CmdStored(e)'
  <2>1. cmd[c].exit = "none" /\ (~cmd[c].errors => \A r \in cmd[c].read : HasRow(db.applied, PairOf[r]))
    BY <1>1, OfCmd DEF CmdInv, CmdStored, Aggregates
  <2> QED BY <1>5, <1>6, <2>1 DEF CmdStored, HasRow, RefsOf
<1>10. CmdInv(c, cmd[c])'
  BY <1>2, <1>5, <1>7, <1>8, <1>9, FreeCmd DEF Aggregates
<1> QED BY <1>2, <1>7, <1>10, CmdStepInv

LEMMA CmdsStep == ASSUME IInv, NetworkNext, UNCHANGED pipeline PROVE IInv'
<1>1. PICK c \in Cmds : Step(c) \/ \E k \in Kinds : Start(c, k)
  BY DEF NetworkNext
<1>2. CASE Step(c)
  BY <1>2, GetByPanelStep, GetByPanelFailsStep, GetByPairStep, PairFailsStep, CheckStep, UpsertStep,
     UpsertFailsStep, PairsDoneStep, CommitSentimentsStep, CommitFailsStep, GetSentimentsStep,
     GetSentimentsFailsStep, SaveFlowsStep, SaveFlowsFailsStep, CommitFlowsStep, TopicsStep,
     TopicsFailsStep DEF Step
<1>3. CASE \E k \in Kinds : Start(c, k)
  BY <1>3, StartStep
<1> QED BY <1>1, <1>2, <1>3

-----------------------------------------------------------------------------
LEMMA InitInv == Init => IInv
<1> SUFFICES ASSUME Init PROVE IInv
  OBVIOUS
<1>1. /\ db = [refs |-> {}, applied |-> [r \in Refs |-> 0], edges |-> [p \in Pairs |-> 0]]
      /\ draft = db /\ lock = NoSession /\ doomed = {}
      /\ cmd = [c \in Cmds |-> Idle] /\ started = 0 /\ counted = [r \in Refs |-> 0] /\ overlap = FALSE
      /\ run = [r \in Runs |-> NotRun] /\ texts = 0 /\ lost = {}
  BY DEF Init, StoreInit, NetworkInit, PipelineInit, None
<1>2. Idle \in Command /\ NotRun \in Run
  <2>1. None \in [Refs -> Nat] /\ MaxTexts \in Nat
    BY PipelineAssumption DEF None
  <2>2. Idle \in Command
    BY <2>1 DEF Idle, Command
  <2>3. NotRun \in Run
    BY <2>1 DEF NotRun, Run
  <2> QED BY <2>2, <2>3
<1>3. TypeOK
  <2>1. db \in Tables /\ draft \in Tables
    BY <1>1 DEF Tables
  <2>2. cmd \in [Cmds -> Command] /\ run \in [Runs -> Run] /\ counted \in [Refs -> Nat]
    BY <1>1, <1>2
  <2>3. texts \in 0..MaxTexts
    BY <1>1, PipelineAssumption
  <2> QED BY <1>1, <2>1, <2>2, <2>3 DEF TypeOK
<1>4. OneAggregates /\ MentionsCount /\ EdgesHaveRows(db)
  <2>1. ASSUME NEW c \in Cmds PROVE ~Aggregating(c)
    BY <1>1 DEF Aggregating, Idle
  <2>2. EdgesHaveRows(db)
    BY <1>1 DEF EdgesHaveRows
  <2> QED BY <1>1, <2>1, <2>2 DEF OneAggregates, MentionsCount
<1>5. ASSUME NEW c \in Cmds PROVE CmdInv(c, cmd[c])
  <2>1. /\ cmd[c].at = "idle" /\ cmd[c].read = {} /\ cmd[c].todo = {} /\ cmd[c].exit = "none"
        /\ lock # c /\ c \notin doomed
    BY <1>1 DEF Idle
  <2>2. CmdSession(c, cmd[c]) /\ CmdDraft(c, cmd[c]) /\ StoredHasRows(c, cmd[c]) /\ Holds(c)
    BY <2>1 DEF CmdSession, CmdDraft, StoredHasRows, Holds, Aggregates
  <2>3. CmdPairs(cmd[c]) /\ CmdValue(cmd[c]) /\ CmdStored(cmd[c])
    BY <2>1 DEF CmdPairs, CmdValue, CmdStored
  <2> QED BY <2>2, <2>3 DEF CmdInv
<1>6. ASSUME NEW r \in Runs PROVE RunInv(r, run[r])
  <2>1. /\ run[r].at = "idle" /\ run[r].success = FALSE /\ run[r].stage = "none"
        /\ lock # r /\ r \notin doomed
    BY <1>1 DEF NotRun
  <2> QED BY <2>1 DEF RunInv, RunStages, RunResult, RunSession, Holds, AfterGather, AfterTopic,
                      AfterSalience, AfterDetect
<1> QED BY <1>3, <1>4, <1>5, <1>6 DEF IInv

LEMMA StutterInv == ASSUME IInv, UNCHANGED vars PROVE IInv'
<1>1. StoreTyped' /\ Grows /\ \A s \in Session : Apart(s)
  BY StoreUnchanged DEF vars
<1>2. UNCHANGED <<run, texts, lost, cmd, started, counted, overlap, db, draft, lock, doomed>>
  BY DEF vars, pipeline, network, store
<1>3. TypeOK' /\ OneAggregates' /\ MentionsCount' /\ EdgesHaveRows(db)'
  BY <1>1, <1>2 DEF IInv, TypeOK, OneAggregates, Aggregating, MentionsCount, Grows
<1>4. ASSUME NEW c \in Cmds PROVE CmdInv(c, cmd[c])'
  <2>1. Counts(c) /\ overlap' \in BOOLEAN /\ cmd'[c] = cmd[c]
    BY <1>2, OfCmd DEF Counts
  <2> QED BY <1>1, <2>1, ApartCmd DEF Session
<1>5. ASSUME NEW r \in Runs PROVE RunInv(r, run[r])'
  BY <1>1, <1>2, ApartRun DEF Session
<1> QED BY <1>3, <1>4, <1>5 DEF IInv

LEMMA StepsInv == IInv /\ [Next]_vars => IInv'
BY CmdsStep, RunsStep, StutterInv DEF Next

\* In every state the sessions' drafts, the aggregations' values and the runs'
\* findings are what the committed tables and the counts say they are.
THEOREM PanelInvariant == Spec => []IInv
<1>1. Init => IInv
  BY InitInv
<1>2. IInv /\ [Next]_vars => IInv'
  BY StepsInv
<1> QED BY <1>1, <1>2, PTL DEF Spec

\* However many aggregations run at once and fail in whichever flush, no
\* reference weighs more than the committed aggregations that counted it, and
\* none weighs less as long as no two have overlapped (upsert's absolute values).
THEOREM MentionsAreCounted == Spec => []MentionsCount
<1>1. IInv => MentionsCount
  BY DEF IInv
<1> QED BY <1>1, PanelInvariant, PTL

\* A command that exits 0 without an error has left a sentiment for every pair it
\* read, and no flow connects countries without one.
THEOREM ReportsAreStored == Spec => []ReportedAreStored
<1>1. ASSUME IInv, NEW c \in Cmds, cmd[c].exit = "zero", ~cmd[c].errors
      PROVE  \A r \in cmd[c].read : HasRow(db.applied, PairOf[r])
  <2>1. cmd[c].at = "done"
    BY <1>1, OfCmd DEF CmdInv, CmdStored
  <2> QED BY <1>1, <2>1, OfCmd DEF CmdInv, CmdStored, Aggregates
<1>2. IInv => EdgesHaveRows(db)
  BY DEF IInv
<1>3. IInv => ReportedAreStored
  BY <1>1, <1>2 DEF ReportedAreStored, EdgesHaveRows
<1> QED BY <1>3, PanelInvariant, PTL

\* A pipeline result that says it succeeded had every collector and stage, and its
\* references are in the panel unless the caller gave them up or a flush failed.
THEOREM ResultsAreTruthful == Spec => []ResultTruthful
<1>1. ASSUME IInv, NEW r \in Runs, run[r].at = "done", run[r].stage # "raised"
      PROVE  /\ run[r].success =>
                    /\ Collectors \subseteq run[r].have
                    /\ {"TOPIC", "SALIENCE"} \subseteq run[r].have
                    /\ run[r].detected
                    /\ FailFast => run[r].ai
                    /\ WithSession => run[r].refs \subseteq db.refs \cup lost
             /\ ~run[r].success => run[r].errors # {}
  <2>1. RunStages(run[r]) /\ RunResult(r, run[r])
    BY <1>1 DEF IInv, RunInv
  <2>2. run[r].success <=> run[r].errors = {}
    BY <1>1, <2>1 DEF RunResult
  <2>3. run[r].success /\ WithSession => run[r].refs \subseteq db.refs \cup lost
    BY <1>1, <2>1 DEF RunResult
  <2>4. run[r].errors = {} =>
           /\ Collectors \subseteq run[r].have /\ "TOPIC" \in run[r].have /\ "SALIENCE" \in run[r].have
           /\ run[r].detected /\ (FailFast => run[r].ai)
    BY <1>1, <2>1 DEF RunStages, AfterGather, AfterTopic, AfterSalience, AfterDetect
  <2> QED BY <2>2, <2>3, <2>4
<1>2. IInv => ResultTruthful
  BY <1>1 DEF ResultTruthful, At
<1> QED BY <1>2, PanelInvariant, PTL
=============================================================================
