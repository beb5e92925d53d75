------------------------- MODULE RepositoriesProofs -------------------------
(***************************************************************************)
(* Proofs about Repositories for any sessions, sentences, versions,        *)
(* segments, hashes and categories, and any numbers of calls and blocks.   *)
(***************************************************************************)
EXTENDS Repositories, TLAPS

\* The calls that go through each await.
Phases(o) ==
    IF o.call \in {"insight", "cache"} THEN {"read", "write"}
    ELSE IF o.call = "fail" THEN {"write", "match", "store"}
    ELSE IF o.call = "upsert" THEN {"delete", "write"}
    ELSE {"write"}

\* A session is in a call, and at an await of it, or it is not.
InCall ==
    \A s \in Sessions :
        /\ op[s] = NoOp => phase[s] = "read" /\ block[s] \in {"closed", "open", "broken"}
        /\ op[s] # NoOp => phase[s] \in Phases(op[s]) /\ block[s] \in {"open", "raised", "fatal"}
        /\ block[s] = "fatal" => phase[s] \in {"write", "store"}
        /\ block[s] = "raised" => phase[s] \in {"delete", "match"}

\* Only the holder of the lock is ahead of the committed tables; it is in its
\* block, and a session between the flush of a failed check and its pattern
\* holds the lock.
LockHeld ==
    /\ lock = NoSession => draft = db
    /\ \A s \in Sessions :
        /\ lock = s => block[s] \in {"open", "raised"}
        /\ phase[s] \in {"match", "store"} /\ block[s] # "fatal" => lock = s

\* The failed check of category c that is flushed and not counted yet.
Uncounted(c) ==
    IF \E s \in Sessions : /\ lock = s /\ phase[s] \in {"match", "store"}
                           /\ Category(op[s].cat) = c
    THEN 1 ELSE 0
Counted ==
    \A c \in Stored :
        /\ db.fails[c] = db.recur[c] + db.missed[c]
        /\ draft.fails[c] = draft.recur[c] + draft.missed[c] + Uncounted(c)
OnePattern ==
    /\ \A c \in Categories : db.patterns[c] <= 1 /\ draft.patterns[c] <= 1
    /\ \A s \in Sessions :
        phase[s] = "store" /\ block[s] # "fatal" => seen[s] = Matches(draft, op[s].cat)

\* The holder of the lock has deleted the analysis of sentence a and not inserted
\* the one that replaces it.
Replacing(a) ==
    \E s \in Sessions :
        /\ lock = s /\ op[s] # NoOp /\ op[s].call = "upsert" /\ phase[s] = "write"
        /\ op[s].sent = a /\ op[s].version = db.analyses[a] /\ draft.analyses[a] = NoVersion
\* The drafted tables have every committed row, but for one being replaced.
RInv ==
    /\ db.segments \subseteq draft.segments
    /\ db.insights \subseteq draft.insights
    /\ db.cache \subseteq draft.cache
    /\ \A a \in Sentences : db.analyses[a] # NoVersion =>
            draft.analyses[a] = db.analyses[a] \/ Replacing(a)

SInv == TypeOK /\ InCall /\ LockHeld
IInv == SInv /\ Counted /\ OnePattern /\ RInv

-----------------------------------------------------------------------------
(* The operators of the model.                                             *)

(* The arguments of a call, by its name.                                   *)
LEMMA Arguments ==
    ASSUME NEW o \in Ops
    PROVE  /\ o.call \in {"upsert", "insert", "insight", "add", "cache", "fail"}
           /\ o.call \in {"upsert", "insert"} => o.sent \in Sentences /\ o.version \in Versions
           /\ o.call = "insight" => o.seg \in Segments /\ o = [call |-> "insight", seg |-> o.seg]
           /\ o.call = "add" => o.seg \in Segments
           /\ o.call = "cache" => o.hash \in Hashes
           /\ o.call = "fail" => o.cat \in Stored \cup {NoCategory} /\ Category(o.cat) \in Stored
BY DEF Ops, Category, Stored

LEMMA ViewType ==
    ASSUME TypeOK, NEW s
    PROVE  View(s) \in Tables
BY DEF TypeOK, View

(* The edits of the tables keep their type.                                *)
LEMMA EditType ==
    ASSUME NEW t \in Tables
    PROVE  /\ \A a \in Sentences, v \in Versions \cup {NoVersion} :
                [t EXCEPT !.analyses[a] = v] \in Tables
           /\ \A g \in Segments : [t EXCEPT !.insights = @ \cup {g}] \in Tables
           /\ \A g \in Segments : [t EXCEPT !.segments = @ \cup {g}] \in Tables
           /\ \A h \in Hashes : [t EXCEPT !.cache = @ \cup {h}] \in Tables
           /\ \A c \in Stored : [t EXCEPT !.fails[c] = @ + 1] \in Tables
           /\ \A c \in Stored : [t EXCEPT !.missed[c] = @ + 1] \in Tables
           /\ \A c \in Stored, n \in Nat :
                [t EXCEPT !.patterns[c] = IF n = 0 THEN @ + 1 ELSE @, !.recur[c] = @ + 1] \in Tables
<1>1. \A a \in Sentences, v \in Versions \cup {NoVersion} :
        [t EXCEPT !.analyses[a] = v] \in Tables
    BY DEF Tables
<1>3. \A g \in Segments : [t EXCEPT !.insights = @ \cup {g}] \in Tables
    BY DEF Tables
<1>4. \A g \in Segments : [t EXCEPT !.segments = @ \cup {g}] \in Tables
    BY DEF Tables
<1>5. \A h \in Hashes : [t EXCEPT !.cache = @ \cup {h}] \in Tables
    BY DEF Tables
<1>6. \A c \in Stored : [t EXCEPT !.fails[c] = @ + 1] \in Tables
    BY DEF Tables
<1>7. \A c \in Stored : [t EXCEPT !.missed[c] = @ + 1] \in Tables
    BY DEF Tables
<1>8. \A c \in Stored, n \in Nat :
        [t EXCEPT !.patterns[c] = IF n = 0 THEN @ + 1 ELSE @, !.recur[c] = @ + 1] \in Tables
    <2> TAKE c \in Stored, n \in Nat
    <2> DEFINE e == [t EXCEPT !.patterns[c] = IF n = 0 THEN @ + 1 ELSE @, !.recur[c] = @ + 1]
    <2>1. /\ e.analyses = t.analyses /\ e.segments = t.segments /\ e.insights = t.insights
          /\ e.cache = t.cache /\ e.fails = t.fails /\ e.missed = t.missed
          /\ e.patterns = [t.patterns EXCEPT ![c] = IF n = 0 THEN @ + 1 ELSE @]
          /\ e.recur = [t.recur EXCEPT ![c] = @ + 1]
        BY DEF Tables
    <2>2. e = [x \in DOMAIN t |-> e[x]] /\ DOMAIN e = DOMAIN t
        BY DEF Tables
    <2>3. DOMAIN t = {"analyses", "segments", "insights", "cache", "fails", "patterns",
                      "recur", "missed"}
        BY DEF Tables
    <2> HIDE DEF e
    <2>4. e.patterns \in [Stored -> Nat] /\ e.recur \in [Stored -> Nat]
        BY <2>1 DEF Tables
    <2>5. e = [analyses |-> e.analyses, segments |-> e.segments, insights |-> e.insights,
               cache |-> e.cache, fails |-> e.fails, patterns |-> e.patterns,
               recur |-> e.recur, missed |-> e.missed]
        BY <2>2, <2>3
    <2>6. QED
        BY <2>1, <2>4, <2>5 DEF Tables
<1>9. QED
    BY <1>1, <1>3, <1>4, <1>5, <1>6, <1>7, <1>8

(* What Undo, Done and a write leave behind has its type.                  *)
LEMMA UndoType ==
    ASSUME TypeOK, NEW s \in Sessions, Undo(s)
    PROVE  db' \in Tables /\ draft' \in Tables /\ lock' \in Sessions \cup {NoSession}
BY DEF TypeOK, Undo

LEMMA DoneType ==
    ASSUME TypeOK, NEW s \in Sessions, Done(s)
    PROVE  /\ op' \in [Sessions -> Ops \cup {NoOp}]
           /\ phase' \in [Sessions -> Phase]
           /\ seen' \in [Sessions -> 0..1]
BY DEF TypeOK, Done, Phase

LEMMA WriteType ==
    ASSUME TypeOK, NEW s \in Sessions, NEW t \in Tables, Writes(s, t)
    PROVE  draft' \in Tables /\ lock' \in Sessions \cup {NoSession}
BY DEF Writes

-----------------------------------------------------------------------------
(* Types.                                                                  *)

LEMMA TypeStep ==
    ASSUME TypeOK, InCall, [Next]_vars
    PROVE  TypeOK'
<1>1. CASE UNCHANGED vars
    BY <1>1 DEF TypeOK, vars
<1>2. ASSUME NEW s \in Sessions, Enter(s) PROVE TypeOK'
    BY <1>2, RepositoriesAssumption DEF TypeOK, Enter
<1>3. ASSUME NEW s \in Sessions, Commit(s) \/ Exit(s) PROVE TypeOK'
    <2>1. db' \in Tables /\ draft' \in Tables /\ lock' \in Sessions \cup {NoSession}
        BY <1>3, UndoType, ViewType DEF Commit, Exit, CommitTables, TypeOK
    <2>2. block' \in [Sessions -> {"closed", "open", "raised", "fatal", "broken"}]
        BY <1>3 DEF Commit, Exit, TypeOK
    <2>3. QED
        BY <1>3, <2>1, <2>2 DEF Commit, Exit, TypeOK
<1>4. ASSUME NEW s \in Sessions, Rollback(s) PROVE TypeOK'
    BY <1>4, UndoType DEF Rollback, TypeOK
<1>5. ASSUME NEW s \in Sessions, Propagate(s) PROVE TypeOK'
    BY <1>5, UndoType, DoneType DEF Propagate, TypeOK
<1>6. ASSUME NEW s \in Sessions, Handle(s) PROVE TypeOK'
    <2>1. draft' \in Tables
        <3>1. CASE op[s].call = "fail" /\ phase[s] = "match"
            <4>1. op[s] \in Ops
                BY <3>1, <1>6 DEF TypeOK, InCall
            <4>2. QED
                BY <1>6, <3>1, <4>1, Arguments, EditType DEF Handle, TypeOK
        <3>2. CASE ~(op[s].call = "fail" /\ phase[s] = "match")
            BY <1>6, <3>2 DEF Handle, TypeOK
        <3>3. QED
            BY <3>1, <3>2
    <2>2. QED
        BY <1>6, <2>1, DoneType DEF Handle, TypeOK
<1>7. ASSUME NEW s \in Sessions, NEW o \in Ops, Call(s, o) PROVE TypeOK'
    BY <1>7, RepositoriesAssumption DEF Call, FirstPhase, TypeOK, Phase
<1>8. ASSUME NEW s \in Sessions, Read(s) PROVE TypeOK'
    BY <1>8 DEF Read, To, TypeOK, Phase
<1>17. ASSUME NEW s \in Sessions, NEW t \in Tables, NEW fresh, Inserts(s, fresh, t)
       PROVE  TypeOK'
    <2>1. CASE Writes(s, t) /\ Done(s) /\ UNCHANGED <<db, block, calls, blocks>>
        BY <2>1, WriteType, DoneType DEF TypeOK
    <2>2. CASE FlushFails(s)
        BY <2>2, UndoType DEF TypeOK, FlushFails
    <2>3. QED
        BY <1>17, <2>1, <2>2 DEF Inserts
<1>18. ASSUME NEW s \in Sessions, DeleteAnalyses(s) PROVE TypeOK'
    <2>1. op[s] \in Ops /\ op[s].call = "upsert"
        BY <1>18 DEF DeleteAnalyses, Active, TypeOK, InCall, Phases
    <2>2. PICK v \in Versions \cup {NoVersion} :
            Writes(s, [View(s) EXCEPT !.analyses[op[s].sent] = v])
        BY <1>18, <2>1, Arguments, ViewType DEF DeleteAnalyses, Tables
    <2>3. draft' \in Tables /\ lock' \in Sessions \cup {NoSession}
        BY <2>1, <2>2, Arguments, ViewType, EditType, WriteType
    <2>4. QED
        BY <1>18, <2>3 DEF DeleteAnalyses, TypeOK, To, Phase
<1>9. ASSUME NEW s \in Sessions, WriteAnalyses(s) PROVE TypeOK'
    <2>1. op[s] \in Ops
        BY <1>9 DEF WriteAnalyses, Active, TypeOK
    <2>2. [View(s) EXCEPT !.analyses[op[s].sent] = op[s].version] \in Tables
        BY <1>9, <2>1, Arguments, ViewType, EditType DEF WriteAnalyses
    <2>3. QED
        BY <1>9, <1>17, <2>2 DEF WriteAnalyses
<1>10. ASSUME NEW s \in Sessions, WriteInsight(s) PROVE TypeOK'
    <2>1. op[s] \in Ops
        BY <1>10 DEF WriteInsight, Active, TypeOK
    <2>2. View(s) \in Tables /\ [View(s) EXCEPT !.insights = @ \cup {op[s].seg}] \in Tables
        BY <1>10, <2>1, Arguments, ViewType, EditType DEF WriteInsight
    <2>3. CASE Writes(s, View(s)) /\ Done(s) /\ UNCHANGED <<db, block, calls, blocks>>
        BY <2>2, <2>3, WriteType, DoneType DEF TypeOK
    <2>4. CASE Done(s) /\ UNCHANGED <<db, draft, lock, block, calls, blocks>>
        BY <2>4, DoneType DEF TypeOK
    <2>5. QED
        BY <1>10, <1>17, <2>2, <2>3, <2>4 DEF WriteInsight
<1>11. ASSUME NEW s \in Sessions, WriteKeyed(s) PROVE TypeOK'
    <2>1. op[s] \in Ops
        BY <1>11 DEF WriteKeyed, Active, TypeOK
    <2>3. CASE op[s].call = "add"
        <3>1. [View(s) EXCEPT !.segments = @ \cup {op[s].seg}] \in Tables
            BY <2>1, <2>3, Arguments, ViewType, EditType
        <3>2. QED
            BY <1>11, <1>17, <2>3, <3>1 DEF WriteKeyed
    <2>4. CASE op[s].call = "cache" /\ seen[s] = 0
        <3>1. [View(s) EXCEPT !.cache = @ \cup {op[s].hash}] \in Tables
            BY <2>1, <2>4, Arguments, ViewType, EditType
        <3>2. QED
            BY <1>11, <1>17, <2>4, <3>1 DEF WriteKeyed
    <2>5. CASE Writes(s, View(s)) /\ Done(s) /\ UNCHANGED <<db, block, calls, blocks>>
        BY <2>5, ViewType, WriteType, DoneType DEF TypeOK
    <2>6. QED
        BY <1>11, <2>3, <2>4, <2>5 DEF WriteKeyed
<1>12. ASSUME NEW s \in Sessions, FlushFail(s) PROVE TypeOK'
    <2>1. op[s] \in Ops
        BY <1>12 DEF FlushFail, Active, TypeOK
    <2>2. [View(s) EXCEPT !.fails[Category(op[s].cat)] = @ + 1] \in Tables
        BY <1>12, <2>1, Arguments, ViewType, EditType DEF FlushFail
    <2>3. draft' \in Tables /\ lock' \in Sessions \cup {NoSession}
        BY <1>12, <2>2, WriteType DEF FlushFail
    <2>4. QED
        BY <1>12, <2>3 DEF FlushFail, TypeOK, To, Phase
<1>13. ASSUME NEW s \in Sessions, MatchPattern(s) PROVE TypeOK'
    <2> DEFINE n == Matches(View(s), op[s].cat)
    <2>1. n \in Nat
        <3>1. op[s] \in Ops /\ op[s].call = "fail"
            BY <1>13 DEF MatchPattern, Active, TypeOK, InCall, Phases
        <3>2. op[s].cat # NoCategory => op[s].cat \in Stored
            BY <3>1, Arguments
        <3>3. QED
            BY <3>2, ViewType DEF Matches, Tables
    <2>2. CASE n <= 1 /\ seen' = [seen EXCEPT ![s] = n] /\ To(s, "store")
               /\ UNCHANGED <<db, draft, lock, block, calls, blocks>>
        <3>1. n \in 0..1
            BY <2>1, <2>2
        <3> HIDE DEF n
        <3>2. QED
            BY <2>2, <3>1 DEF TypeOK, To, Phase
    <2>3. CASE Raise(s)
        BY <2>3 DEF TypeOK, Raise
    <2>4. QED
        BY <1>13, <2>2, <2>3 DEF MatchPattern
<1>14. ASSUME NEW s \in Sessions, StorePattern(s) PROVE TypeOK'
    <2> DEFINE c == Category(op[s].cat)
               n == seen[s]
               t == [View(s) EXCEPT !.patterns[c] = IF n = 0 THEN @ + 1 ELSE @,
                                    !.recur[c] = @ + 1]
    <2>1. op[s] \in Ops /\ op[s].call = "fail" /\ n \in Nat
        BY <1>14 DEF StorePattern, Active, TypeOK, InCall, Phases
    <2>2. Writes(s, t) /\ Done(s) /\ UNCHANGED <<db, block, calls, blocks>>
        BY <1>14 DEF StorePattern
    <2>3. c \in Stored
        BY <2>1, Arguments
    <2> HIDE DEF c, n
    <2>4. t \in Tables
        BY <2>1, <2>3, ViewType, EditType
    <2> HIDE DEF t
    <2>5. QED
        BY <2>2, <2>4, WriteType, DoneType DEF TypeOK
<1>15. ASSUME NEW s \in Sessions, Locked(s) PROVE TypeOK'
    BY <1>15, UndoType DEF Locked, Raise, FlushFails, TypeOK
<1>16. QED
    BY <1>1, <1>2, <1>3, <1>4, <1>5, <1>6, <1>7, <1>8, <1>9, <1>10, <1>11, <1>12, <1>13,
       <1>14, <1>15, <1>18 DEF Next

-----------------------------------------------------------------------------
(* Calls and their awaits.                                                 *)

(* Only session s moves, and its state fits.                               *)
LEMMA InCallOf ==
    ASSUME InCall, NEW s \in Sessions,
           \A r \in Sessions \ {s} :
                op'[r] = op[r] /\ phase'[r] = phase[r] /\ block'[r] = block[r],
           op'[s] = NoOp => phase'[s] = "read" /\ block'[s] \in {"closed", "open", "broken"},
           op'[s] # NoOp => /\ phase'[s] \in Phases(op'[s])
                            /\ block'[s] \in {"open", "raised", "fatal"},
           block'[s] = "fatal" => phase'[s] \in {"write", "store"},
           block'[s] = "raised" => phase'[s] \in {"delete", "match"}
    PROVE  InCall'
<1>1. ASSUME NEW r \in Sessions
      PROVE  /\ op'[r] = NoOp => phase'[r] = "read" /\ block'[r] \in {"closed", "open", "broken"}
             /\ op'[r] # NoOp => /\ phase'[r] \in Phases(op'[r])
                                 /\ block'[r] \in {"open", "raised", "fatal"}
             /\ block'[r] = "fatal" => phase'[r] \in {"write", "store"}
             /\ block'[r] = "raised" => phase'[r] \in {"delete", "match"}
    <2>1. CASE r = s
        BY <2>1
    <2>2. CASE r # s
        BY <2>2 DEF InCall
    <2>3. QED
        BY <2>1, <2>2
<1>2. QED
    BY <1>1 DEF InCall, Phases

LEMMA InCallDone ==
    ASSUME TypeOK, InCall, NEW s \in Sessions, Done(s),
           block'[s] \in {"closed", "open", "broken"},
           \A r \in Sessions \ {s} : block'[r] = block[r]
    PROVE  InCall'
BY InCallOf DEF TypeOK, Done

LEMMA InCallStep ==
    ASSUME TypeOK, InCall, LockHeld, [Next]_vars
    PROVE  InCall'
<1>1. CASE UNCHANGED vars
    BY <1>1 DEF InCall, vars, Phases
<1>2. ASSUME NEW s \in Sessions,
             Enter(s) \/ Commit(s) \/ Exit(s) \/ Rollback(s)
      PROVE  InCall'
    <2>1. /\ UNCHANGED <<op, phase, seen>>
          /\ \E b \in {"open", "closed"} : block' = [block EXCEPT ![s] = b]
        BY <1>2 DEF Enter, Commit, Exit, Rollback, TypeOK
    <2>2. op[s] = NoOp
        BY <1>2 DEF Enter, Commit, Exit, Rollback, InCall
    <2>3. QED
        BY <2>1, <2>2, InCallOf DEF TypeOK, InCall
<1>3. ASSUME NEW s \in Sessions, Propagate(s) \/ Handle(s) PROVE InCall'
    BY <1>3, InCallDone DEF Propagate, Handle, TypeOK
<1>4. ASSUME NEW s \in Sessions, NEW o \in Ops, Call(s, o) PROVE InCall'
    <2>1. FirstPhase(o) \in Phases(o) /\ FirstPhase(o) \in {"read", "delete", "write"}
        BY Arguments DEF FirstPhase, Phases
    <2>2. op'[s] = o /\ o # NoOp /\ phase'[s] = FirstPhase(o) /\ block'[s] = "open"
        BY <1>4, NoOpAssumption DEF Call, TypeOK
    <2>3. QED
        BY <1>4, <2>1, <2>2, InCallOf DEF Call, TypeOK
<1>5. ASSUME NEW s \in Sessions, StorePattern(s)
      PROVE  InCall'
    BY <1>5, InCallDone DEF StorePattern, Active
<1>6. ASSUME NEW s \in Sessions, NEW p \in {"write", "match", "store"},
             p \in Phases(op[s]), op[s] # NoOp, block[s] = "open", To(s, p), block' = block
      PROVE  InCall'
    BY <1>6, InCallOf DEF To, TypeOK
<1>7. ASSUME NEW s \in Sessions, block[s] = "open", op[s] # NoOp,
             \/ Raise(s) /\ phase[s] \in {"delete", "match"}
             \/ FlushFails(s) /\ phase[s] \in {"write", "store"}
      PROVE  InCall'
    BY <1>7, InCallOf DEF Raise, FlushFails, TypeOK, InCall
<1>8. ASSUME NEW s \in Sessions, Read(s) PROVE InCall'
    <2>1. op[s] # NoOp /\ block[s] = "open" /\ "write" \in Phases(op[s])
        BY <1>8 DEF Read, Active, InCall, Phases
    <2>2. QED
        BY <1>6, <1>8, <2>1 DEF Read
<1>9. ASSUME NEW s \in Sessions, WriteAnalyses(s) \/ WriteInsight(s) \/ WriteKeyed(s)
      PROVE  InCall'
    <2>1. block[s] = "open" /\ op[s] # NoOp /\ phase[s] = "write"
        BY <1>9 DEF WriteAnalyses, WriteInsight, WriteKeyed, Active
    <2>2. CASE FlushFails(s)
        BY <1>7, <2>1, <2>2
    <2>3. CASE Done(s) /\ block' = block
        BY <2>1, <2>3, InCallDone
    <2>4. QED
        BY <1>9, <2>2, <2>3 DEF WriteAnalyses, WriteInsight, WriteKeyed, Inserts
<1>14. ASSUME NEW s \in Sessions, DeleteAnalyses(s) PROVE InCall'
    <2>1. op[s] # NoOp /\ block[s] = "open" /\ "write" \in Phases(op[s])
        BY <1>14 DEF DeleteAnalyses, Active, InCall, Phases
    <2>2. QED
        BY <1>6, <1>14, <2>1 DEF DeleteAnalyses
<1>10. ASSUME NEW s \in Sessions, FlushFail(s) PROVE InCall'
    <2>1. op[s] # NoOp /\ block[s] = "open" /\ "match" \in Phases(op[s])
        BY <1>10 DEF FlushFail, Active, Phases
    <2>2. QED
        BY <1>6, <1>10, <2>1 DEF FlushFail
<1>11. ASSUME NEW s \in Sessions, MatchPattern(s) PROVE InCall'
    <2>1. op[s] # NoOp /\ block[s] = "open" /\ "store" \in Phases(op[s])
        BY <1>11 DEF MatchPattern, Active, InCall, Phases
    <2>2. QED
        BY <1>6, <1>7, <1>11, <2>1 DEF MatchPattern, Active, TypeOK
<1>12. ASSUME NEW s \in Sessions, Locked(s) PROVE InCall'
    BY <1>7, <1>12 DEF Locked, InCall, Phases
<1>13. QED
    BY <1>1, <1>2, <1>3, <1>4, <1>5, <1>8, <1>9, <1>10, <1>11, <1>12,
       <1>14 DEF Next

-----------------------------------------------------------------------------
(* The lock.                                                               *)

(* Session s gives the lock back or never had it, and its call is over.    *)
LEMMA LockUndone ==
    ASSUME TypeOK, LockHeld, NEW s \in Sessions, Undo(s),
           \A r \in Sessions \ {s} : phase'[r] = phase[r] /\ block'[r] = block[r],
           phase'[s] \in {"match", "store"} => block'[s] = "fatal"
    PROVE  LockHeld'
<1>1. lock' = NoSession => draft' = db'
    BY RepositoriesAssumption DEF Undo, LockHeld
<1>2. ASSUME NEW r \in Sessions
      PROVE  /\ lock' = r => block'[r] \in {"open", "raised"}
             /\ phase'[r] \in {"match", "store"} /\ block'[r] # "fatal" => lock' = r
    BY RepositoriesAssumption DEF Undo, LockHeld
<1>3. QED
    BY <1>1, <1>2 DEF LockHeld

(* Session s writes, holding or taking the lock.                           *)
LEMMA LockWritten ==
    ASSUME TypeOK, LockHeld, NEW s \in Sessions, NEW t, Writes(s, t),
           \A r \in Sessions \ {s} : phase'[r] = phase[r], block' = block, block[s] = "open"
    PROVE  LockHeld'
<1>1. ASSUME NEW r \in Sessions
      PROVE  /\ lock' = r => block'[r] \in {"open", "raised"}
             /\ phase'[r] \in {"match", "store"} /\ block'[r] # "fatal" => lock' = r
    BY RepositoriesAssumption DEF Writes, LockHeld
<1>2. QED
    BY <1>1, RepositoriesAssumption DEF LockHeld, Writes

(* Session s leaves the tables and the lock alone.                         *)
LEMMA LockKept ==
    ASSUME TypeOK, LockHeld, NEW s \in Sessions, UNCHANGED <<db, draft, lock>>,
           \A r \in Sessions \ {s} : phase'[r] = phase[r] /\ block'[r] = block[r],
           lock = s => block'[s] \in {"open", "raised"},
           phase'[s] \in {"match", "store"} => lock = s
    PROVE  LockHeld'
<1>1. ASSUME NEW r \in Sessions
      PROVE  /\ lock' = r => block'[r] \in {"open", "raised"}
             /\ phase'[r] \in {"match", "store"} /\ block'[r] # "fatal" => lock' = r
    BY DEF LockHeld
<1>2. QED
    BY <1>1 DEF LockHeld

LEMMA LockStep ==
    ASSUME TypeOK, InCall, LockHeld, [Next]_vars
    PROVE  LockHeld'
<1>1. CASE UNCHANGED vars
    BY <1>1 DEF LockHeld, vars
<1>2. ASSUME NEW s \in Sessions, Enter(s) PROVE LockHeld'
    BY <1>2, LockKept DEF Enter, TypeOK, InCall
<1>3. ASSUME NEW s \in Sessions, Commit(s) \/ Exit(s), CommitTables(s), block[s] = "open"
      PROVE  LockHeld'
    <2>1. op[s] = NoOp /\ phase' = phase /\ phase[s] = "read"
        BY <1>3 DEF Commit, Exit, InCall
    <2>2. lock' = NoSession => draft' = db'
        BY <1>3, RepositoriesAssumption DEF CommitTables, View, LockHeld
    <2>3. ASSUME NEW r \in Sessions
          PROVE  /\ lock' = r => block'[r] \in {"open", "raised"}
                 /\ phase'[r] \in {"match", "store"} /\ block'[r] # "fatal" => lock' = r
        BY <1>3, <2>1, RepositoriesAssumption DEF CommitTables, Commit, Exit, LockHeld, TypeOK
    <2>4. QED
        BY <2>2, <2>3 DEF LockHeld
<1>4. ASSUME NEW s \in Sessions, Exit(s) \/ Rollback(s) \/ Propagate(s), Undo(s)
      PROVE  LockHeld'
    <2>1. phase'[s] = "read"
        BY <1>4 DEF Exit, Rollback, Propagate, InCall, Done, TypeOK
    <2>2. QED
        BY <1>4, <2>1, LockUndone DEF Exit, Rollback, Propagate, Done, TypeOK
<1>5. ASSUME NEW s \in Sessions, Handle(s) PROVE LockHeld'
    <2>1. phase'[s] = "read" /\ block'[s] \in {"open", "broken"}
          /\ (block[s] = "raised" => block'[s] = "open")
        BY <1>5 DEF Handle, Done, TypeOK
    <2>2. lock' = NoSession => draft' = db'
        <3>1. CASE op[s].call = "fail" /\ phase[s] = "match"
            BY <1>5, <3>1, RepositoriesAssumption DEF Handle, LockHeld, InCall
        <3>2. CASE ~(op[s].call = "fail" /\ phase[s] = "match")
            BY <1>5, <3>2 DEF Handle, LockHeld
        <3>3. QED
            BY <3>1, <3>2
    <2>3. ASSUME NEW r \in Sessions
          PROVE  /\ lock' = r => block'[r] \in {"open", "raised"}
                 /\ phase'[r] \in {"match", "store"} /\ block'[r] # "fatal" => lock' = r
        BY <1>5, <2>1 DEF Handle, Done, LockHeld, TypeOK
    <2>4. QED
        BY <2>2, <2>3 DEF LockHeld
<1>6. ASSUME NEW s \in Sessions, NEW o \in Ops, Call(s, o) PROVE LockHeld'
    BY <1>6, LockKept DEF Call, FirstPhase, TypeOK
<1>7. ASSUME NEW s \in Sessions, Raise(s), block[s] = "open" PROVE LockHeld'
    BY <1>7, LockKept DEF Raise, TypeOK, LockHeld
<1>8. ASSUME NEW s \in Sessions, FlushFails(s) PROVE LockHeld'
    BY <1>8, LockUndone DEF FlushFails, TypeOK
<1>9. ASSUME NEW s \in Sessions, Read(s) PROVE LockHeld'
    BY <1>9, LockKept DEF Read, Active, To, TypeOK, LockHeld
<1>10. ASSUME NEW s \in Sessions,
              \/ WriteAnalyses(s) \/ StorePattern(s) \/ WriteInsight(s) \/ WriteKeyed(s)
       PROVE LockHeld'
    <2>1. block[s] = "open"
        BY <1>10 DEF WriteAnalyses, StorePattern, WriteInsight, WriteKeyed, Active
    <2>2. ASSUME NEW t, Writes(s, t), Done(s), UNCHANGED <<db, block, calls, blocks>>
          PROVE  LockHeld'
        BY <2>1, <2>2, LockWritten DEF Done, TypeOK
    <2>3. CASE Done(s) /\ UNCHANGED <<db, draft, lock, block, calls, blocks>>
        BY <2>1, <2>3, LockKept DEF Done, TypeOK
    <2>4. QED
        BY <1>8, <1>10, <2>2, <2>3
        DEF WriteAnalyses, StorePattern, WriteInsight, WriteKeyed, Inserts
<1>11. ASSUME NEW s \in Sessions, DeleteAnalyses(s) PROVE LockHeld'
    <2>1. (\A r \in Sessions \ {s} : phase'[r] = phase[r]) /\ block' = block /\ block[s] = "open"
        BY <1>11 DEF DeleteAnalyses, Active, To, TypeOK
    <2>2. QED
        BY <1>11, <2>1, LockWritten DEF DeleteAnalyses
<1>12. ASSUME NEW s \in Sessions, FlushFail(s) PROVE LockHeld'
    <2>1. (\A r \in Sessions \ {s} : phase'[r] = phase[r]) /\ block' = block /\ block[s] = "open"
        BY <1>12 DEF FlushFail, Active, To, TypeOK
    <2>2. QED
        BY <1>12, <2>1, LockWritten DEF FlushFail
<1>13. ASSUME NEW s \in Sessions, MatchPattern(s) PROVE LockHeld'
    <2>1. lock = s
        BY <1>13 DEF MatchPattern, Active, LockHeld
    <2>2. QED
        BY <1>7, <1>13, <2>1, LockKept DEF MatchPattern, Active, To, TypeOK
<1>14. ASSUME NEW s \in Sessions, Locked(s) PROVE LockHeld'
    BY <1>7, <1>8, <1>14 DEF Locked
<1>15. QED
    BY <1>1, <1>2, <1>3, <1>4, <1>5, <1>6, <1>9, <1>10, <1>11, <1>12, <1>13, <1>14
    DEF Next, Commit, Exit, Rollback, Propagate

-----------------------------------------------------------------------------
(* Failed checks and their patterns.                                       *)

PInv == Counted /\ OnePattern

LEMMA UncountedOf ==
    /\ lock = NoSession => \A c : Uncounted(c) = 0
    /\ \A s \in Sessions : lock = s =>
        \A c : Uncounted(c) = IF phase[s] \in {"match", "store"} /\ Category(op[s].cat) = c
                              THEN 1 ELSE 0
BY RepositoriesAssumption DEF Uncounted

LEMMA UncountedOfNext ==
    /\ lock' = NoSession => \A c : Uncounted(c)' = 0
    /\ \A s \in Sessions : lock' = s =>
        \A c : Uncounted(c)' = IF phase'[s] \in {"match", "store"} /\ Category(op'[s].cat) = c
                               THEN 1 ELSE 0
BY RepositoriesAssumption DEF Uncounted, Category

LEMMA UncountedType ==
    \A c : Uncounted(c) \in 0..1
BY DEF Uncounted

(* The session that may write works on the draft, and no other session is  *)
(* between the flush of a failed check and its pattern.                    *)
LEMMA Writer ==
    ASSUME SInv, NEW s \in Sessions, lock \in {s, NoSession}
    PROVE  /\ View(s) = draft
           /\ \A r \in Sessions \ {s} : phase[r] = "store" => block[r] = "fatal"
BY RepositoriesAssumption DEF SInv, LockHeld, View

LEMMA PatternsUndone ==
    ASSUME SInv, PInv, NEW s \in Sessions, Undo(s),
           \A r \in Sessions \ {s} : /\ op'[r] = op[r] /\ phase'[r] = phase[r]
                                     /\ seen'[r] = seen[r] /\ block'[r] = block[r],
           phase'[s] = "store" => block'[s] = "fatal"
    PROVE  PInv'
<1>1. CASE lock = s
    <2>1. db' = db /\ draft' = db /\ lock' = NoSession
        BY <1>1 DEF Undo
    <2>2. \A r \in Sessions : phase'[r] = "store" => block'[r] = "fatal"
        BY <1>1, RepositoriesAssumption DEF SInv, LockHeld
    <2>3. QED
        BY <2>1, <2>2, UncountedOfNext DEF PInv, Counted, OnePattern, TypeOK, SInv, Tables
<1>2. CASE lock # s
    <2>1. db' = db /\ draft' = draft /\ lock' = lock
        BY <1>2 DEF Undo
    <2>2. lock \in Sessions \ {s} \/ lock = NoSession
        BY <1>2 DEF SInv, TypeOK
    <2>3. \A c : Uncounted(c)' = Uncounted(c)
        BY <2>1, <2>2, UncountedOf, UncountedOfNext
    <2>4. \A r \in Sessions :
            phase'[r] = "store" /\ block'[r] # "fatal" => seen'[r] = Matches(draft', op'[r].cat)
        BY <2>1 DEF PInv, OnePattern
    <2>5. QED
        BY <2>1, <2>3, <2>4 DEF PInv, Counted, OnePattern, Matches
<1>3. QED
    BY <1>1, <1>2

LEMMA PatternsWritten ==
    ASSUME SInv, PInv, NEW s \in Sessions, NEW t, Writes(s, t), db' = db, block' = block,
           phase[s] \in {"delete", "write"}, phase'[s] \in {"read", "write"},
           \A r \in Sessions \ {s} :
                op'[r] = op[r] /\ phase'[r] = phase[r] /\ seen'[r] = seen[r],
           t.fails = draft.fails, t.recur = draft.recur, t.missed = draft.missed,
           t.patterns = draft.patterns
    PROVE  PInv'
<1>2. lock' = s /\ lock \in {s, NoSession} /\ draft' = t
    BY DEF Writes
<1>3. \A c : Uncounted(c)' = Uncounted(c)
    BY <1>2, UncountedOf, UncountedOfNext
<1>4. \A r \in Sessions : phase'[r] = "store" => block'[r] = "fatal"
    BY <1>2, Writer
<1>5. QED
    BY <1>2, <1>3, <1>4 DEF PInv, Counted, OnePattern

LEMMA PatternsKept ==
    ASSUME SInv, PInv, NEW s \in Sessions, UNCHANGED <<db, draft, lock>>,
           \A r \in Sessions \ {s} : /\ op'[r] = op[r] /\ phase'[r] = phase[r]
                                     /\ seen'[r] = seen[r] /\ block'[r] = block[r],
           \/ /\ phase[s] \in {"read", "delete", "write"}
              /\ phase'[s] \in {"read", "delete", "write"}
           \/ /\ op'[s] = op[s] /\ phase[s] \in {"match", "store"}
              /\ phase'[s] \in {"match", "store"}
              /\ phase'[s] = "store" /\ block'[s] # "fatal" => seen'[s] = Matches(draft, op[s].cat)
    PROVE  PInv'
<1>1. lock \in Sessions \cup {NoSession}
    BY DEF SInv, TypeOK
<1>2. \A c : Uncounted(c)' = Uncounted(c)
    BY <1>1, UncountedOf, UncountedOfNext
<1>3. \A r \in Sessions :
        phase'[r] = "store" /\ block'[r] # "fatal" => seen'[r] = Matches(draft', op'[r].cat)
    BY DEF PInv, OnePattern
<1>4. QED
    BY <1>2, <1>3 DEF PInv, Counted, OnePattern, Matches

LEMMA PatternsStep ==
    ASSUME SInv, PInv, [Next]_vars
    PROVE  PInv'
<1> USE DEF SInv
<1>1. CASE UNCHANGED vars
    BY <1>1 DEF PInv, Counted, OnePattern, Uncounted, vars, Matches, Category
<1>2. ASSUME NEW s \in Sessions, Enter(s) PROVE PInv'
    <2>1. phase[s] = "read"
        BY <1>2 DEF Enter, InCall
    <2>2. QED
        BY <1>2, <2>1, PatternsKept DEF Enter, TypeOK
<1>3. ASSUME NEW s \in Sessions, CommitTables(s), block[s] = "open", op[s] = NoOp,
             UNCHANGED <<op, phase, seen>>,
             \A r \in Sessions \ {s} : block'[r] = block[r]
      PROVE  PInv'
    <2>1. phase[s] = "read"
        BY <1>3 DEF InCall
    <2>2. CASE lock \in {s, NoSession}
        <3>1. db' = draft /\ draft' = draft /\ lock' = NoSession
            BY <1>3, <2>2, Writer, RepositoriesAssumption DEF CommitTables
        <3>2. \A r \in Sessions : phase'[r] = "store" => block'[r] = "fatal"
            BY <1>3, <2>1, <2>2, Writer
        <3>3. \A c : Uncounted(c) = 0 /\ Uncounted(c)' = 0
            BY <2>1, <2>2, <3>1, UncountedOf, UncountedOfNext
        <3>4. QED
            BY <3>1, <3>2, <3>3 DEF PInv, Counted, OnePattern, TypeOK, Tables
    <2>3. CASE lock \notin {s, NoSession}
        <3>1. UNCHANGED <<db, draft, lock>>
            BY <1>3, <2>3 DEF CommitTables, View
        <3>2. QED
            BY <1>3, <2>1, <3>1, PatternsKept
    <2>4. QED
        BY <2>2, <2>3
<1>4. ASSUME NEW s \in Sessions, Exit(s) \/ Rollback(s) \/ Propagate(s), Undo(s) PROVE PInv'
    <2>1. phase'[s] = "read"
        BY <1>4 DEF Exit, Rollback, Propagate, InCall, Done, TypeOK
    <2>2. QED
        BY <1>4, <2>1, PatternsUndone DEF Exit, Rollback, Propagate, Done, TypeOK
<1>5. ASSUME NEW s \in Sessions, Handle(s) PROVE PInv'
    <2>1. phase'[s] = "read"
        BY <1>5 DEF Handle, Done, TypeOK
    <2>2. \A r \in Sessions \ {s} : /\ op'[r] = op[r] /\ phase'[r] = phase[r]
                                     /\ seen'[r] = seen[r] /\ block'[r] = block[r]
        BY <1>5 DEF Handle, Done, TypeOK
    <2>3. CASE phase[s] = "match"
        <3> DEFINE c == Category(op[s].cat)
                   t == [draft EXCEPT !.missed[c] = @ + 1]
        <3>1. op[s] \in Ops /\ op[s].call = "fail" /\ lock = s
            BY <1>5, <2>3 DEF Handle, InCall, Phases, LockHeld, TypeOK
        <3>2. c \in Stored
            BY <3>1, Arguments
        <3>3. draft' = t /\ db' = db /\ lock' = s
            BY <1>5, <2>3, <3>1 DEF Handle
        <3>4. /\ t.fails = draft.fails /\ t.recur = draft.recur /\ t.patterns = draft.patterns
              /\ \A d \in Stored : t.missed[d] = draft.missed[d] + (IF d = c THEN 1 ELSE 0)
            BY <3>2 DEF TypeOK, Tables
        <3>5. \A d : Uncounted(d) = (IF d = c THEN 1 ELSE 0) /\ Uncounted(d)' = 0
            BY <2>1, <2>3, <3>1, <3>3, UncountedOf, UncountedOfNext
        <3>6. \A r \in Sessions : phase'[r] = "store" => block'[r] = "fatal"
            BY <2>1, <2>2, <3>1, Writer
        <3> HIDE DEF c, t
        <3>7. Counted'
            BY <3>3, <3>4, <3>5 DEF PInv, Counted, TypeOK, Tables
        <3>8. OnePattern'
            BY <3>3, <3>4, <3>6 DEF PInv, OnePattern
        <3>9. QED
            BY <3>7, <3>8 DEF PInv
    <2>4. CASE phase[s] # "match"
        <3>1. UNCHANGED <<db, draft, lock>>
            BY <1>5, <2>4 DEF Handle
        <3>2. CASE phase[s] = "store"
            <4>1. lock # s
                BY <1>5, <3>2 DEF Handle, InCall, LockHeld
            <4>2. Undo(s)
                BY <3>1, <4>1 DEF Undo
            <4>3. QED
                BY <2>1, <2>2, <4>2, PatternsUndone
        <3>3. CASE phase[s] \in {"read", "delete", "write"}
            BY <2>1, <2>2, <3>1, <3>3, PatternsKept
        <3>4. QED
            BY <2>4, <3>2, <3>3 DEF TypeOK, Phase
    <2>5. QED
        BY <2>3, <2>4
<1>6. ASSUME NEW s \in Sessions, NEW o \in Ops, Call(s, o) PROVE PInv'
    <2>1. phase[s] = "read" /\ phase'[s] \in {"read", "delete", "write"}
        BY <1>6 DEF Call, InCall, FirstPhase, TypeOK
    <2>2. QED
        BY <1>6, <2>1, PatternsKept DEF Call, TypeOK
<1>7. ASSUME NEW s \in Sessions, Raise(s), phase[s] # "store" PROVE PInv'
    BY <1>7, PatternsKept DEF Raise, TypeOK, Phase
<1>8. ASSUME NEW s \in Sessions, FlushFails(s) PROVE PInv'
    BY <1>8, PatternsUndone DEF FlushFails, TypeOK
<1>9. ASSUME NEW s \in Sessions, Read(s) PROVE PInv'
    BY <1>9, PatternsKept DEF Read, Active, To, TypeOK
<1>10. ASSUME NEW s \in Sessions, NEW t, Writes(s, t), db' = db, block' = block,
              Done(s) \/ (To(s, "write") /\ seen' = seen), phase[s] \in {"delete", "write"},
              t.fails = View(s).fails, t.recur = View(s).recur, t.missed = View(s).missed,
              t.patterns = View(s).patterns
       PROVE  PInv'
    <2>1. View(s) = draft
        BY <1>10, Writer DEF Writes
    <2>2. /\ phase'[s] \in {"read", "write"}
          /\ \A r \in Sessions \ {s} :
                op'[r] = op[r] /\ phase'[r] = phase[r] /\ seen'[r] = seen[r]
        BY <1>10 DEF Done, To, TypeOK
    <2>3. QED
        BY <1>10, <2>1, <2>2, PatternsWritten
<1>11. ASSUME NEW s \in Sessions, DeleteAnalyses(s) PROVE PInv'
    <2> DEFINE t == [View(s) EXCEPT !.analyses[op[s].sent] =
                        IF @ = op[s].version THEN NoVersion ELSE @]
    <2>1. /\ t.fails = View(s).fails /\ t.recur = View(s).recur /\ t.missed = View(s).missed
          /\ t.patterns = View(s).patterns
        BY ViewType DEF Tables
    <2>2. Writes(s, t) /\ To(s, "write") /\ UNCHANGED <<db, block, seen>> /\ phase[s] = "delete"
        BY <1>11 DEF DeleteAnalyses, Active
    <2> HIDE DEF t
    <2>3. QED
        BY <1>10, <2>1, <2>2
<1>12. ASSUME NEW s \in Sessions, WriteAnalyses(s) \/ WriteInsight(s) \/ WriteKeyed(s)
       PROVE  PInv'
    <2>1. phase[s] = "write"
        BY <1>12 DEF WriteAnalyses, WriteInsight, WriteKeyed, Active
    <2>2. ASSUME NEW t, Writes(s, t), Done(s), UNCHANGED <<db, block, calls, blocks>>,
                 t \in {View(s), [View(s) EXCEPT !.segments = @ \cup {op[s].seg}],
                        [View(s) EXCEPT !.insights = @ \cup {op[s].seg}],
                        [View(s) EXCEPT !.cache = @ \cup {op[s].hash}],
                        [View(s) EXCEPT !.analyses[op[s].sent] = op[s].version]}
          PROVE  PInv'
        <3>1. /\ t.fails = View(s).fails /\ t.recur = View(s).recur
              /\ t.missed = View(s).missed /\ t.patterns = View(s).patterns
            BY <2>2, ViewType DEF Tables
        <3>2. QED
            BY <1>10, <2>1, <2>2, <3>1
    <2>3. CASE Done(s) /\ UNCHANGED <<db, draft, lock, block, calls, blocks>>
        BY <2>1, <2>3, PatternsKept DEF Done, TypeOK
    <2>4. CASE WriteAnalyses(s)
        BY <1>8, <2>2, <2>4 DEF WriteAnalyses, Inserts
    <2>5. CASE WriteInsight(s)
        BY <1>8, <2>2, <2>3, <2>5 DEF WriteInsight, Inserts
    <2>6. CASE WriteKeyed(s)
        BY <1>8, <2>2, <2>6 DEF WriteKeyed, Inserts
    <2>7. QED
        BY <1>12, <2>4, <2>5, <2>6
<1>13. ASSUME NEW s \in Sessions, FlushFail(s) PROVE PInv'
    <2> DEFINE c == Category(op[s].cat)
               t == [draft EXCEPT !.fails[c] = @ + 1]
    <2>1. op[s] \in Ops /\ op[s].call = "fail" /\ phase[s] = "write" /\ block[s] = "open"
        BY <1>13 DEF FlushFail, Active, TypeOK
    <2>2. c \in Stored
        BY <2>1, Arguments
    <2>3. draft' = t /\ db' = db /\ lock' = s /\ lock \in {s, NoSession}
        BY <1>13, Writer DEF FlushFail, Writes
    <2>4. /\ t.missed = draft.missed /\ t.recur = draft.recur /\ t.patterns = draft.patterns
          /\ \A d \in Stored : t.fails[d] = draft.fails[d] + (IF d = c THEN 1 ELSE 0)
        BY <2>2 DEF TypeOK, Tables
    <2>5. op' = op /\ phase'[s] = "match" /\ block' = block
          /\ \A r \in Sessions \ {s} : phase'[r] = phase[r]
        BY <1>13 DEF FlushFail, To, TypeOK
    <2>6. \A d : Uncounted(d) = 0 /\ Uncounted(d)' = (IF d = c THEN 1 ELSE 0)
        BY <2>1, <2>3, <2>5, UncountedOf, UncountedOfNext
    <2>7. \A r \in Sessions : phase'[r] = "store" => block'[r] = "fatal"
        BY <2>3, <2>5, Writer
    <2> HIDE DEF c, t
    <2>8. Counted'
        BY <2>3, <2>4, <2>6 DEF PInv, Counted, TypeOK, Tables
    <2>9. OnePattern'
        BY <2>3, <2>4, <2>7 DEF PInv, OnePattern
    <2>10. QED
        BY <2>8, <2>9 DEF PInv
<1>14. ASSUME NEW s \in Sessions, MatchPattern(s) PROVE PInv'
    <2>1. lock = s /\ phase[s] = "match" /\ View(s) = draft
        BY <1>14 DEF MatchPattern, Active, LockHeld, View
    <2>2. CASE /\ seen' = [seen EXCEPT ![s] = Matches(View(s), op[s].cat)] /\ To(s, "store")
               /\ UNCHANGED <<db, draft, lock, block, calls, blocks>>
        <3>1. /\ op' = op /\ phase' = [phase EXCEPT ![s] = "store"]
              /\ seen' = [seen EXCEPT ![s] = Matches(draft, op[s].cat)]
              /\ UNCHANGED <<db, draft, lock, block>>
            BY <2>1, <2>2 DEF To
        <3>2. QED
            BY <2>1, <3>1, PatternsKept DEF TypeOK
    <2>3. QED
        BY <1>7, <1>14, <2>1, <2>2 DEF MatchPattern
<1>15. ASSUME NEW s \in Sessions, StorePattern(s) PROVE PInv'
    <2> DEFINE c == Category(op[s].cat)
               n == seen[s]
               t == [draft EXCEPT !.patterns[c] = IF n = 0 THEN @ + 1 ELSE @, !.recur[c] = @ + 1]
    <2>1. /\ op[s] \in Ops /\ op[s].call = "fail" /\ phase[s] = "store" /\ block[s] = "open"
          /\ lock = s
        BY <1>15 DEF StorePattern, Active, InCall, Phases, LockHeld, TypeOK
    <2>2. c \in Stored
        BY <2>1, Arguments
    <2>3. draft' = t /\ db' = db /\ lock' = s
        BY <1>15, <2>1, Writer DEF StorePattern, Writes
    <2>4. c \in Categories => n = draft.patterns[c]
        <3>1. n = Matches(draft, op[s].cat)
            BY <2>1 DEF PInv, OnePattern
        <3>2. QED
            BY <3>1, RepositoriesAssumption DEF Matches, Category
    <2>5. phase'[s] = "read" /\ (\A r \in Sessions \ {s} : phase'[r] = phase[r]) /\ block' = block
        BY <1>15 DEF StorePattern, Done, TypeOK
    <2>6. \A d : Uncounted(d) = (IF d = c THEN 1 ELSE 0) /\ Uncounted(d)' = 0
        BY <2>1, <2>3, <2>5, UncountedOf, UncountedOfNext
    <2>7. \A r \in Sessions : phase'[r] = "store" => block'[r] = "fatal"
        BY <2>1, <2>5, Writer
    <2> HIDE DEF c, n
    <2>8. /\ t.missed = draft.missed /\ t.fails = draft.fails
          /\ t.patterns = [draft.patterns EXCEPT ![c] = IF n = 0 THEN @ + 1 ELSE @]
          /\ t.recur = [draft.recur EXCEPT ![c] = @ + 1]
        BY DEF TypeOK, Tables
    <2> HIDE DEF t
    <2>9. \A d \in Stored : t.recur[d] = draft.recur[d] + (IF d = c THEN 1 ELSE 0)
        BY <2>2, <2>8 DEF TypeOK, Tables
    <2>10. \A d \in Categories : t.patterns[d] <= 1
        BY <2>2, <2>4, <2>8 DEF PInv, OnePattern, TypeOK, Tables, Stored
    <2>11. Counted'
        BY <2>3, <2>6, <2>8, <2>9 DEF PInv, Counted, TypeOK, Tables
    <2>12. OnePattern'
        BY <2>3, <2>7, <2>10 DEF PInv, OnePattern
    <2>13. QED
        BY <2>11, <2>12 DEF PInv
<1>16. ASSUME NEW s \in Sessions, Locked(s) PROVE PInv'
    <2>1. phase[s] # "store"
        BY <1>16 DEF Locked, LockHeld
    <2>2. QED
        BY <1>7, <1>8, <1>16, <2>1 DEF Locked
<1>17. ASSUME NEW s \in Sessions, Commit(s) \/ Exit(s) PROVE PInv'
    BY <1>3, <1>4, <1>17 DEF Commit, Exit, TypeOK
<1>18. QED
    BY <1>1, <1>2, <1>4, <1>5, <1>6, <1>9, <1>10, <1>11, <1>12, <1>13, <1>14, <1>15, <1>16,
       <1>17 DEF Next, Rollback, Propagate

-----------------------------------------------------------------------------
(* Rows that are committed.                                                *)

(* The holder of the lock gives it back, or had none.                      *)
LEMMA RowsUndone ==
    ASSUME SInv, RInv, NEW s \in Sessions, Undo(s),
           \A r \in Sessions \ {s} : op'[r] = op[r] /\ phase'[r] = phase[r]
    PROVE  RInv'
<1>1. CASE lock = s
    BY <1>1 DEF Undo, RInv
<1>2. CASE lock # s
    <2>1. UNCHANGED <<db, draft, lock>>
        BY <1>2 DEF Undo
    <2>2. \A a \in Sentences : Replacing(a) => Replacing(a)'
        BY <1>2, <2>1 DEF Replacing
    <2>3. QED
        BY <2>1, <2>2 DEF RInv
<1>3. QED
    BY <1>1, <1>2

(* No row is being replaced while s, at another await, may write.          *)
LEMMA NotReplacing ==
    ASSUME SInv, RInv, NEW s \in Sessions, lock \in {s, NoSession},
           \/ lock = NoSession
           \/ phase[s] # "write" \/ op[s] = NoOp \/ op[s].call # "upsert"
    PROVE  \A a \in Sentences : db.analyses[a] # NoVersion => draft.analyses[a] = db.analyses[a]
BY RepositoriesAssumption DEF RInv, Replacing

(* Session s leaves the tables and the lock alone.                         *)
LEMMA RowsKept ==
    ASSUME SInv, RInv, NEW s \in Sessions, UNCHANGED <<db, draft, lock>>,
           \A r \in Sessions \ {s} : op'[r] = op[r] /\ phase'[r] = phase[r],
           lock = s => phase[s] # "write" \/ op[s] = NoOp \/ op[s].call # "upsert"
    PROVE  RInv'
<1>1. \A a \in Sentences : Replacing(a) => Replacing(a)'
    BY DEF Replacing
<1>2. QED
    BY <1>1 DEF RInv

(* Session s adds rows, and replaces no analysis.                          *)
LEMMA RowsAdded ==
    ASSUME SInv, RInv, NEW s \in Sessions, lock \in {s, NoSession}, db' = db,
           phase[s] # "write" \/ op[s] = NoOp \/ op[s].call # "upsert",
           draft.segments \subseteq draft'.segments, draft.insights \subseteq draft'.insights,
           draft.cache \subseteq draft'.cache,
           \A a \in Sentences :
                draft'.analyses[a] = draft.analyses[a] \/ db.analyses[a] = NoVersion
    PROVE  RInv'
<1>1. \A a \in Sentences : db.analyses[a] # NoVersion => draft'.analyses[a] = db.analyses[a]
    BY NotReplacing
<1>2. QED
    BY <1>1 DEF RInv

LEMMA RowsStep ==
    ASSUME SInv, RInv, [Next]_vars
    PROVE  RInv'
<1> USE DEF SInv
<1>1. CASE UNCHANGED vars
    BY <1>1 DEF RInv, Replacing, vars
<1>2. ASSUME NEW s \in Sessions, Enter(s) \/ \E o \in Ops : Call(s, o) PROVE RInv'
    <2>1. op[s] = NoOp
        BY <1>2 DEF Enter, Call, InCall
    <2>2. QED
        BY <1>2, <2>1, RowsKept DEF Enter, Call, TypeOK
<1>3. ASSUME NEW s \in Sessions, CommitTables(s), op[s] = NoOp, UNCHANGED <<op, phase>>
      PROVE  RInv'
    <2>1. CASE lock \in {s, NoSession}
        <3>1. db' = draft /\ draft' = draft
            BY <1>3, <2>1, Writer DEF CommitTables
        <3>2. QED
            BY <3>1 DEF RInv
    <2>2. CASE lock \notin {s, NoSession}
        <3>1. UNCHANGED <<db, draft, lock>>
            BY <1>3, <2>2 DEF CommitTables, View
        <3>2. QED
            BY <1>3, <3>1, RowsKept
    <2>3. QED
        BY <2>1, <2>2
<1>4. ASSUME NEW s \in Sessions, Exit(s) \/ Rollback(s) \/ Propagate(s), Undo(s) PROVE RInv'
    BY <1>4, RowsUndone DEF Exit, Rollback, Propagate, Done, TypeOK
<1>5. ASSUME NEW s \in Sessions, Handle(s) PROVE RInv'
    <2>1. /\ \A r \in Sessions \ {s} : op'[r] = op[r] /\ phase'[r] = phase[r]
          /\ UNCHANGED <<db, lock>>
        BY <1>5 DEF Handle, Done, TypeOK
    <2>2. CASE lock = s
        <3>1. phase[s] \in {"delete", "match"}
            BY <1>5, <2>2 DEF Handle, InCall, LockHeld
        <3>2. /\ draft'.segments = draft.segments /\ draft'.insights = draft.insights
              /\ draft'.cache = draft.cache /\ draft'.analyses = draft.analyses
            BY <1>5 DEF Handle, TypeOK, Tables
        <3>3. QED
            BY <2>1, <2>2, <3>1, <3>2, RowsAdded
    <2>3. CASE lock # s
        <3>1. ~(op[s].call = "fail" /\ phase[s] = "match")
              \/ block[s] = "fatal"
            BY <2>3 DEF LockHeld
        <3>2. UNCHANGED <<db, draft, lock>>
            BY <1>5, <2>1, <3>1 DEF Handle, InCall
        <3>3. QED
            BY <2>1, <2>3, <3>2, RowsKept
    <2>4. QED
        BY <2>2, <2>3
<1>6. ASSUME NEW s \in Sessions, FlushFails(s) PROVE RInv'
    BY <1>6, RowsUndone DEF FlushFails
<1>7. ASSUME NEW s \in Sessions, Raise(s), phase[s] # "write" \/ lock # s PROVE RInv'
    BY <1>7, RowsKept DEF Raise
<1>8. ASSUME NEW s \in Sessions, Locked(s) PROVE RInv'
    BY <1>6, <1>7, <1>8 DEF Locked
<1>9. ASSUME NEW s \in Sessions, Read(s) PROVE RInv'
    BY <1>9, RowsKept DEF Read, Active, To, TypeOK
<1>10. ASSUME NEW s \in Sessions, NEW t, Writes(s, t), Done(s) \/ To(s, "match"), db' = db,
              op[s].call # "upsert",
              View(s).segments \subseteq t.segments, View(s).insights \subseteq t.insights,
              View(s).cache \subseteq t.cache, t.analyses = View(s).analyses
       PROVE  RInv'
    <2>1. View(s) = draft /\ lock \in {s, NoSession} /\ draft' = t
        BY <1>10, Writer DEF Writes
    <2>2. QED
        BY <1>10, <2>1, RowsAdded
<1>11. ASSUME NEW s \in Sessions, DeleteAnalyses(s) PROVE RInv'
    <2> DEFINE b == op[s].sent
               v == op[s].version
               t == [draft EXCEPT !.analyses[b] = IF @ = v THEN NoVersion ELSE @]
    <2>1. op[s] \in Ops /\ op[s].call = "upsert" /\ phase[s] = "delete" /\ op[s] # NoOp
        BY <1>11 DEF DeleteAnalyses, Active, TypeOK, InCall, Phases
    <2>2. draft' = t /\ db' = db /\ lock' = s /\ lock \in {s, NoSession}
        BY <1>11, Writer DEF DeleteAnalyses, Writes
    <2>3. op' = op /\ phase'[s] = "write"
        BY <1>11 DEF DeleteAnalyses, To, TypeOK
    <2>4. /\ t.segments = draft.segments /\ t.insights = draft.insights /\ t.cache = draft.cache
          /\ \A a \in Sentences : t.analyses[a] =
                IF a = b /\ draft.analyses[a] = v THEN NoVersion ELSE draft.analyses[a]
        BY DEF TypeOK, Tables
    <2> HIDE DEF t
    <2>5. ASSUME NEW a \in Sentences, db.analyses[a] # NoVersion
          PROVE  draft'.analyses[a] = db.analyses[a] \/ Replacing(a)'
        <3>1. draft.analyses[a] = db.analyses[a]
            BY <2>1, <2>2, <2>5, NotReplacing
        <3>2. CASE a = b /\ draft.analyses[a] = v
            BY <2>1, <2>2, <2>3, <2>4, <3>1, <3>2 DEF Replacing
        <3>3. CASE ~(a = b /\ draft.analyses[a] = v)
            BY <2>2, <2>4, <3>1, <3>3
        <3>4. QED
            BY <3>2, <3>3
    <2>6. QED
        BY <2>2, <2>4, <2>5 DEF RInv
<1>12. ASSUME NEW s \in Sessions, WriteAnalyses(s) PROVE RInv'
    <2> DEFINE b == op[s].sent
               v == op[s].version
               t == [draft EXCEPT !.analyses[b] = v]
    <2>1. CASE FlushFails(s)
        BY <1>6, <2>1
    <2>2. CASE ~FlushFails(s)
        <3>1. /\ Writes(s, [View(s) EXCEPT !.analyses[b] = v]) /\ Done(s) /\ db' = db
              /\ View(s).analyses[b] = NoVersion
            BY <1>12, <2>2 DEF WriteAnalyses, Inserts
        <3>2. View(s) = draft /\ draft' = t /\ lock \in {s, NoSession}
            BY <3>1, Writer DEF Writes
        <3>3. /\ t.segments = draft.segments /\ t.insights = draft.insights
              /\ t.cache = draft.cache
              /\ \A a \in Sentences : t.analyses[a] = IF a = b THEN v ELSE draft.analyses[a]
            BY DEF TypeOK, Tables
        <3> HIDE DEF t
        <3>4. ASSUME NEW a \in Sentences, db.analyses[a] # NoVersion
              PROVE  draft'.analyses[a] = db.analyses[a]
            <4>1. CASE a = b
                <5>1. Replacing(a)
                    BY <3>1, <3>2, <3>4, <4>1 DEF RInv
                <5>2. v = db.analyses[a]
                    BY <3>2, <4>1, <5>1, RepositoriesAssumption DEF Replacing
                <5>3. QED
                    BY <3>2, <3>3, <4>1, <5>2
            <4>2. CASE a # b
                <5>1. ~Replacing(a)
                    BY <3>2, <4>2, RepositoriesAssumption DEF Replacing
                <5>2. QED
                    BY <3>2, <3>3, <3>4, <4>2, <5>1 DEF RInv
            <4>3. QED
                BY <4>1, <4>2
        <3>5. QED
            BY <3>1, <3>2, <3>3, <3>4 DEF RInv
    <2>3. QED
        BY <2>1, <2>2
<1>13. ASSUME NEW s \in Sessions, WriteInsight(s) \/ WriteKeyed(s) PROVE RInv'
    <2>1. op[s].call # "upsert"
        BY <1>13 DEF WriteInsight, WriteKeyed
    <2>2. ASSUME NEW t, Writes(s, t), Done(s), UNCHANGED <<db, block, calls, blocks>>,
                 t \in {View(s), [View(s) EXCEPT !.segments = @ \cup {op[s].seg}],
                        [View(s) EXCEPT !.insights = @ \cup {op[s].seg}],
                        [View(s) EXCEPT !.cache = @ \cup {op[s].hash}]}
          PROVE  RInv'
        <3>1. /\ View(s).segments \subseteq t.segments /\ View(s).insights \subseteq t.insights
              /\ View(s).cache \subseteq t.cache /\ t.analyses = View(s).analyses
            BY <2>2, ViewType DEF Tables
        <3>2. QED
            BY <1>10, <2>1, <2>2, <3>1
    <2>3. CASE Done(s) /\ UNCHANGED <<db, draft, lock, block, calls, blocks>>
        BY <2>1, <2>3, RowsKept DEF Done, TypeOK
    <2>4. CASE WriteInsight(s)
        BY <1>6, <2>2, <2>3, <2>4 DEF WriteInsight, Inserts
    <2>5. CASE WriteKeyed(s)
        BY <1>6, <2>2, <2>5 DEF WriteKeyed, Inserts
    <2>6. QED
        BY <1>13, <2>4, <2>5
<1>14. ASSUME NEW s \in Sessions, FlushFail(s) PROVE RInv'
    <2> DEFINE t == [View(s) EXCEPT !.fails[Category(op[s].cat)] = @ + 1]
    <2>1. /\ t.segments = View(s).segments /\ t.insights = View(s).insights
          /\ t.cache = View(s).cache /\ t.analyses = View(s).analyses
        BY ViewType DEF Tables
    <2>2. Writes(s, t) /\ To(s, "match") /\ db' = db /\ op[s].call # "upsert"
        BY <1>14 DEF FlushFail
    <2> HIDE DEF t
    <2>3. QED
        BY <1>10, <2>1, <2>2
<1>15. ASSUME NEW s \in Sessions, MatchPattern(s) PROVE RInv'
    <2>1. phase[s] = "match"
        BY <1>15 DEF MatchPattern, Active
    <2>2. CASE To(s, "store") /\ UNCHANGED <<db, draft, lock, block, calls, blocks>>
        BY <2>1, <2>2, RowsKept DEF To, TypeOK
    <2>3. QED
        BY <1>7, <1>15, <2>1, <2>2 DEF MatchPattern
<1>16. ASSUME NEW s \in Sessions, StorePattern(s) PROVE RInv'
    <2> DEFINE n == seen[s]
               c == Category(op[s].cat)
               t == [View(s) EXCEPT !.patterns[c] = IF n = 0 THEN @ + 1 ELSE @, !.recur[c] = @ + 1]
    <2>1. Writes(s, t) /\ Done(s) /\ db' = db /\ op[s].call # "upsert"
        BY <1>16 DEF StorePattern, Active, InCall, Phases
    <2> HIDE DEF n, c
    <2>2. /\ t.segments = View(s).segments /\ t.insights = View(s).insights
          /\ t.cache = View(s).cache /\ t.analyses = View(s).analyses
        BY ViewType DEF Tables
    <2> HIDE DEF t
    <2>3. QED
        BY <1>10, <2>1, <2>2
<1>17. ASSUME NEW s \in Sessions, Commit(s) \/ Exit(s) PROVE RInv'
    BY <1>3, <1>4, <1>17 DEF Commit, Exit
<1>18. QED
    BY <1>1, <1>2, <1>4, <1>5, <1>8, <1>9, <1>11, <1>12, <1>13, <1>14, <1>15, <1>16,
       <1>17 DEF Next, Rollback, Propagate

-----------------------------------------------------------------------------
(* The theorems.                                                           *)

LEMMA Initially ==
    ASSUME Init
    PROVE  IInv
<1>1. TypeOK
    BY RepositoriesAssumption DEF Init, TypeOK, Tables, Zero, Phase
<1>2. InCall /\ LockHeld
    BY RepositoriesAssumption DEF Init, InCall, LockHeld
<1>3. Counted /\ OnePattern
    BY UncountedOf DEF Init, Counted, OnePattern, Zero, Stored
<1>4. RInv
    BY DEF Init, RInv
<1>5. QED
    BY <1>1, <1>2, <1>3, <1>4 DEF IInv, SInv

LEMMA InductiveStep ==
    ASSUME IInv, [Next]_vars
    PROVE  IInv'
<1>1. SInv /\ PInv /\ RInv
    BY DEF IInv, PInv
<1>2. TypeOK' /\ InCall' /\ LockHeld'
    BY <1>1, TypeStep, InCallStep, LockStep DEF SInv
<1>3. PInv' /\ RInv'
    BY <1>1, PatternsStep, RowsStep
<1>4. QED
    BY <1>2, <1>3 DEF IInv, SInv, PInv

(* Every reachable state of the sessions satisfies the invariant.          *)
THEOREM RepositoriesInvariant == Spec => []IInv
<1>1. Init => IInv
    BY Initially
<1>2. IInv /\ [Next]_vars => IInv'
    BY InductiveStep
<1>3. QED
    BY <1>1, <1>2, PTL DEF Spec

(* The tables and the sessions keep their types, however they interleave.  *)
THEOREM Types == Spec => []TypeOK
<1>1. IInv => TypeOK
    BY DEF IInv, SInv
<1>2. QED
    BY <1>1, RepositoriesInvariant, PTL

(* update_fail_patterns counts each committed failed check once, in one    *)
(* pattern row of its category: the flush of the check has taken the lock  *)
(* before the pattern is looked up.                                        *)
THEOREM Patterns == Spec => []PatternsCount
<1>1. IInv => PatternsCount
    BY DEF IInv, Counted, OnePattern, PatternsCount
<1>2. QED
    BY <1>1, RepositoriesInvariant, PTL

(* A committed row stays: upsert's DELETE is committed only together with  *)
(* the INSERT that replaces the row, and the unique keys of the migrated   *)
(* schema keep an analysis from being replaced by another version's.       *)
THEOREM RowsStay == Spec => RowsAreKept
<1> DEFINE Stays == /\ db.segments \subseteq db'.segments
                    /\ db.insights \subseteq db'.insights
                    /\ db.cache \subseteq db'.cache
                    /\ \A a \in Sentences :
                        db.analyses[a] # NoVersion => db'.analyses[a] = db.analyses[a]
<1>1. ASSUME IInv, [Next]_vars
      PROVE  Stays
    <2> SInv /\ RInv
        BY <1>1 DEF IInv
    <2>1. CASE db' = db
        BY <2>1
    <2>2. ASSUME NEW s \in Sessions, CommitTables(s), op[s] = NoOp
          PROVE  Stays
        <3>1. CASE lock = s
            <4>1. \A a \in Sentences :
                    db.analyses[a] # NoVersion => draft.analyses[a] = db.analyses[a]
                BY <2>2, <3>1, NotReplacing
            <4>2. db' = draft
                BY <2>2, <3>1 DEF CommitTables, View
            <4>3. QED
                BY <4>1, <4>2 DEF RInv
        <3>2. CASE lock # s
            BY <2>1, <2>2, <3>2 DEF CommitTables, View
        <3>3. QED
            BY <3>1, <3>2
    <2>3. ASSUME NEW s \in Sessions, Commit(s) \/ Exit(s)
          PROVE  Stays
        <3>1. CASE Undo(s)
            BY <2>1, <3>1 DEF Undo
        <3>2. QED
            BY <2>2, <2>3, <3>1 DEF Commit, Exit
    <2>4. ASSUME NEW s \in Sessions,
                 \/ Enter(s) \/ Rollback(s) \/ Propagate(s) \/ Handle(s)
                 \/ \E o \in Ops : Call(s, o)
                 \/ Read(s) \/ DeleteAnalyses(s) \/ FlushFail(s) \/ MatchPattern(s)
                 \/ StorePattern(s) \/ Locked(s)
          PROVE  db' = db
        BY <2>4 DEF Enter, Rollback, Propagate, Handle, Call, Read, DeleteAnalyses, FlushFail,
                    MatchPattern, StorePattern, Locked, Raise, FlushFails, Undo
    <2>5. ASSUME NEW s \in Sessions, WriteAnalyses(s) \/ WriteInsight(s) \/ WriteKeyed(s)
          PROVE  db' = db
        BY <2>5 DEF WriteAnalyses, WriteInsight, WriteKeyed, Inserts, FlushFails, Undo
    <2>6. CASE UNCHANGED vars
        BY <2>1, <2>6 DEF vars
    <2> HIDE DEF Stays
    <2>7. QED
        BY <1>1, <2>1, <2>3, <2>4, <2>5, <2>6 DEF Next
<1>2. IInv /\ [Next]_vars => [Stays]_vars
    BY <1>1
<1>3. Spec => [][Stays]_vars
    BY <1>2, RepositoriesInvariant, PTL DEF Spec
<1>4. QED
    BY <1>3 DEF RowsAreKept
=============================================================================
