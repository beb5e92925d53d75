---------------------------- MODULE CacheProofs ----------------------------
(***************************************************************************)
(* For any callers, keys, values and ttls: CacheBackend implements         *)
(* AnswerCache, and a set that runs alone is kept.                         *)
(***************************************************************************)
EXTENDS CacheBackend, TLAPS

\* What a place in a coroutine says of its call, its record and its file.
Shape ==
    \A p \in Callers :
        /\ pc[p] = "idle" <=> call[p] = Nothing
        /\ pc[p] \in {"get", "check"} => call[p].op = "get"
        /\ pc[p] \in {"set", "write"} => call[p].op = "set"
        /\ pc[p] = "clear" => call[p].op = "clear"
        /\ pc[p] = "unlink" => call[p].op \in {"get", "delete"}
        /\ pc[p] = "check" => seen[p] \in Records
        /\ pc[p] # "done" => answer[p] = Nothing
        /\ linked[p] => pc[p] = "write"

\* While a set is alone no other call touches its key: its file stays empty until
\* it writes, and what it wrote stays.
AloneInv ==
    \A p \in Callers :
        alone[p] => /\ call[p] # Nothing
                    /\ \A q \in Callers \ {p} : ~Overlap(q, call[p])
                    /\ pc[p] = "write" => linked[p] /\ entry[call[p].key] = Empty
                    /\ call[p].op = "set" /\ pc[p] = "done"
                       => entry[call[p].key] \notin Unreadable
                          /\ entry[call[p].key].value = call[p].value

IInv == TypeOK /\ Shape /\ AloneInv

LEMMA RequestFacts ==
    ASSUME NEW r \in Requests
    PROVE  /\ r # Nothing
           /\ r.op \in {"get", "set", "delete", "clear"}
           /\ r.op # "clear" => r.key \in Keys
           /\ r.op = "set" => r.value \in Values /\ r.ttl \in Nat \cup {Never}
<1>0. r # Nothing
  BY CacheAssumption
<1>1. CASE r \in [op : {"get", "delete"}, key : Keys]
  <2>1. r.op \in {"get", "delete"} /\ r.key \in Keys
    BY <1>1
  <2> QED BY <1>0, <2>1
<1>2. CASE r \in [op : {"clear"}]
  <2>1. r.op = "clear"
    BY <1>2
  <2> QED BY <1>0, <2>1
<1>3. CASE r \in [op : {"set"}, key : Keys, value : Values, ttl : Ttls]
  <2>1. r.op = "set" /\ r.key \in Keys /\ r.value \in Values /\ r.ttl \in Ttls
    BY <1>3
  <2> QED BY <1>0, <2>1, CacheAssumption
<1> QED BY <1>1, <1>2, <1>3 DEF Requests

LEMMA InitInv == Init => IInv
<1> SUFFICES ASSUME Init PROVE IInv
  OBVIOUS
<1>1. TypeOK
  BY DEF Init, TypeOK, Unreadable
<1>2. Shape /\ AloneInv
  BY DEF Init, Shape, AloneInv
<1> QED BY <1>1, <1>2 DEF IInv

-----------------------------------------------------------------------------
LEMMA TypeStep == TypeOK /\ Shape /\ [Next]_vars => TypeOK' /\ Shape'
<1> SUFFICES ASSUME TypeOK, Shape, [Next]_vars PROVE TypeOK' /\ Shape'
  OBVIOUS
<1>0. \A p \in Callers : call[p] # Nothing => call[p] \in Requests
  BY DEF TypeOK
<1>1. CASE Tick
  BY <1>1 DEF Tick, TypeOK, Shape
<1>2. ASSUME NEW p \in Callers, Begin(p) PROVE TypeOK' /\ Shape'
  <2>1. PICK r \in Requests : 
          /\ call' = [call EXCEPT ![p] = r]
          /\ pc' = [pc EXCEPT ![p] = IF r.op = "delete" THEN "unlink" ELSE r.op]
          /\ since' = [since EXCEPT ![p] = IF r.op = "set" THEN now ELSE 0]
          /\ alone' = [q \in Callers |->
                        IF q = p THEN \A o \in Callers : ~Overlap(o, r)
                                 ELSE alone[q] /\ ~Overlap(q, r)]
    BY <1>2 DEF Begin
  <2>2. r # Nothing /\ r.op \in {"get", "set", "delete", "clear"}
    BY RequestFacts
  <2>3. UNCHANGED <<backend, now, entry, linked, seen, answer>> /\ call[p] = Nothing
    BY <1>2 DEF Begin
  <2>4. alone' \in [Callers -> BOOLEAN]
    BY <2>1, <2>3, Zenon DEF TypeOK
  <2>5. TypeOK'
    BY <2>1, <2>2, <2>3, <2>4 DEF TypeOK
  <2>6. Shape'
    BY <2>1, <2>2, <2>3 DEF TypeOK, Shape
  <2> QED BY <2>5, <2>6
<1>3. ASSUME NEW p \in Callers, Read(p) PROVE TypeOK' /\ Shape'
  <2>1. call[p] \in Requests /\ call[p].op = "get" /\ call[p].key \in Keys
    BY <1>3, <1>0, RequestFacts DEF Read, Shape, TypeOK
  <2>2. entry[call[p].key] \in Records \cup Unreadable
    BY <2>1 DEF TypeOK
  <2> QED BY <1>3, <2>1, <2>2 DEF Read, Goto, TypeOK, Shape
<1>4. ASSUME NEW p \in Callers, Check(p) PROVE TypeOK' /\ Shape'
  <2>1. seen[p] \in Records /\ seen[p].value \in Values
    BY <1>4 DEF Check, Shape, Records
  <2> QED BY <1>4, <2>1 DEF Check, Goto, TypeOK, Shape
<1>5. ASSUME NEW p \in Callers, Unlink(p) PROVE TypeOK' /\ Shape'
  BY <1>5 DEF Unlink, Remove, Goto, TypeOK, Shape, Unreadable
<1>6. ASSUME NEW p \in Callers, ClearOne(p) PROVE TypeOK' /\ Shape'
  <2>1. PICK k \in Keys : Remove(k)
    BY <1>6 DEF ClearOne
  <2> QED BY <1>6, <2>1 DEF ClearOne, Remove, TypeOK, Shape, Unreadable
<1>7. ASSUME NEW p \in Callers, ClearEnds(p) PROVE TypeOK' /\ Shape'
  BY <1>7 DEF ClearEnds, Goto, TypeOK, Shape
<1>8. ASSUME NEW p \in Callers, Open(p) PROVE TypeOK' /\ Shape'
  BY <1>8 DEF Open, Goto, TypeOK, Shape, Unreadable
<1>9. ASSUME NEW p \in Callers, Write(p) PROVE TypeOK' /\ Shape'
  <2>1. call[p] \in Requests /\ call[p].op = "set" /\ call[p].key \in Keys
    BY <1>9, <1>0, RequestFacts DEF Write, Shape, TypeOK
  <2>2. Record(p) \in Records
    BY <2>1, RequestFacts DEF Record, Records, Expiry, TypeOK
  <2>3. entry' \in [Keys -> Records \cup Unreadable]
    BY <1>9, <2>1, <2>2 DEF Write, TypeOK, Unreadable
  <2> QED BY <1>9, <2>1, <2>3 DEF Write, Goto, TypeOK, Shape
<1>10. ASSUME NEW p \in Callers, ServerGet(p) PROVE TypeOK' /\ Shape'
  <2>1. call[p] \in Requests /\ call[p].op = "get" /\ call[p].key \in Keys
    BY <1>10, <1>0, RequestFacts DEF ServerGet, Shape, TypeOK
  <2>2. entry[call[p].key] \notin Unreadable => entry[call[p].key].value \in Values
    BY <2>1 DEF TypeOK, Records
  <2> QED BY <1>10, <2>1, <2>2 DEF ServerGet, Goto, TypeOK, Shape
<1>11. ASSUME NEW p \in Callers, ServerSet(p) PROVE TypeOK' /\ Shape'
  <2>1. call[p] \in Requests /\ call[p].op = "set"
    BY <1>11, <1>0 DEF ServerSet, Shape, TypeOK
  <2>2. call[p].key \in Keys /\ call[p].value \in Values /\ call[p].ttl \in Nat \cup {Never}
    BY <2>1, RequestFacts
  <2>3. PICK t \in Nat \cup {Never} :
          entry' = [entry EXCEPT ![call[p].key] =
                      [value |-> call[p].value, expires |-> Expiry(now, t)]]
    BY <1>11, <2>2, CacheAssumption DEF ServerSet
  <2>4. Expiry(now, t) \in Nat \cup {Never}
    BY DEF Expiry, TypeOK
  <2>5. entry' \in [Keys -> Records \cup Unreadable]
    BY <2>2, <2>3, <2>4 DEF TypeOK, Records
  <2> QED BY <1>11, <2>1, <2>5 DEF ServerSet, Goto, TypeOK, Shape
<1>12. ASSUME NEW p \in Callers, Quit(p) PROVE TypeOK' /\ Shape'
  BY <1>12 DEF Quit, Goto, TypeOK, Shape
<1>13. CASE UNCHANGED vars
  BY <1>13 DEF vars, TypeOK, Shape
<1> QED
  BY <1>1, <1>2, <1>3, <1>4, <1>5, <1>6, <1>7, <1>8, <1>9, <1>10, <1>11, <1>12, <1>13
  DEF Next, Step, Get, Set, Delete, Return, Fail

-----------------------------------------------------------------------------
(* A step of one caller leaves the file of another that is alone as it is. *)
LEMMA OthersKept ==
    ASSUME IInv, NEW p \in Callers, NEW q \in Callers, alone[q], p # q, Step(p),
           alone'[q], call[q].op = "set"
    PROVE  entry'[call[q].key] = entry[call[q].key] /\ linked'[q] = linked[q]
<1>1. /\ call[q] \in Requests /\ call[q].key \in Keys
      /\ call[p] # Nothing => call[p].op # "clear" /\ call[p].key # call[q].key
  BY RequestFacts DEF IInv, TypeOK, AloneInv, Overlap, Touches
<1>2. call[p] # Nothing => call[p] \in Requests
  BY DEF IInv, TypeOK
<1>3. pc[p] = "idle" <=> call[p] = Nothing
  BY DEF IInv, Shape
<1>4. CASE Begin(p)
  BY <1>4 DEF Begin
<1>5. CASE Get(p)
  BY <1>5 DEF Get, Read, Check, ServerGet
<1>6. CASE Set(p)
  BY <1>1, <1>3, <1>6 DEF Set, Open, Write, ServerSet, IInv, TypeOK
<1>7. CASE Delete(p)
  <2>1. CASE Unlink(p)
    <3>1. call[p].key # call[q].key
      BY <1>1, <1>3, <2>1 DEF Unlink
    <3> QED BY <1>1, <2>1, <3>1 DEF Unlink, Remove, IInv, TypeOK
  <2>2. CASE ClearOne(p)
    BY <1>1, <1>3, <2>2 DEF ClearOne, IInv, Shape
  <2>3. CASE ClearEnds(p)
    BY <2>3 DEF ClearEnds
  <2> QED BY <1>7, <2>1, <2>2, <2>3 DEF Delete
<1>8. CASE Quit(p)
  BY <1>8 DEF Quit, IInv, TypeOK
<1> QED BY <1>4, <1>5, <1>6, <1>7, <1>8 DEF Step, Return, Fail

(* Who is alone after a step was alone before, or has just begun.          *)
LEMMA AloneStep ==
    ASSUME IInv, NEW p \in Callers, Step(p), NEW q \in Callers, q # p, alone'[q]
    PROVE  alone[q] /\ call'[q] = call[q] /\ pc'[q] = pc[q] /\ ~Overlap(p, call[q])'
<1>1. alone[q] => call[q] # Nothing /\ ~Overlap(p, call[q])
  BY DEF IInv, AloneInv
<1>2. CASE Begin(p)
  <2>1. PICK r \in Requests :
          /\ call' = [call EXCEPT ![p] = r]
          /\ pc' = [pc EXCEPT ![p] = IF r.op = "delete" THEN "unlink" ELSE r.op]
          /\ alone' = [o \in Callers |->
                        IF o = p THEN \A x \in Callers : ~Overlap(x, r)
                                 ELSE alone[o] /\ ~Overlap(o, r)]
    BY <1>2 DEF Begin
  <2>2. alone[q] /\ ~Overlap(q, r)
    BY <2>1
  <2>3. call'[q] = call[q] /\ pc'[q] = pc[q] /\ call'[p] = r
    BY <2>1 DEF IInv, TypeOK
  <2> QED BY <1>1, <2>2, <2>3 DEF Overlap, Touches
<1>3. CASE Get(p) \/ Set(p) \/ Delete(p)
  <2>1. UNCHANGED <<call, alone>>
    BY <1>3 DEF Get, Set, Delete, Read, Check, ServerGet, Open, Write, ServerSet,
                Unlink, ClearOne, ClearEnds
  <2>2. pc'[q] = pc[q]
    BY <1>3 DEF Get, Set, Delete, Read, Check, ServerGet, Open, Write, ServerSet,
                Unlink, ClearOne, ClearEnds, Goto, IInv, TypeOK
  <2> QED BY <1>1, <2>1, <2>2 DEF Overlap, Touches
<1>4. CASE Quit(p)
  <2>1. alone[q] /\ call'[q] = call[q] /\ pc'[q] = pc[q] /\ call'[p] = Nothing
    BY <1>4 DEF Quit, Goto, IInv, TypeOK
  <2> QED BY <2>1 DEF Overlap
<1> QED BY <1>2, <1>3, <1>4 DEF Step, Return, Fail

(* The caller that makes the step.                                         *)
LEMMA OwnStep ==
    ASSUME IInv, NEW p \in Callers, Step(p), TypeOK', alone'[p]
    PROVE  /\ call'[p] # Nothing
           /\ \A q \in Callers \ {p} : ~Overlap(q, call[p])'
           /\ pc'[p] = "write" => linked'[p] /\ entry'[call'[p].key] = Empty
           /\ call'[p].op = "set" /\ pc'[p] = "done"
              => entry'[call'[p].key] \notin Unreadable
                 /\ entry'[call'[p].key].value = call'[p].value
<1>1. CASE Begin(p)
  <2>1. PICK r \in Requests :
          /\ call' = [call EXCEPT ![p] = r]
          /\ pc' = [pc EXCEPT ![p] = IF r.op = "delete" THEN "unlink" ELSE r.op]
          /\ alone' = [o \in Callers |->
                        IF o = p THEN \A x \in Callers : ~Overlap(x, r)
                                 ELSE alone[o] /\ ~Overlap(o, r)]
    BY <1>1 DEF Begin
  <2>2. call'[p] = r /\ \A q \in Callers \ {p} : call'[q] = call[q]
    BY <2>1 DEF IInv, TypeOK
  <2>3. \A q \in Callers : ~Overlap(q, r)
    BY <2>1
  <2>4. \A q \in Callers \ {p} : ~Overlap(q, call[p])'
    BY <2>2, <2>3 DEF Overlap, Touches
  <2>5. pc'[p] \notin {"write", "done"}
    BY <2>1, RequestFacts DEF IInv, TypeOK
  <2> QED BY <2>2, <2>4, <2>5, RequestFacts
<1>2. CASE Quit(p)
  BY <1>2 DEF Quit, IInv, TypeOK
<1>3. CASE Get(p) \/ Set(p) \/ Delete(p)
  <2>1. UNCHANGED <<call, alone>>
    BY <1>3 DEF Get, Set, Delete, Read, Check, ServerGet, Open, Write, ServerSet,
                Unlink, ClearOne, ClearEnds
  <2>2. call'[p] # Nothing /\ \A q \in Callers \ {p} : ~Overlap(q, call[p])'
    BY <2>1 DEF IInv, AloneInv, Overlap, Touches
  <2>3. CASE Get(p) \/ Delete(p)
    <3>1. call[p].op # "set" /\ pc'[p] # "write"
      BY <2>3 DEF Get, Delete, Read, Check, ServerGet, Unlink, ClearOne, ClearEnds,
                  Goto, IInv, Shape, TypeOK
    <3> QED BY <2>1, <2>2, <3>1
  <2>4. CASE Set(p)
    <3>1. call[p].op = "set" /\ call[p] \in Requests
      BY <2>4 DEF Set, Open, Write, ServerSet, IInv, Shape, TypeOK
    <3>2. call[p].key \in Keys /\ call[p].value \in Values /\ call[p].ttl \in Nat \cup {Never}
      BY <3>1, RequestFacts
    <3>3. CASE Open(p)
      BY <2>1, <2>2, <3>2, <3>3 DEF Open, Goto, IInv, TypeOK
    <3>4. CASE Write(p)
      <4>1. linked[p] /\ entry[call[p].key] = Empty
        BY <2>1, <3>4 DEF Write, IInv, AloneInv
      <4>2. entry' = [entry EXCEPT ![call[p].key] = Record(p)]
        BY <3>4, <4>1 DEF Write
      <4>3. Record(p) \in Records /\ Record(p).value = call[p].value
        BY <3>2 DEF Record, Records, Expiry, IInv, TypeOK
      <4>4. Record(p) \notin Unreadable
        BY <4>3, CacheAssumption
      <4>5. entry'[call[p].key] = Record(p) /\ pc'[p] = "done"
        BY <3>2, <3>4, <4>2 DEF Write, Goto, IInv, TypeOK
      <4> QED BY <2>1, <2>2, <4>3, <4>4, <4>5
    <3>5. CASE ServerSet(p)
      <4>1. PICK t \in Nat \cup {Never} :
              entry' = [entry EXCEPT ![call[p].key] =
                          [value |-> call[p].value, expires |-> Expiry(now, t)]]
        BY <3>2, <3>5, CacheAssumption DEF ServerSet
      <4>2. [value |-> call[p].value, expires |-> Expiry(now, t)] \in Records
        BY <3>2 DEF Expiry, Records, IInv, TypeOK
      <4>3. entry'[call[p].key] = [value |-> call[p].value, expires |-> Expiry(now, t)]
        BY <3>2, <4>1 DEF IInv, TypeOK
      <4>4. pc'[p] = "done"
        BY <3>5 DEF ServerSet, Goto, IInv, TypeOK
      <4> QED BY <2>1, <2>2, <4>2, <4>3, <4>4, CacheAssumption
    <3> QED BY <2>4, <3>3, <3>4, <3>5 DEF Set
  <2> QED BY <1>3, <2>3, <2>4
<1> QED BY <1>1, <1>2, <1>3 DEF Step, Return, Fail

LEMMA InvStep == IInv /\ [Next]_vars => IInv'
<1> SUFFICES ASSUME IInv, [Next]_vars PROVE IInv'
  OBVIOUS
<1>1. TypeOK' /\ Shape'
  BY TypeStep DEF IInv
<1>2. ASSUME NEW p \in Callers, Step(p) PROVE AloneInv'
  <2> SUFFICES ASSUME NEW q \in Callers, alone'[q]
      PROVE  /\ call'[q] # Nothing
             /\ \A o \in Callers \ {q} : ~Overlap(o, call[q])'
             /\ pc'[q] = "write" => linked'[q] /\ entry'[call'[q].key] = Empty
             /\ call'[q].op = "set" /\ pc'[q] = "done"
                => entry'[call'[q].key] \notin Unreadable
                   /\ entry'[call'[q].key].value = call'[q].value
    BY DEF AloneInv
  <2>1. CASE q = p
    BY <1>1, <1>2, <2>1, OwnStep
  <2>2. CASE q # p
    <3>1. alone[q] /\ call'[q] = call[q] /\ pc'[q] = pc[q] /\ ~Overlap(p, call[q])'
      BY <1>2, <2>2, AloneStep
    <3>2. \A o \in Callers \ {q} : ~Overlap(o, call[q])'
      <4> SUFFICES ASSUME NEW o \in Callers \ {q, p} PROVE ~Overlap(o, call[q])'
        BY <3>1
      <4>1. ~Overlap(o, call[q])
        BY <3>1 DEF IInv, AloneInv
      <4>2. call'[o] = call[o]
        BY <1>2 DEF Step, Begin, Get, Read, Check, ServerGet, Set, Open, Write, ServerSet,
                    Delete, Unlink, ClearOne, ClearEnds, Return, Fail, Quit, IInv, TypeOK
      <4> QED BY <3>1, <4>1, <4>2 DEF Overlap, Touches
    <3>3. call[q].op = "set" => entry'[call[q].key] = entry[call[q].key] /\ linked'[q] = linked[q]
      BY <1>2, <2>2, <3>1, OthersKept
    <3>4. pc[q] = "write" => call[q].op = "set"
      BY DEF IInv, Shape
    <3> QED BY <3>1, <3>2, <3>3, <3>4 DEF IInv, AloneInv
  <2> QED BY <2>1, <2>2
<1>3. CASE Tick \/ UNCHANGED vars
  <2>1. UNCHANGED <<call, pc, linked, entry, alone>>
    BY <1>3 DEF Tick, vars
  <2>2. \A o, q \in Callers : Overlap(o, call[q])' <=> Overlap(o, call[q])
    BY <2>1 DEF Overlap, Touches
  <2> QED BY <1>1, <2>1, <2>2 DEF IInv, AloneInv
<1> QED BY <1>1, <1>2, <1>3 DEF Next, IInv

(* Places, calls, files and answers agree in every reachable state.        *)
THEOREM CacheInvariant == Spec => []IInv
<1>1. Init => IInv
  BY InitInv
<1>2. IInv /\ [Next]_vars => IInv'
  BY InvStep
<1> QED BY <1>1, <1>2, PTL DEF Spec

(* A set that no other call on its key overlaps is on file when it returns *)
(* (DiskCacheBackend.set, RedisCacheBackend.set).                          *)
THEOREM LoneSets == Spec => []LoneSetIsKept
<1>1. IInv => LoneSetIsKept
  BY DEF IInv, AloneInv, LoneSetIsKept
<1> QED BY <1>1, CacheInvariant, PTL

-----------------------------------------------------------------------------
(* Steps by which entries and pending answers can only get lost.           *)
LEMMA LoseStep ==
    ASSUME TypeOK, Shape, call' = call,
           \A k \in Keys : LiveValue(k)' \in {LiveValue(k), Nothing},
           \A p \in Callers : Pending(p)' \in {Pending(p), Nothing},
           \A p \in Callers : call[p] = Nothing => Pending(p)' = Pending(p)
    PROVE  Answers!Lose
<1> DEFINE K == {k \in Keys : LiveValue(k)' = Nothing}
           P == {p \in Callers : call[p] # Nothing /\ Pending(p)' = Nothing}
<1>1. [k \in Keys |-> LiveValue(k)]' = [k \in Keys |-> IF k \in K THEN Nothing ELSE [x \in Keys |-> LiveValue(x)][k]]
  OBVIOUS
<1>2. [p \in Callers |-> Pending(p)]' = [p \in Callers |-> IF p \in P THEN Nothing ELSE [x \in Callers |-> Pending(x)][p]]
  OBVIOUS
<1>3. K \in SUBSET Keys /\ P \in SUBSET {p \in Callers : call[p] # Nothing}
  OBVIOUS
<1> QED BY <1>1, <1>2, <1>3 DEF Answers!Lose

(* Without a change of the clock a key whose entry stays keeps its value.  *)
LEMMA SameValue ==
    ASSUME UNCHANGED <<backend, now>>
    PROVE  /\ \A k \in Keys : entry'[k] = entry[k] => LiveValue(k)' = LiveValue(k)
           /\ \A k \in Keys : entry'[k] \in Unreadable => LiveValue(k)' = Nothing
           /\ \A p \in Callers : pc'[p] = pc[p] /\ seen'[p] = seen[p] /\ answer'[p] = answer[p]
                                => Pending(p)' = Pending(p)
           /\ \A p \in Callers : pc[p] # "check" /\ pc'[p] # "check" /\ answer'[p] = answer[p]
                                => Pending(p)' = Pending(p)
BY DEF LiveValue, Pending, Live, Unreadable

\* What AnswerCache sees of a state.
Seen == <<call, [k \in Keys |-> LiveValue(k)], [p \in Callers |-> Pending(p)]>>

LEMMA TickStep == ASSUME IInv, Tick PROVE Answers!Lose
<1>1. now \in Nat /\ now' = now + 1 /\ UNCHANGED <<backend, entry, call, pc, seen, answer>>
  BY DEF Tick, IInv, TypeOK
<1>2. ASSUME NEW r \in Records, Live(r)' PROVE Live(r)
  BY <1>1, <1>2 DEF Live, Records
<1>3. \A k \in Keys : LiveValue(k)' \in {LiveValue(k), Nothing}
  BY <1>1, <1>2 DEF LiveValue, Unreadable, IInv, TypeOK
<1>4. ASSUME NEW p \in Callers
      PROVE  Pending(p)' \in {Pending(p), Nothing} /\ (call[p] = Nothing => Pending(p)' = Pending(p))
  <2>1. CASE pc[p] # "check"
    BY <1>1, <2>1 DEF Pending
  <2>2. CASE pc[p] = "check"
    <3>1. seen[p] \in Records /\ call[p] # Nothing
      BY <2>2 DEF IInv, Shape
    <3> QED BY <1>1, <1>2, <2>2, <3>1 DEF Pending
  <2> QED BY <2>1, <2>2
<1> QED BY <1>1, <1>3, <1>4, LoseStep DEF IInv

LEMMA BeginStep == ASSUME IInv, NEW p \in Callers, Begin(p) PROVE Answers!Begin(p)
<1>1. \A k \in Keys : LiveValue(k)' = LiveValue(k)
  BY SameValue DEF Begin
<1>2. \A q \in Callers : Pending(q)' = Pending(q)
  <2>1. pc[p] # "check"
    BY DEF Begin, IInv, Shape
  <2>2. pc'[p] # "check" /\ \A q \in Callers \ {p} : pc'[q] = pc[q]
    BY RequestFacts DEF Begin, IInv, TypeOK
  <2> QED BY <2>1, <2>2, SameValue DEF Begin
<1> QED BY <1>1, <1>2 DEF Begin, Answers!Begin, Requests, Answers!Requests

LEMMA ReadStep == ASSUME IInv, NEW p \in Callers, Read(p) PROVE Answers!Take(p) \/ UNCHANGED Seen
<1>1. \A k \in Keys : LiveValue(k)' = LiveValue(k)
  BY SameValue DEF Read
<1>2. call' = call /\ call[p] # Nothing /\ call[p].op = "get" /\ call[p].key \in Keys
  BY RequestFacts DEF Read, IInv, TypeOK, Shape
<1>3. \A q \in Callers \ {p} : Pending(q)' = Pending(q)
  <2>1. \A q \in Callers \ {p} : pc'[q] = pc[q] /\ seen'[q] = seen[q]
    BY DEF Read, Goto, IInv, TypeOK
  <2> QED BY <2>1, SameValue DEF Read
<1>4. CASE entry[call[p].key] \in Unreadable
  <2>1. Pending(p)' = Pending(p)
    BY <1>4, SameValue DEF Read, Goto, IInv, TypeOK
  <2> QED BY <1>1, <1>2, <1>3, <2>1 DEF Seen
<1>5. CASE entry[call[p].key] \notin Unreadable
  <2>1. pc'[p] = "check" /\ seen'[p] = entry[call[p].key]
    BY <1>5 DEF Read, Goto, IInv, TypeOK
  <2>2. Pending(p)' = LiveValue(call[p].key)
    BY <1>5, <2>1 DEF Pending, LiveValue, Live, Read
  <2> QED BY <1>1, <1>2, <1>3, <2>2 DEF Answers!Take
<1> QED BY <1>4, <1>5

LEMMA CheckStep == ASSUME IInv, NEW p \in Callers, Check(p) PROVE UNCHANGED Seen
<1>1. \A k \in Keys : LiveValue(k)' = LiveValue(k)
  BY SameValue DEF Check
<1>2. \A q \in Callers \ {p} : Pending(q)' = Pending(q)
  <2>1. \A q \in Callers \ {p} : pc'[q] = pc[q] /\ seen'[q] = seen[q] /\ answer'[q] = answer[q]
    BY DEF Check, Goto, IInv, TypeOK
  <2> QED BY <2>1, SameValue DEF Check
<1>3. Pending(p)' = Pending(p)
  BY DEF Check, Goto, Pending, IInv, TypeOK, Shape
<1> QED BY <1>1, <1>2, <1>3 DEF Seen, Check

LEMMA RemoveStep ==
    ASSUME IInv, NEW p \in Callers, Unlink(p) \/ ClearOne(p) \/ Open(p)
    PROVE  Answers!Lose
<1>1. UNCHANGED <<backend, now, call, seen, answer>>
  BY DEF Unlink, ClearOne, Open
<1>2. \A k \in Keys : entry'[k] = entry[k] \/ entry'[k] \in Unreadable
  BY DEF Unlink, ClearOne, Open, Remove, IInv, TypeOK, Unreadable
<1>3. \A k \in Keys : LiveValue(k)' \in {LiveValue(k), Nothing}
  BY <1>1, <1>2, SameValue
<1>4. \A q \in Callers : pc'[q] = pc[q] \/ (pc[q] # "check" /\ pc'[q] # "check")
  BY DEF Unlink, ClearOne, Open, Goto, IInv, TypeOK
<1>5. \A q \in Callers : Pending(q)' = Pending(q)
  BY <1>1, <1>4, SameValue
<1> QED BY <1>1, <1>3, <1>5, LoseStep DEF IInv

LEMMA ClearEndsStep == ASSUME IInv, NEW p \in Callers, ClearEnds(p) PROVE UNCHANGED Seen
<1>1. \A k \in Keys : LiveValue(k)' = LiveValue(k)
  BY SameValue DEF ClearEnds
<1>2. \A q \in Callers : pc'[q] = pc[q] \/ (pc[q] # "check" /\ pc'[q] # "check")
  BY DEF ClearEnds, Goto, IInv, TypeOK
<1>3. \A q \in Callers : Pending(q)' = Pending(q)
  BY <1>2, SameValue DEF ClearEnds
<1> QED BY <1>1, <1>3 DEF Seen, ClearEnds

(* A record put under the key of a set in progress.                        *)
LEMMA PutStep ==
    ASSUME IInv, NEW p \in Callers, NEW e \in Records,
           UNCHANGED <<backend, now, call, seen, answer>>,
           call[p] # Nothing, call[p].op = "set", e.value = call[p].value,
           pc[p] # "check", pc' = [pc EXCEPT ![p] = "done"],
           entry' = [entry EXCEPT ![call[p].key] = e]
    PROVE  Answers!Keep(p) \/ Answers!Lose
<1>1. call[p].key \in Keys
  BY RequestFacts DEF IInv, TypeOK
<1>2. \A q \in Callers : Pending(q)' = Pending(q)
  <2>1. \A q \in Callers : pc'[q] = pc[q] \/ (pc[q] # "check" /\ pc'[q] # "check")
    BY DEF IInv, TypeOK
  <2> QED BY <2>1, SameValue
<1>3. entry'[call[p].key] = e /\ \A k \in Keys \ {call[p].key} : entry'[k] = entry[k]
  BY <1>1 DEF IInv, TypeOK
<1>4. \A k \in Keys \ {call[p].key} : LiveValue(k)' = LiveValue(k)
  BY <1>3, SameValue
<1>5. e \notin Unreadable
  BY CacheAssumption
<1>6. LiveValue(call[p].key)' \in {e.value, Nothing}
  BY <1>3, <1>5 DEF LiveValue
<1>7. CASE LiveValue(call[p].key)' = e.value
  BY <1>1, <1>2, <1>4, <1>7 DEF Answers!Keep
<1>8. CASE LiveValue(call[p].key)' = Nothing
  <2>1. \A k \in Keys : LiveValue(k)' \in {LiveValue(k), Nothing}
    BY <1>4, <1>8
  <2> QED BY <1>2, <2>1, LoseStep DEF IInv
<1> QED BY <1>6, <1>7, <1>8

LEMMA WriteStep ==
    ASSUME IInv, NEW p \in Callers, Write(p)
    PROVE  Answers!Keep(p) \/ Answers!Lose \/ UNCHANGED Seen
<1>1. UNCHANGED <<backend, now, call, seen, answer>> /\ pc[p] # "check"
      /\ pc' = [pc EXCEPT ![p] = "done"]
  BY DEF Write, Goto
<1>2. call[p] # Nothing /\ call[p].op = "set" /\ call[p] \in Requests
  BY DEF Write, IInv, Shape, TypeOK
<1>3. call[p].key \in Keys /\ Record(p) \in Records /\ Record(p).value = call[p].value
  BY <1>2, RequestFacts DEF Record, Records, Expiry, IInv, TypeOK
<1>4. \A q \in Callers : Pending(q)' = Pending(q)
  <2>1. \A q \in Callers : pc'[q] = pc[q] \/ (pc[q] # "check" /\ pc'[q] # "check")
    BY <1>1 DEF IInv, TypeOK
  <2> QED BY <1>1, <2>1, SameValue
<1>5. \/ entry' = entry
      \/ entry' = [entry EXCEPT ![call[p].key] = Record(p)]
      \/ entry' = [entry EXCEPT ![call[p].key] = Garbled]
  BY DEF Write
<1>6. CASE entry' = entry
  BY <1>1, <1>4, <1>6, SameValue DEF Seen
<1>7. CASE entry' = [entry EXCEPT ![call[p].key] = Record(p)]
  BY <1>1, <1>2, <1>3, <1>7, PutStep
<1>8. CASE entry' = [entry EXCEPT ![call[p].key] = Garbled]
  <2>1. \A k \in Keys : entry'[k] = entry[k] \/ entry'[k] \in Unreadable
    BY <1>8 DEF IInv, TypeOK, Unreadable
  <2>2. \A k \in Keys : LiveValue(k)' \in {LiveValue(k), Nothing}
    BY <1>1, <2>1, SameValue
  <2> QED BY <1>1, <1>4, <2>2, LoseStep DEF IInv
<1> QED BY <1>5, <1>6, <1>7, <1>8

LEMMA ServerGetStep == ASSUME IInv, NEW p \in Callers, ServerGet(p) PROVE Answers!Take(p)
<1>1. call' = call /\ call[p] # Nothing /\ call[p].op = "get" /\ call[p].key \in Keys
  BY RequestFacts DEF ServerGet, IInv, TypeOK, Shape
<1>2. \A k \in Keys : LiveValue(k)' = LiveValue(k)
  BY SameValue DEF ServerGet
<1>3. \A q \in Callers \ {p} : Pending(q)' = Pending(q)
  <2>1. \A q \in Callers \ {p} : pc'[q] = pc[q] /\ answer'[q] = answer[q]
    BY DEF ServerGet, Goto, IInv, TypeOK
  <2> QED BY <2>1, SameValue DEF ServerGet
<1>4. Pending(p)' = LiveValue(call[p].key)
  <2>1. pc'[p] = "done" /\ answer'[p] = LiveValue(call[p].key)
    BY DEF ServerGet, Goto, LiveValue, IInv, TypeOK
  <2> QED BY <2>1 DEF Pending
<1> QED BY <1>1, <1>2, <1>3, <1>4 DEF Answers!Take

LEMMA ServerSetStep ==
    ASSUME IInv, NEW p \in Callers, ServerSet(p) PROVE Answers!Keep(p) \/ Answers!Lose
<1>1. call[p] # Nothing /\ call[p].op = "set" /\ call[p] \in Requests
  BY DEF ServerSet, IInv, Shape, TypeOK
<1>2. call[p].key \in Keys /\ call[p].value \in Values /\ call[p].ttl \in Nat \cup {Never}
  BY <1>1, RequestFacts
<1>3. PICK t \in Nat \cup {Never} :
        entry' = [entry EXCEPT ![call[p].key] =
                    [value |-> call[p].value, expires |-> Expiry(now, t)]]
  BY <1>2, CacheAssumption DEF ServerSet
<1>4. [value |-> call[p].value, expires |-> Expiry(now, t)] \in Records
  BY <1>2 DEF Expiry, Records, IInv, TypeOK
<1>5. UNCHANGED <<backend, now, call, seen, answer>> /\ pc[p] # "check"
      /\ pc' = [pc EXCEPT ![p] = "done"]
  BY DEF ServerSet, Goto
<1> QED BY <1>1, <1>3, <1>4, <1>5, PutStep

LEMMA QuitStep == ASSUME IInv, NEW p \in Callers, Quit(p) PROVE Answers!Return(p)
<1>1. \A k \in Keys : LiveValue(k)' = LiveValue(k)
  BY SameValue DEF Quit
<1>2. \A q \in Callers \ {p} : Pending(q)' = Pending(q)
  <2>1. \A q \in Callers \ {p} : pc'[q] = pc[q] /\ seen'[q] = seen[q] /\ answer'[q] = answer[q]
    BY DEF Quit, Goto, IInv, TypeOK
  <2> QED BY <2>1, SameValue DEF Quit
<1>3. Pending(p)' = Nothing
  BY DEF Quit, Goto, Pending, IInv, TypeOK
<1> QED BY <1>1, <1>2, <1>3 DEF Answers!Return, Quit

LEMMA NextStep == IInv /\ [Next]_vars => [Answers!Next]_Seen
<1> SUFFICES ASSUME IInv, [Next]_vars PROVE Answers!Next \/ UNCHANGED Seen
  OBVIOUS
<1>1. CASE Tick
  BY <1>1, TickStep DEF Answers!Next
<1>2. ASSUME NEW p \in Callers, Step(p) PROVE Answers!Next \/ UNCHANGED Seen
  <2>1. CASE Begin(p)
    BY <2>1, BeginStep DEF Answers!Next
  <2>2. CASE Get(p)
    BY <2>2, ReadStep, CheckStep, ServerGetStep DEF Get, Answers!Next
  <2>3. CASE Set(p)
    BY <2>3, RemoveStep, WriteStep, ServerSetStep DEF Set, Answers!Next
  <2>4. CASE Delete(p)
    BY <2>4, RemoveStep, ClearEndsStep DEF Delete, Answers!Next
  <2>5. CASE Quit(p)
    BY <2>5, QuitStep DEF Answers!Next
  <2> QED BY <1>2, <2>1, <2>2, <2>3, <2>4, <2>5 DEF Step, Return, Fail
<1>3. CASE UNCHANGED vars
  BY <1>3 DEF vars, Seen, LiveValue, Pending, Live
<1> QED BY <1>1, <1>2, <1>3 DEF Next

LEMMA InitStep == Init => Answers!Init
<1> SUFFICES ASSUME Init PROVE Answers!Init
  OBVIOUS
<1>1. \A k \in Keys : LiveValue(k) = Nothing
  BY DEF Init, LiveValue, Unreadable
<1>2. \A p \in Callers : Pending(p) = Nothing
  BY DEF Init, Pending
<1> QED BY <1>1, <1>2 DEF Init, Answers!Init

(* Disk files and Redis keys both keep what AnswerCache promises           *)
(* (CacheBackend.get): a step of a backend is a step of the abstract cache *)
(* or none.                                                                *)
THEOREM Refinement == Spec => ImplementsAnswerCache
<1>1. Init => Answers!Init
  BY InitStep
<1>2. IInv /\ [Next]_vars => [Answers!Next]_(Answers!vars)
  BY NextStep DEF Seen, Answers!vars
<1> QED BY <1>1, <1>2, CacheInvariant, PTL DEF Spec, ImplementsAnswerCache, Answers!Spec
=============================================================================
