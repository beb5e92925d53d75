------------------------ MODULE BatchProcessorProofs ------------------------
(***************************************************************************)
(* Proofs about BatchProcessor for any number of items, chunk size, number *)
(* of workers, retries and calls, and any texts.                           *)
(***************************************************************************)
EXTENDS BatchProcessor, FiniteSetTheorems, TLAPS

(* The constructors of results give results.                               *)
LEMMA ResultTypes ==
    ASSUME NEW i \in Items, NEW j \in Items, NEW f \in BOOLEAN
    PROVE  Failed(i, f) \in Result /\ Answer(i, j, f) \in Result
BY DEF Failed, Answer, Result

(* Mapping a reply gives an item a result of its own.                      *)
LEMMA MappedType ==
    ASSUME NEW U \in SUBSET Items, NEW i \in U, NEW reply \in Replies(U)
    PROVE  Mapped(i, U, reply) \in Result /\ Mapped(i, U, reply).id = i
<1>1. Failed(i, FALSE) \in Result /\ Failed(i, FALSE).id = i
    BY DEF Failed, Result
<1>2. \A j \in U : Answer(i, j, FALSE) \in Result /\ Answer(i, j, FALSE).id = i
    BY DEF Answer, Result
<1>3. CASE reply \in [format : {"results"}, ids : SUBSET U]
    BY <1>1, <1>2, <1>3 DEF Mapped, Names
<1>4. CASE reply \in [format : {"other"}]
    BY <1>1, <1>4 DEF Mapped, Names
<1>5. CASE /\ reply.format = "list"
           /\ \E n \in 1..Cardinality(U) : reply.entries \in [1..n -> Entries(U)]
    <2>1. PICK n \in 1..Cardinality(U) : reply.entries \in [1..n -> Entries(U)]
        BY <1>5
    <2>2. \A k \in DOMAIN reply.entries : reply.entries[k].about \in U
        BY <2>1 DEF Entries
    <2>3. QED
        BY <1>1, <1>2, <1>5, <2>2 DEF Mapped, Names
<1>6. QED
    BY <1>3, <1>4, <1>5 DEF Replies

(* A cache hit is a result.                                                *)
LEMMA FoundType ==
    ASSUME TypeOK, TextInv, NEW i \in Items
    PROVE  /\ Found(i) \in Result \cup {NoResult}
           /\ Found(i) # NoResult => Payload[Found(i).id] = Payload[i]
<1>1. Payload[i] \in Payloads
    BY DEF Payloads
<1>2. CASE cache[Payload[i]] = NoEntry
    BY <1>2 DEF Found
<1>3. CASE cache[Payload[i]] # NoEntry
    <2>1. cache[Payload[i]] \in Result
        BY <1>1, <1>3 DEF TypeOK
    <2>2. Found(i) \in Result /\ Found(i).id = cache[Payload[i]].id
        BY <1>3, <2>1 DEF Found, Result
    <2>3. QED
        BY <1>1, <1>3, <2>2 DEF TextInv
<1>4. QED
    BY <1>2, <1>3

(* No item is in two chunks.                                               *)
LEMMA ChunksDisjoint ==
    ASSUME NEW c \in Chunks, NEW d \in Chunks, c # d
    PROVE  Chunk(c) \cap Chunk(d) = {}
BY DEF Chunk, Chunks

(* At most one item is first.                                              *)
LEMMA FirstUnique ==
    ASSUME NEW S \in SUBSET Items, NEW i \in S, NEW j \in S,
           First(i, S), First(j, S)
    PROVE  i = j
BY DEF First, Items

(* Sets of items are finite.                                               *)
LEMMA ItemSets ==
    ASSUME NEW S \in SUBSET Items
    PROVE  IsFiniteSet(S) /\ Cardinality(S) \in Nat
<1>1. IsFiniteSet(1..N)
    BY FS_Interval, BatchAssumption
<1>2. IsFiniteSet(S)
    BY <1>1, FS_Subset DEF Items
<1>3. QED
    BY <1>2, FS_CardinalityType

-----------------------------------------------------------------------------
(* The chunks of a fresh call start from an inductive state.               *)
LEMMA StartTypes ==
    /\ Start.permits \in Nat
    /\ Start.pc \in [Chunks -> Stages]
    /\ Start.todo \in [Chunks -> SUBSET Items]
    /\ Start.uncached \in [Chunks -> SUBSET Items]
    /\ Start.hit \in [Items -> Result \cup {NoResult}]
    /\ Start.tries \in [Chunks -> 0..MaxRetries - 1]
    /\ Start.result \in [Items -> Result \cup {NoResult}]
    /\ Start.stats \in [success : Nat, failed : Nat, fromCache : Nat, fallback : Nat]
BY BatchAssumption DEF Start, Stages

LEMMA InitIInv == Init => IInv
<1> SUFFICES ASSUME Init PROVE IInv
    OBVIOUS
<1>1. TypeOK
    BY StartTypes, BatchAssumption DEF Init, TypeOK
<1>2. /\ \A c \in Chunks : pc[c] = "waiting" /\ todo[c] = {} /\ uncached[c] = {}
      /\ \A i \in Items : result[i] = NoResult /\ hit[i] = NoResult
      /\ \A p \in Payloads : cache[p] = NoEntry
    BY DEF Init, Start
<1>3. LoopInv
    BY <1>2 DEF LoopInv, LoopInvOf, Chunk
<1>4. TextInv
    BY <1>2 DEF TextInv, ResultsByText, Settled
<1>5. QED
    BY <1>1, <1>3, <1>4 DEF IInv

(* Storing the result of a settled item keeps the cache sound.             *)
LEMMA PutKeeps ==
    ASSUME TypeOK, TextInv, NEW i \in Items, result[i] # NoResult, Put(i)
    PROVE  /\ cache' \in [Payloads -> Result \cup {NoEntry}]
           /\ \A p \in Payloads : cache'[p] # NoEntry => Payload[cache'[p].id] = p
<1>1. result[i] \in Result /\ Payload[result[i].id] = Payload[i]
    BY DEF TypeOK, TextInv, ResultsByText, Settled
<1>2. QED
    BY <1>1 DEF Put, TypeOK, TextInv

LEMMA AcquireIInv == ASSUME IInv, NEW c \in Chunks, Acquire(c) PROVE IInv'
<1>1. TypeOK'
    BY DEF IInv, TypeOK, Acquire, Stages, Chunk
<1>2. LoopInv'
    BY DEF IInv, TypeOK, LoopInv, LoopInvOf, Acquire
<1>3. TextInv'
    BY DEF IInv, TextInv, ResultsByText, Settled, Acquire
<1>4. QED
    BY <1>1, <1>2, <1>3 DEF IInv

LEMMA LookupIInv ==
    ASSUME IInv, NEW c \in Chunks, NEW i \in todo[c], Lookup(c, i) PROVE IInv'
<1>0. /\ TypeOK /\ LoopInv /\ TextInv /\ i \in Items
      /\ hit' = [hit EXCEPT ![i] = Found(i)]
      /\ pc[c] = "check"
    BY DEF IInv, TypeOK, Lookup, Goto
<1>1. /\ hit' \in [Items -> Result \cup {NoResult}]
      /\ \A j \in Items : hit'[j] # NoResult => Payload[hit'[j].id] = Payload[j]
    BY <1>0, FoundType DEF TypeOK, TextInv
<1>2. CASE todo'[c] # {}
    <2>1. UNCHANGED <<permits, pc, uncached, result, stats, run, tries, cache>>
          /\ todo' = [todo EXCEPT ![c] = @ \ {i}]
        BY <1>2 DEF Lookup, Goto
    <2>2. TypeOK'
        BY <1>0, <1>1, <2>1 DEF TypeOK
    <2>3. LoopInv'
        BY <1>0, <2>1 DEF TypeOK, LoopInv, LoopInvOf
    <2>4. TextInv'
        BY <1>0, <1>1, <2>1 DEF TextInv, ResultsByText, Settled
    <2>5. QED
        BY <2>2, <2>3, <2>4 DEF IInv
<1>3. CASE todo'[c] = {}
    <2> DEFINE hits == {j \in Chunk(c) : hit'[j] # NoResult}
    <2>1. /\ todo' = [todo EXCEPT ![c] = @ \ {i}]
          /\ uncached' = [uncached EXCEPT ![c] = Chunk(c) \ hits]
          /\ result' = [j \in Items |-> IF j \in hits THEN hit'[j] ELSE result[j]]
          /\ stats' = [stats EXCEPT !.fromCache = @ + Cardinality(hits)]
          /\ pc' = [pc EXCEPT ![c] = IF Chunk(c) \ hits = {} THEN "done" ELSE "batch"]
          /\ UNCHANGED <<run, tries, cache>>
        BY <1>3 DEF Lookup, Goto
    <2>2. hits \in SUBSET Items /\ Cardinality(hits) \in Nat /\ permits' \in Nat
        BY <1>0, <1>3, ItemSets DEF Chunk, Lookup, Goto, TypeOK
    <2>3. TypeOK'
        <3> HIDE DEF hits
        <3>1. result' \in [Items -> Result \cup {NoResult}]
            BY <1>0, <1>1, <2>1 DEF TypeOK
        <3>2. stats' \in [success : Nat, failed : Nat, fromCache : Nat, fallback : Nat]
            BY <1>0, <2>1, <2>2 DEF TypeOK
        <3>3. QED
            BY <1>0, <1>1, <2>1, <2>2, <3>1, <3>2 DEF TypeOK, Stages, Chunk
    <2>4. LoopInv'
        <3> SUFFICES ASSUME NEW d \in Chunks PROVE LoopInvOf(d)'
            BY DEF LoopInv
        <3>1. CASE d = c
            BY <1>0, <1>3, <2>1, <3>1 DEF TypeOK, LoopInv, LoopInvOf, Chunk
        <3>2. CASE d # c
            <4>1. \A j \in Chunk(d) : result'[j] = result[j]
                BY <2>1, <3>2, ChunksDisjoint DEF Chunk
            <4>2. QED
                BY <1>0, <2>1, <3>2, <4>1, ZenonT(40) DEF TypeOK, LoopInv, LoopInvOf
        <3>3. QED
            BY <3>1, <3>2
    <2>5. TextInv'
        <3> HIDE DEF hits
        <3>1. \A j \in Items : result'[j] # NoResult => Payload[result'[j].id] = Payload[j]
            BY <1>0, <1>1, <2>1 DEF TextInv, ResultsByText, Settled
        <3>2. QED
            BY <1>0, <1>1, <2>1, <3>1 DEF TextInv, ResultsByText, Settled
    <2>6. QED
        BY <2>3, <2>4, <2>5 DEF IInv
<1>4. QED
    BY <1>2, <1>3

LEMMA RetryCallIInv == ASSUME IInv, NEW c \in Chunks, RetryCall(c) PROVE IInv'
<1>1. TypeOK'
    BY BatchAssumption DEF IInv, TypeOK, RetryCall
<1>2. LoopInv'
    BY DEF IInv, LoopInv, LoopInvOf, RetryCall
<1>3. TextInv'
    BY DEF IInv, TextInv, ResultsByText, Settled, RetryCall
<1>4. QED
    BY <1>1, <1>2, <1>3 DEF IInv

LEMMA FallBackIInv == ASSUME IInv, NEW c \in Chunks, FallBack(c) PROVE IInv'
<1>1. Cardinality(uncached[c]) \in Nat
    BY ItemSets DEF IInv, TypeOK
<1>2. TypeOK'
    <2>1. stats' \in [success : Nat, failed : Nat, fromCache : Nat, fallback : Nat]
        BY <1>1 DEF IInv, TypeOK, FallBack
    <2>2. QED
        BY <2>1, BatchAssumption DEF IInv, TypeOK, FallBack, Stages
<1>3. LoopInv'
    BY DEF IInv, TypeOK, LoopInv, LoopInvOf, FallBack
<1>4. TextInv'
    BY DEF IInv, TextInv, ResultsByText, Settled, FallBack
<1>5. QED
    BY <1>2, <1>3, <1>4 DEF IInv

LEMMA BatchAnsweredIInv ==
    ASSUME IInv, NEW c \in Chunks, NEW reply \in Replies(uncached[c]),
           BatchAnswered(c, reply)
    PROVE  IInv'
<1>0. TypeOK /\ LoopInv /\ TextInv /\ uncached[c] \in SUBSET Items
    BY DEF IInv, TypeOK
<1>1. /\ result' = [i \in Items |-> IF i \in uncached[c]
                                    THEN Mapped(i, uncached[c], reply) ELSE result[i]]
      /\ stats' = [stats EXCEPT !.success = @ + Cardinality(uncached[c])]
      /\ pc' = [pc EXCEPT ![c] = "store"]
      /\ todo' = [todo EXCEPT ![c] = uncached[c]]
      /\ tries' = [tries EXCEPT ![c] = 0]
      /\ UNCHANGED <<run, permits, uncached, hit, cache>>
      /\ pc[c] = "batch"
    BY DEF BatchAnswered
<1>2. \A i \in uncached[c] : result'[i] \in Result /\ result'[i].id = i
    BY <1>0, <1>1, MappedType
<1>3. \A i \in Items \ uncached[c] : result'[i] = result[i]
    BY <1>1
<1>4. Cardinality(uncached[c]) \in Nat
    BY <1>0, ItemSets
<1>5. TypeOK'
    <2>1. stats' \in [success : Nat, failed : Nat, fromCache : Nat, fallback : Nat]
        BY <1>0, <1>1, <1>4 DEF TypeOK
    <2>2. result' \in [Items -> Result \cup {NoResult}]
        <3>1. \A i \in Items : result'[i] \in Result \cup {NoResult}
            BY <1>0, <1>2, <1>3 DEF TypeOK
        <3>2. QED
            BY <1>1, <3>1
    <2>3. QED
        BY <1>0, <1>1, <2>1, <2>2, BatchAssumption DEF TypeOK, Stages
<1>6. LoopInv'
    <2> SUFFICES ASSUME NEW d \in Chunks PROVE LoopInvOf(d)'
        BY DEF LoopInv
    <2>1. CASE d = c
        BY <1>0, <1>1, <1>2, <2>1, BatchNullAssumption, ZenonT(40) DEF TypeOK, LoopInv, LoopInvOf
    <2>2. CASE d # c
        <3>1. \A i \in Chunk(d) : result'[i] = result[i]
            BY <1>0, <1>3, <2>2, ChunksDisjoint DEF LoopInv, LoopInvOf, Chunk
        <3>2. QED
            BY <1>0, <1>1, <2>2, <3>1, ZenonT(40) DEF TypeOK, LoopInv, LoopInvOf
    <2>3. QED
        BY <2>1, <2>2
<1>7. TextInv'
    <2>1. \A i \in Items : result'[i] # NoResult => Payload[result'[i].id] = Payload[i]
        BY <1>0, <1>2, <1>3 DEF TextInv, ResultsByText, Settled
    <2>2. QED
        BY <1>0, <1>1, <2>1 DEF TextInv, ResultsByText, Settled
<1>8. QED
    BY <1>5, <1>6, <1>7 DEF IInv

LEMMA StoreIInv ==
    ASSUME IInv, NEW c \in Chunks, NEW i \in todo[c], Store(c, i) PROVE IInv'
<1>1. i \in Items /\ result[i] # NoResult /\ TypeOK /\ LoopInv /\ TextInv /\ Put(i)
    BY DEF IInv, TypeOK, LoopInv, LoopInvOf, Store, Goto
<1>2. /\ cache' \in [Payloads -> Result \cup {NoEntry}]
      /\ \A p \in Payloads : cache'[p] # NoEntry => Payload[cache'[p].id] = p
    BY <1>1, PutKeeps
<1>3. TypeOK'
    BY <1>1, <1>2 DEF TypeOK, Store, Goto, Stages
<1>4. LoopInv'
    BY <1>1 DEF TypeOK, LoopInv, LoopInvOf, Store, Goto
<1>5. TextInv'
    BY <1>1, <1>2 DEF TextInv, ResultsByText, Settled, Store, Goto
<1>6. QED
    BY <1>3, <1>4, <1>5 DEF IInv

(* An individual item gets a result r of its own.                          *)
LEMMA SingleSettles ==
    ASSUME IInv, NEW c \in Chunks, NEW i \in todo[c], NEW r \in Result, r.id = i,
           result' = [result EXCEPT ![i] = r]
    PROVE  /\ i \in Chunk(c) /\ i \in Items
           /\ result' \in [Items -> Result \cup {NoResult}]
           /\ result'[i] = r /\ r # NoResult
           /\ \A j \in Items : j # i => result'[j] = result[j]
           /\ ResultsByText'
<1>1. /\ i \in Chunk(c) /\ i \in Items /\ r # NoResult
      /\ result \in [Items -> Result \cup {NoResult}]
      /\ \A j \in Items : result[j] # NoResult => Payload[result[j].id] = Payload[j]
    BY BatchNullAssumption
    DEF IInv, TypeOK, LoopInv, LoopInvOf, TextInv, ResultsByText, Settled, Chunk
<1>2. QED
    BY <1>1 DEF ResultsByText, Settled

LEMMA SingleLostIInv ==
    ASSUME IInv, NEW c \in Chunks, NEW i \in todo[c], SingleLost(c, i) PROVE IInv'
<1>0. TypeOK /\ LoopInv /\ TextInv /\ i \in Items
    BY DEF IInv, TypeOK
<1>1. Failed(i, TRUE) \in Result /\ Failed(i, TRUE).id = i
    BY <1>0, ResultTypes DEF Failed
<1>2. /\ result' \in [Items -> Result \cup {NoResult}]
      /\ i \in Chunk(c)
      /\ \A j \in Items : j # i => result'[j] = result[j]
      /\ ResultsByText'
    BY <1>1, SingleSettles DEF SingleLost
<1>3. /\ pc[c] = "single" /\ First(i, todo[c])
      /\ stats' = [stats EXCEPT !.failed = @ + 1]
      /\ tries' = [tries EXCEPT ![c] = 0]
      /\ todo' = [todo EXCEPT ![c] = @ \ {i}]
      /\ pc' = [pc EXCEPT ![c] = IF todo'[c] = {} THEN "done" ELSE "single"]
      /\ UNCHANGED <<run, uncached, hit, cache>> /\ permits' \in Nat
    BY <1>0 DEF SingleLost, NextSingle, Goto, TypeOK
<1>4. TypeOK'
    <2>1. stats' \in [success : Nat, failed : Nat, fromCache : Nat, fallback : Nat]
        BY <1>0, <1>3 DEF TypeOK
    <2>2. QED
        BY <1>0, <1>2, <1>3, <2>1, BatchAssumption DEF TypeOK, Stages
<1>5. LoopInv'
    <2> SUFFICES ASSUME NEW d \in Chunks PROVE LoopInvOf(d)'
        BY DEF LoopInv
    <2>1. CASE d = c
        BY <1>0, <1>2, <1>3, <2>1 DEF TypeOK, LoopInv, LoopInvOf
    <2>2. CASE d # c
        <3>1. \A j \in Chunk(d) : result'[j] = result[j]
            BY <1>2, <2>2, ChunksDisjoint DEF Chunk
        <3>2. QED
            BY <1>0, <1>3, <2>2, <3>1 DEF TypeOK, LoopInv, LoopInvOf
    <2>3. QED
        BY <2>1, <2>2
<1>6. TextInv'
    BY <1>0, <1>2, <1>3 DEF TextInv
<1>7. QED
    BY <1>4, <1>5, <1>6 DEF IInv

LEMMA SingleAnsweredIInv ==
    ASSUME IInv, NEW c \in Chunks, NEW i \in todo[c], SingleAnswered(c, i) PROVE IInv'
<1>0. TypeOK /\ LoopInv /\ TextInv /\ i \in Items
    BY DEF IInv, TypeOK
<1>1. Answer(i, i, TRUE) \in Result /\ Answer(i, i, TRUE).id = i
    BY <1>0, ResultTypes DEF Answer
<1>2. /\ result' \in [Items -> Result \cup {NoResult}]
      /\ i \in Chunk(c)
      /\ result'[i] # NoResult
      /\ \A j \in Items : j # i => result'[j] = result[j]
      /\ ResultsByText'
    BY <1>1, SingleSettles DEF SingleAnswered
<1>3. /\ pc[c] = "single" /\ First(i, todo[c])
      /\ stats' = [stats EXCEPT !.success = @ + 1]
      /\ tries' = [tries EXCEPT ![c] = 0]
      /\ pc' = [pc EXCEPT ![c] = "keep"]
      /\ UNCHANGED <<run, permits, todo, uncached, hit, cache>>
    BY DEF SingleAnswered
<1>4. TypeOK'
    <2>1. stats' \in [success : Nat, failed : Nat, fromCache : Nat, fallback : Nat]
        BY <1>0, <1>3 DEF TypeOK
    <2>2. QED
        BY <1>0, <1>2, <1>3, <2>1, BatchAssumption DEF TypeOK, Stages
<1>5. LoopInv'
    <2> SUFFICES ASSUME NEW d \in Chunks PROVE LoopInvOf(d)'
        BY DEF LoopInv
    <2>1. CASE d = c
        <3>1. \A j \in todo[c] : result'[j] # NoResult <=> First(j, todo[c])
            BY <1>0, <1>2, <1>3, FirstUnique DEF TypeOK, LoopInv, LoopInvOf
        <3>2. QED
            BY <1>0, <1>3, <2>1, <3>1 DEF TypeOK, LoopInv, LoopInvOf
    <2>2. CASE d # c
        <3>1. \A j \in Chunk(d) : result'[j] = result[j]
            BY <1>2, <2>2, ChunksDisjoint DEF Chunk
        <3>2. QED
            BY <1>0, <1>3, <2>2, <3>1 DEF TypeOK, LoopInv, LoopInvOf
    <2>3. QED
        BY <2>1, <2>2
<1>6. TextInv'
    BY <1>0, <1>2, <1>3 DEF TextInv
<1>7. QED
    BY <1>4, <1>5, <1>6 DEF IInv

LEMMA KeepIInv ==
    ASSUME IInv, NEW c \in Chunks, NEW i \in todo[c], Keep(c, i) PROVE IInv'
<1>1. /\ i \in Items /\ result[i] # NoResult /\ TypeOK /\ LoopInv /\ TextInv /\ Put(i)
      /\ pc[c] = "keep" /\ First(i, todo[c])
      /\ todo' = [todo EXCEPT ![c] = @ \ {i}]
      /\ pc' = [pc EXCEPT ![c] = IF todo'[c] = {} THEN "done" ELSE "single"]
      /\ UNCHANGED <<run, uncached, hit, tries, result, stats>> /\ permits' \in Nat
    BY DEF IInv, TypeOK, LoopInv, LoopInvOf, Keep, NextSingle, Goto
<1>2. /\ cache' \in [Payloads -> Result \cup {NoEntry}]
      /\ \A p \in Payloads : cache'[p] # NoEntry => Payload[cache'[p].id] = p
    BY <1>1, PutKeeps
<1>3. TypeOK'
    BY <1>1, <1>2 DEF TypeOK, Stages
<1>4. LoopInv'
    <2>1. \A j \in todo[c] \ {i} : result[j] = NoResult
        BY <1>1, FirstUnique DEF TypeOK, LoopInv, LoopInvOf
    <2>2. QED
        BY <1>1, <2>1 DEF TypeOK, LoopInv, LoopInvOf
<1>5. TextInv'
    BY <1>1, <1>2 DEF TextInv, ResultsByText, Settled
<1>6. QED
    BY <1>3, <1>4, <1>5 DEF IInv

LEMMA NewRunIInv == ASSUME IInv, NewRun PROVE IInv'
<1>1. TypeOK'
    BY StartTypes, BatchAssumption DEF IInv, TypeOK, NewRun
<1>2. /\ \A c \in Chunks : pc'[c] = "waiting" /\ todo'[c] = {} /\ uncached'[c] = {}
      /\ \A i \in Items : result'[i] = NoResult /\ hit'[i] = NoResult
      /\ cache' = cache
    BY DEF NewRun, Start
<1>3. LoopInv'
    BY <1>2 DEF LoopInv, LoopInvOf, Chunk
<1>4. TextInv'
    BY <1>2 DEF IInv, TextInv, ResultsByText, Settled
<1>5. QED
    BY <1>1, <1>3, <1>4 DEF IInv

LEMMA ExpireIInv == ASSUME IInv, NEW p \in Payloads, Expire(p) PROVE IInv'
BY DEF IInv, TypeOK, LoopInv, LoopInvOf, TextInv, ResultsByText, Settled, Expire

(* Every step keeps the inductive invariant.                               *)
LEMMA StepIInv == IInv /\ [Next]_vars => IInv'
<1> SUFFICES ASSUME IInv, [Next]_vars PROVE IInv'
    OBVIOUS
<1>1. ASSUME NEW c \in Chunks, ChunkStep(c) PROVE IInv'
    <2>1. CASE \E i \in todo[c] : Lookup(c, i)
        BY <2>1, LookupIInv
    <2>2. CASE BatchFails(c) \/ BatchUnusable(c)
        BY <2>2, FallBackIInv DEF BatchFails, BatchUnusable
    <2>3. CASE \E i \in todo[c] : SingleFails(c, i) \/ SingleUnusable(c, i)
        BY <2>3, SingleLostIInv DEF SingleFails, SingleUnusable
    <2>4. CASE \E reply \in Replies(uncached[c]) : BatchAnswered(c, reply)
        BY <2>4, BatchAnsweredIInv
    <2>5. CASE \E i \in todo[c] : Store(c, i) \/ SingleAnswered(c, i) \/ Keep(c, i)
        BY <2>5, StoreIInv, SingleAnsweredIInv, KeepIInv
    <2>6. CASE Acquire(c) \/ RetryCall(c)
        BY <2>6, AcquireIInv, RetryCallIInv
    <2>7. QED
        BY <1>1, <2>1, <2>2, <2>3, <2>4, <2>5, <2>6 DEF ChunkStep
<1>2. ASSUME NEW p \in Payloads, Expire(p) PROVE IInv'
    BY <1>2, ExpireIInv
<1>3. CASE NewRun
    BY <1>3, NewRunIInv
<1>4. CASE UNCHANGED vars
    BY <1>4 DEF vars, IInv, TypeOK, LoopInv, LoopInvOf, TextInv, ResultsByText, Settled
<1>5. QED
    BY <1>1, <1>2, <1>3, <1>4 DEF Next

(* BatchProcessor keeps its variables in their types: in particular nothing *)
(* but the result of a settled item is ever written to the cache, and no    *)
(* message is tried more than MaxRetries times.                             *)
THEOREM TypeCorrect == Spec => []TypeOK
<1>1. IInv => TypeOK
    BY DEF IInv
<1>2. QED
    BY <1>1, InitIInv, StepIInv, PTL DEF Spec

(* A result always belongs to an item with the text it is given for.       *)
THEOREM ResultsMatchText == Spec => []ResultsByText
<1>1. IInv => ResultsByText
    BY DEF IInv, TextInv
<1>2. QED
    BY <1>1, InitIInv, StepIInv, PTL DEF Spec

-----------------------------------------------------------------------------
LEMMA ChunkSets ==
    ASSUME NEW S \in SUBSET Chunks, NEW T \in SUBSET S
    PROVE  /\ IsFiniteSet(S) /\ Cardinality(S) \in Nat
           /\ Cardinality(T) \in Nat /\ Cardinality(T) <= Cardinality(S)
<1>1. (N + BatchSize - 1) \div BatchSize \in Int
    BY BatchAssumption
<1>2. IsFiniteSet(Chunks)
    BY <1>1, FS_Interval DEF Chunks
<1>3. IsFiniteSet(S) /\ IsFiniteSet(T) /\ Cardinality(T) <= Cardinality(S)
    BY <1>2, FS_Subset
<1>4. QED
    BY <1>3, FS_CardinalityType

(* A chunk at work holds a permit: it took one, and keeps it until it is   *)
(* done.                                                                   *)
PermitInv == Cardinality(Active) + permits = MaxWorkers

\* What becomes of the chunks at work and the permits.
LEMMA ActiveSteps ==
    ASSUME TypeOK, [Next]_vars
    PROVE  \/ Active' = Active /\ permits' = permits
           \/ Active' = {} /\ permits' = MaxWorkers
           \/ \E c \in Chunks \ Active : Active' = Active \cup {c} /\ permits' = permits - 1
           \/ \E c \in Active : Active' = Active \ {c} /\ permits' = permits + 1
<1>1. ASSUME NEW c \in Chunks, Acquire(c)
      PROVE  c \in Chunks \ Active /\ Active' = Active \cup {c} /\ permits' = permits - 1
    BY <1>1 DEF TypeOK, Acquire, Active, Working
<1>2. ASSUME NEW c \in Active, NEW stage \in Working, pc' = [pc EXCEPT ![c] = stage]
      PROVE  Active' = Active
    BY <1>2 DEF TypeOK, Active
<1>3. ASSUME NEW c \in Active, NEW stage \in Working \cup {"done"}, Goto(c, stage)
      PROVE  \/ Active' = Active /\ permits' = permits
             \/ Active' = Active \ {c} /\ permits' = permits + 1
    <2>1. CASE stage = "done"
        BY <1>3, <2>1 DEF TypeOK, Active, Goto, Working
    <2>2. CASE stage # "done"
        BY <1>2, <1>3, <2>2 DEF Goto
    <2>3. QED
        BY <2>1, <2>2
<1>4. ASSUME NEW c \in Chunks, ChunkStep(c), ~Acquire(c)
      PROVE  /\ c \in Active
             /\ \/ Active' = Active /\ permits' = permits
                \/ Active' = Active \ {c} /\ permits' = permits + 1
    <2>1. pc[c] \in Working
        BY <1>4 DEF ChunkStep, Lookup, RetryCall, BatchFails, BatchUnusable, FallBack,
           BatchAnswered, Store, SingleFails, SingleUnusable, SingleLost, SingleAnswered,
           Keep, Working
    <2>2. c \in Active
        BY <2>1 DEF Active
    <2>3. CASE \E i \in todo[c] : Lookup(c, i)
        <3>1. PICK i \in todo[c] : Lookup(c, i)
            BY <2>3
        <3>2. CASE todo'[c] # {}
            BY <2>2, <3>1, <3>2 DEF Lookup, Active
        <3>3. CASE todo'[c] = {}
            <4>1. \E stage \in {"done", "batch"} : Goto(c, stage)
                BY <3>1, <3>3 DEF Lookup
            <4>2. QED
                BY <1>3, <2>2, <4>1 DEF Working
        <3>4. QED
            BY <3>2, <3>3
    <2>4. CASE RetryCall(c)
        BY <2>2, <2>4 DEF RetryCall, Active
    <2>5. CASE \/ BatchFails(c) \/ BatchUnusable(c)
               \/ \E reply \in Replies(uncached[c]) : BatchAnswered(c, reply)
               \/ \E i \in todo[c] : SingleAnswered(c, i)
        <3>1. permits' = permits /\ \E stage \in Working : pc' = [pc EXCEPT ![c] = stage]
            BY <2>5 DEF BatchFails, BatchUnusable, FallBack, BatchAnswered, SingleAnswered, Working
        <3>2. QED
            BY <1>2, <2>2, <3>1
    <2>6. CASE \E i \in todo[c] : \/ Store(c, i) \/ Keep(c, i)
                                  \/ SingleFails(c, i) \/ SingleUnusable(c, i)
        <3>1. \E stage \in {"done", "store", "single"} : Goto(c, stage)
            BY <2>6 DEF Store, Keep, SingleFails, SingleUnusable, SingleLost, NextSingle, Goto
        <3>2. QED
            BY <1>3, <2>2, <3>1 DEF Working
    <2>7. QED
        BY <1>4, <2>2, <2>3, <2>4, <2>5, <2>6 DEF ChunkStep
<1>5. CASE \E p \in Payloads : Expire(p)
    BY <1>5 DEF Expire, Active
<1>6. CASE NewRun
    <2>1. pc' = Start.pc /\ permits' = Start.permits
        BY <1>6 DEF NewRun
    <2>2. QED
        BY <2>1 DEF Start, Active, Working
<1>7. CASE UNCHANGED vars
    BY <1>7 DEF vars, Active
<1>8. QED
    BY <1>1, <1>4, <1>5, <1>6, <1>7 DEF Next, Active

(* The semaphore does its work: at most max_workers chunks are inside      *)
(* _process_chunk at any time, because each of them holds one permit, all  *)
(* the way through cache, batch and fallback, and no permit is made.       *)
THEOREM Workers == Spec => []WorkersBounded
<1> DEFINE PInv == TypeOK /\ PermitInv
<1>1. Init => PermitInv
    <2> SUFFICES ASSUME Init PROVE PermitInv
        OBVIOUS
    <2>1. pc = Start.pc /\ permits = Start.permits
        BY DEF Init
    <2>2. Active = {} /\ permits = MaxWorkers
        BY <2>1 DEF Start, Active, Working
    <2>3. QED
        BY <2>2, FS_EmptySet, BatchAssumption DEF PermitInv
<1>2. TypeOK /\ PermitInv /\ [Next]_vars => PermitInv'
    <2> SUFFICES ASSUME TypeOK, PermitInv, [Next]_vars PROVE PermitInv'
        OBVIOUS
    <2>1. /\ Active \in SUBSET Chunks /\ IsFiniteSet(Active)
          /\ Cardinality(Active) \in Nat /\ permits \in Nat
        BY ChunkSets DEF Active, TypeOK
    <2>2. CASE Active' = Active /\ permits' = permits
        BY <2>2 DEF PermitInv
    <2>3. CASE Active' = {} /\ permits' = MaxWorkers
        BY <2>3, FS_EmptySet, BatchAssumption DEF PermitInv
    <2>4. ASSUME NEW c \in Chunks \ Active,
                 Active' = Active \cup {c}, permits' = permits - 1
          PROVE  PermitInv'
        <3>1. Cardinality(Active') = Cardinality(Active) + 1
            BY <2>1, <2>4, FS_AddElement
        <3>2. QED
            BY <2>1, <2>4, <3>1 DEF PermitInv
    <2>5. ASSUME NEW c \in Active, Active' = Active \ {c}, permits' = permits + 1
          PROVE  PermitInv'
        <3>1. Cardinality(Active') = Cardinality(Active) - 1
            BY <2>1, <2>5, FS_RemoveElement
        <3>2. QED
            BY <2>1, <2>5, <3>1 DEF PermitInv
    <2>6. QED
        BY <2>2, <2>3, <2>4, <2>5, ActiveSteps
<1>3. TypeOK /\ PermitInv => WorkersBounded
    <2> SUFFICES ASSUME TypeOK, PermitInv PROVE WorkersBounded
        OBVIOUS
    <2>1. Cardinality(Active) \in Nat /\ permits \in Nat
        BY ChunkSets DEF Active, TypeOK
    <2>2. QED
        BY <2>1, BatchAssumption DEF PermitInv, WorkersBounded
<1>4. QED
    BY <1>1, <1>2, <1>3, TypeCorrect, PTL DEF Spec

-----------------------------------------------------------------------------
\* What the three counters of BatchStats add up to.
Total == stats.success + stats.failed + stats.fromCache

\* The items of D, and they only, get their first result.
Settles(D) ==
    /\ D \in SUBSET Items /\ D \cap Settled = {}
    /\ \A i \in Items : result'[i] # NoResult <=> i \in D \/ result[i] # NoResult
    /\ \A i \in Items \ D : result'[i] = result[i]
    /\ Total' = Total + Cardinality(D)

(* A chunk's step settles some of its unsettled items and counts each of   *)
(* them once, or touches neither results nor counters.                     *)
LEMMA ChunkStepSettles ==
    ASSUME IInv, NEW c \in Chunks, ChunkStep(c)
    PROVE  /\ run' = run
           /\ \/ result' = result /\ Total' = Total
              \/ \E D \in SUBSET Items : Settles(D)
<1>0. TypeOK /\ LoopInv /\ LoopInvOf(c) /\ TextInv
    BY DEF IInv, LoopInv
<1>1. CASE \/ Acquire(c) \/ RetryCall(c) \/ BatchFails(c) \/ BatchUnusable(c)
           \/ \E i \in todo[c] : Store(c, i) \/ Keep(c, i)
    BY <1>0, <1>1 DEF TypeOK, Total, Acquire, RetryCall, BatchFails, BatchUnusable,
                      FallBack, Store, Goto, Keep
<1>2. ASSUME NEW i \in todo[c], Lookup(c, i)
      PROVE  /\ run' = run
             /\ \/ result' = result /\ Total' = Total
                \/ \E D \in SUBSET Items : Settles(D)
    <2>1. CASE todo'[c] # {}
        BY <1>2, <2>1 DEF Lookup, Goto, Total
    <2>2. CASE todo'[c] = {}
        <3> DEFINE hits == {j \in Chunk(c) : hit'[j] # NoResult}
        <3>1. /\ pc[c] = "check" /\ run' = run
              /\ result' = [j \in Items |-> IF j \in hits THEN hit'[j] ELSE result[j]]
              /\ stats' = [stats EXCEPT !.fromCache = @ + Cardinality(hits)]
            BY <1>2, <2>2 DEF Lookup, Goto
        <3>2. /\ hits \in SUBSET Items /\ Cardinality(hits) \in Nat
              /\ \A j \in hits : result[j] = NoResult /\ hit'[j] # NoResult
            BY <1>0, <3>1, ItemSets DEF LoopInvOf, Chunk
        <3> HIDE DEF hits
        <3>3. Total' = Total + Cardinality(hits)
            BY <1>0, <3>1, <3>2 DEF TypeOK, Total
        <3>4. Settles(hits)
            BY <3>1, <3>2, <3>3 DEF Settles, Settled
        <3>5. QED
            BY <3>1, <3>2, <3>4
    <2>3. QED
        BY <2>1, <2>2
<1>3. ASSUME NEW reply \in Replies(uncached[c]), BatchAnswered(c, reply)
      PROVE  run' = run /\ Settles(uncached[c]) /\ uncached[c] \in SUBSET Items
    <2>1. /\ uncached[c] \in SUBSET Items /\ Cardinality(uncached[c]) \in Nat
          /\ \A i \in uncached[c] : result[i] = NoResult
        BY <1>0, <1>3, ItemSets DEF TypeOK, LoopInvOf, BatchAnswered
    <2>2. \A i \in uncached[c] : result'[i] \in Result
        BY <1>3, <2>1, MappedType DEF BatchAnswered
    <2>3. \A i \in Items \ uncached[c] : result'[i] = result[i]
        BY <1>3 DEF BatchAnswered
    <2>4. Total' = Total + Cardinality(uncached[c]) /\ run' = run
        BY <1>0, <1>3, <2>1 DEF TypeOK, Total, BatchAnswered
    <2>5. QED
        BY <2>1, <2>2, <2>3, <2>4, BatchNullAssumption DEF Settles, Settled
<1>4. ASSUME NEW i \in todo[c], SingleLost(c, i) \/ SingleAnswered(c, i)
      PROVE  run' = run /\ Settles({i}) /\ i \in Items
    <2>1. i \in Items /\ result[i] = NoResult
        BY <1>0, <1>4 DEF TypeOK, LoopInvOf, SingleLost, SingleAnswered
    <2>2. PICK r \in Result : r.id = i /\ result' = [result EXCEPT ![i] = r]
        BY <1>4, <2>1, ResultTypes DEF SingleLost, SingleAnswered, Failed, Answer
    <2>3. result'[i] # NoResult /\ \A j \in Items : j # i => result'[j] = result[j]
        BY <2>2, SingleSettles
    <2>4. Cardinality({i}) = 1
        BY FS_Singleton
    <2>5. Total' = Total + 1 /\ run' = run
        <3>1. stats.success \in Nat /\ stats.failed \in Nat /\ stats.fromCache \in Nat
            BY <1>0 DEF TypeOK
        <3>2. CASE SingleLost(c, i)
            <4>1. stats' = [stats EXCEPT !.failed = @ + 1] /\ run' = run
                BY <3>2 DEF SingleLost
            <4>2. QED
                BY <1>0, <3>1, <4>1 DEF TypeOK, Total
        <3>3. CASE SingleAnswered(c, i)
            <4>1. stats' = [stats EXCEPT !.success = @ + 1] /\ run' = run
                BY <3>3 DEF SingleAnswered
            <4>2. QED
                BY <1>0, <3>1, <4>1 DEF TypeOK, Total
        <3>4. QED
            BY <1>4, <3>2, <3>3
    <2>6. QED
        BY <2>1, <2>3, <2>4, <2>5 DEF Settles, Settled
<1>5. QED
    BY <1>1, <1>2, <1>3, <1>4 DEF ChunkStep, SingleFails, SingleUnusable

(* Each item that has a result was counted once, by the chunk, the batch   *)
(* or the individual retry that gave it.                                   *)
THEOREM StatsAddUp == Spec => []Accounting
<1>1. Init => Accounting
    <2> SUFFICES ASSUME Init PROVE Accounting
        OBVIOUS
    <2>1. stats = Start.stats /\ result = Start.result
        BY DEF Init
    <2>2. QED
        BY <2>1, FS_EmptySet DEF Start, Accounting, Settled
<1>2. IInv /\ Accounting /\ [Next]_vars => Accounting'
    <2> SUFFICES ASSUME IInv, Accounting, [Next]_vars PROVE Accounting'
        OBVIOUS
    <2>1. ASSUME NEW D \in SUBSET Items, Settles(D) PROVE Accounting'
        <3>1. Settled' = Settled \cup D
            BY <2>1 DEF Settles, Settled
        <3>2. /\ IsFiniteSet(Settled) /\ IsFiniteSet(D)
              /\ Cardinality(Settled) \in Nat /\ Cardinality(D) \in Nat
            BY ItemSets DEF Settled
        <3>3. Cardinality(Settled \cup D) = Cardinality(Settled) + Cardinality(D)
            <4>1. Settled \cap D = {} /\ Cardinality({}) = 0
                BY <2>1, FS_EmptySet DEF Settles
            <4>2. Cardinality(Settled \cup D)
                    = Cardinality(Settled) + Cardinality(D) - Cardinality(Settled \cap D)
                BY <3>2, FS_Union
            <4>3. QED
                BY <3>2, <4>1, <4>2
        <3>4. QED
            BY <2>1, <3>1, <3>3 DEF Settles, Accounting, Total
    <2>2. CASE result' = result /\ Total' = Total
        BY <2>2 DEF Accounting, Total, Settled
    <2>3. CASE \E c \in Chunks : ChunkStep(c)
        BY <2>1, <2>2, <2>3, ChunkStepSettles
    <2>4. CASE \E p \in Payloads : Expire(p)
        BY <2>2, <2>4 DEF Expire, Total
    <2>5. CASE NewRun
        <3>1. stats' = Start.stats /\ result' = Start.result
            BY <2>5 DEF NewRun
        <3>2. QED
            BY <3>1, FS_EmptySet DEF Start, Accounting, Settled
    <2>6. CASE UNCHANGED vars
        BY <2>2, <2>6 DEF vars, Total
    <2>7. QED
        BY <2>3, <2>4, <2>5, <2>6 DEF Next
<1>3. QED
    BY <1>1, <1>2, InitIInv, StepIInv, PTL DEF Spec

-----------------------------------------------------------------------------
(* process() keeps the safety part of its contract: within a call every    *)
(* item gets at most one result, made for its text, and keeps it, whatever *)
(* the chunks, the cache, the retries and the fallback do.                 *)
THEOREM Implements == Spec => Contract!SafetySpec
<1>1. Init => Contract!Init
    BY DEF Init, Start, Contract!Init, Contract!Unsettled, Contract!Items, Items
<1>2. IInv /\ IInv' /\ [Next]_vars => [Contract!Next]_<<run, result>>
    <2> SUFFICES ASSUME IInv, IInv', [Next]_vars
                 PROVE  [Contract!Next]_<<run, result>>
        OBVIOUS
    <2>1. /\ DOMAIN result' = Items
          /\ \A i \in Items : \/ result'[i] = NoResult
                             \/ result'[i] \in Contract!For(i)
        BY DEF IInv, TypeOK, TextInv, ResultsByText, Settled, Contract!For,
               Contract!Result, Contract!Items, Items, Result
    <2>2. ASSUME run' = run, \A i \in Items : result[i] # NoResult => result'[i] = result[i]
          PROVE  Contract!Settle
        BY <2>1, <2>2 DEF Contract!Settle, Contract!Items, Items
    <2>3. CASE \E c \in Chunks : ChunkStep(c)
        <3>1. PICK c \in Chunks : ChunkStep(c)
            BY <2>3
        <3>2. CASE result' = result
            BY <2>2, <3>1, <3>2, ChunkStepSettles DEF Contract!Next
        <3>3. CASE \E D \in SUBSET Items : Settles(D)
            BY <2>2, <3>1, <3>3, ChunkStepSettles DEF Settles, Settled, Contract!Next
        <3>4. QED
            BY <3>1, <3>2, <3>3, ChunkStepSettles
    <2>4. CASE \E p \in Payloads : Expire(p)
        BY <2>4 DEF Expire
    <2>5. CASE NewRun
        BY <2>5 DEF NewRun, Start, Contract!Next, Contract!NewRun, Contract!Unsettled,
                    Contract!Items, Items
    <2>6. CASE UNCHANGED vars
        BY <2>6 DEF vars
    <2>7. QED
        BY <2>3, <2>4, <2>5, <2>6 DEF Next
<1>3. QED
    BY <1>1, <1>2, InitIInv, StepIInv, PTL DEF Spec, Contract!SafetySpec

-----------------------------------------------------------------------------
(* How results were obtained.                                              *)

\* What the cache gave is marked as such.
Marked(r) == r # NoResult => r.fromCache
HitInv == \A i \in Items : Marked(hit[i])

\* The results a chunk has got in this call, by where it is.
FreshOf(c) ==
    /\ pc[c] \in {"waiting", "check", "batch"} => Chunk(c) \cap Fresh = {}
    /\ pc[c] = "store" => \A i \in Chunk(c) \cap Fresh : ~result[i].fromFallback
    /\ pc[c] \in {"single", "keep"} => \A i \in Chunk(c) \cap Fresh : result[i].fromFallback
    /\ \A i, j \in Chunk(c) \cap Fresh : result[i].fromFallback = result[j].fromFallback
FreshInv == \A c \in Chunks : FreshOf(c)

\* The items whose individual retry failed.
Lost == {i \in Fresh : result[i].fromFallback /\ ~result[i].success}
OInv == HitInv /\ FreshInv /\ FailedCount

\* Data is about an item with the text it is given for.
About(r, p) == r.success => Payload[r.data] = p
DataInv ==
    /\ DataByText
    /\ \A i \in Items : hit[i] # NoResult => About(hit[i], Payload[i])
    /\ \A p \in Payloads : cache[p] # NoEntry => About(cache[p], p)

(* A mapped reply is a result of this call, and not of the fallback.       *)
LEMMA MappedFlags ==
    ASSUME NEW U \in SUBSET Items, NEW i \in U, NEW reply \in Replies(U)
    PROVE  /\ ~Mapped(i, U, reply).fromCache /\ ~Mapped(i, U, reply).fromFallback
           /\ "list" \notin Formats => About(Mapped(i, U, reply), Payload[i])
<1>1. /\ ~Failed(i, FALSE).fromCache /\ ~Failed(i, FALSE).fromFallback
      /\ ~Failed(i, FALSE).success
      /\ \A j : ~Answer(i, j, FALSE).fromCache /\ ~Answer(i, j, FALSE).fromFallback
      /\ Answer(i, i, FALSE).data = i
    BY DEF Failed, Answer
<1>2. "list" \notin Formats => reply.format # "list"
    BY DEF Replies
<1>3. QED
    BY <1>1, <1>2 DEF Mapped, About

(* Where only one chunk moves, the results of the others stand.            *)
LEMMA FreshElsewhere ==
    ASSUME TypeOK, FreshInv, NEW c \in Chunks, NEW d \in Chunks, d # c,
           pc'[d] = pc[d], \A i \in Chunk(d) : result'[i] = result[i]
    PROVE  FreshOf(d)'
BY DEF FreshInv, FreshOf, Fresh, Settled, Chunk

(* A step that leaves the results alone.                                   *)
LEMMA QuietOInv ==
    ASSUME IInv, OInv, NEW c \in Chunks, result' = result, stats'.failed = stats.failed,
           \A i \in Items : Marked(hit'[i]),
           \A d \in Chunks : d # c => pc'[d] = pc[d],
           \/ pc'[c] = pc[c]
           \/ pc[c] = "waiting" /\ pc'[c] = "check"
           \/ pc[c] = "batch" /\ pc'[c] = "single"
           \/ pc[c] \in {"store", "keep"} /\ pc'[c] = "done"
           \/ pc[c] = "keep" /\ pc'[c] = "single"
    PROVE  OInv'
<1>1. HitInv'
    BY DEF HitInv, Marked
<1>2. Lost' = Lost /\ Fresh' = Fresh
    BY DEF Lost, Fresh, Settled
<1>3. FailedCount'
    BY <1>2 DEF OInv, FailedCount, Fresh, Settled
<1>4. FreshOf(c)'
    BY <1>2 DEF OInv, FreshInv, FreshOf
<1>5. FreshInv'
    BY <1>4, FreshElsewhere DEF OInv, IInv, FreshInv, Chunk
<1>6. QED
    BY <1>1, <1>3, <1>5 DEF OInv

LEMMA LookupOInv ==
    ASSUME IInv, OInv, NEW c \in Chunks, NEW i \in todo[c], Lookup(c, i)
    PROVE  OInv'
<1>1. i \in Items /\ hit' = [hit EXCEPT ![i] = Found(i)] /\ pc[c] = "check" /\ TypeOK
    BY DEF IInv, TypeOK, Lookup, Goto
<1>2. Marked(Found(i))
    <2>1. Payload[i] \in Payloads
        BY <1>1 DEF Payloads
    <2>2. cache[Payload[i]] # NoEntry => cache[Payload[i]] \in Result
        BY <1>1, <2>1 DEF TypeOK
    <2>3. QED
        BY <2>2 DEF Found, Marked, Result
<1>3. \A j \in Items : Marked(hit'[j])
    BY <1>1, <1>2 DEF OInv, HitInv, TypeOK
<1>4. CASE todo'[c] # {}
    BY <1>3, <1>4, QuietOInv DEF Lookup, Goto
<1>5. CASE todo'[c] = {}
    <2> DEFINE hits == {j \in Chunk(c) : hit'[j] # NoResult}
    <2>1. /\ result' = [j \in Items |-> IF j \in hits THEN hit'[j] ELSE result[j]]
          /\ stats' = [stats EXCEPT !.fromCache = @ + Cardinality(hits)]
          /\ \E x \in {"done", "batch"} : pc' = [pc EXCEPT ![c] = x]
        BY <1>5 DEF Lookup, Goto
    <2>2. hits \subseteq Chunk(c) /\ (\A j \in hits : Marked(hit'[j]) /\ hit'[j] # NoResult)
          /\ Chunk(c) \subseteq Items
        BY <1>3 DEF Chunk
    <2>3. \A j \in Chunk(c) : result[j] = NoResult
        BY <1>1 DEF IInv, LoopInv, LoopInvOf
    <2>4. stats'.failed = stats.failed
        BY <1>1, <2>1 DEF TypeOK
    <2> HIDE DEF hits
    <2>5. Fresh' = Fresh /\ \A j \in Fresh : result'[j] = result[j]
        BY <2>1, <2>2, <2>3 DEF Fresh, Settled, Marked
    <2>6. FailedCount'
        BY <2>4, <2>5 DEF OInv, FailedCount
    <2>7. Chunk(c) \cap Fresh' = {}
        BY <2>3, <2>5 DEF Fresh, Settled
    <2>8. FreshOf(c)'
        BY <1>1, <2>1, <2>7 DEF FreshOf, TypeOK, Chunk
    <2>9. ASSUME NEW d \in Chunks, d # c PROVE FreshOf(d)'
        <3>1. \A j \in Chunk(d) : result'[j] = result[j]
            BY <2>1, <2>2, <2>9, ChunksDisjoint DEF Chunk
        <3>2. QED
            BY <1>1, <2>1, <2>9, <3>1, FreshElsewhere DEF OInv, TypeOK
    <2>10. FreshInv' /\ HitInv'
        BY <1>3, <2>8, <2>9 DEF FreshInv, HitInv, Marked
    <2>11. QED
        BY <2>6, <2>10 DEF OInv
<1>6. QED
    BY <1>4, <1>5

LEMMA BatchAnsweredOInv ==
    ASSUME IInv, OInv, NEW c \in Chunks, NEW reply \in Replies(uncached[c]),
           BatchAnswered(c, reply)
    PROVE  OInv'
<1>1. /\ TypeOK /\ LoopInvOf(c) /\ pc[c] = "batch" /\ uncached[c] \in SUBSET Items
      /\ result' = [i \in Items |-> IF i \in uncached[c]
                                    THEN Mapped(i, uncached[c], reply) ELSE result[i]]
      /\ pc' = [pc EXCEPT ![c] = "store"] /\ hit' = hit
    BY DEF BatchAnswered, IInv, TypeOK, LoopInv
<1>2. stats'.failed = stats.failed
    BY DEF BatchAnswered, IInv, TypeOK
<1>3. \A i \in uncached[c] :
        /\ result[i] = NoResult /\ result'[i] \in Result
        /\ ~result'[i].fromCache /\ ~result'[i].fromFallback
    BY <1>1, MappedType, MappedFlags DEF LoopInvOf
<1>4. \A i \in Items \ uncached[c] : result'[i] = result[i]
    BY <1>1
<1>5. Lost' = Lost
    BY <1>1, <1>3, <1>4 DEF Lost, Fresh, Settled
<1>6. FailedCount'
    BY <1>2, <1>5 DEF OInv, FailedCount, Lost
<1>7. FreshOf(c)'
    <2>1. \A i \in Chunk(c) \cap Fresh' : i \in uncached[c]
        BY <1>1, <1>4 DEF OInv, FreshInv, FreshOf, Fresh, Settled
    <2>2. \A i \in Chunk(c) \cap Fresh' : result'[i].fromFallback = FALSE
        <3>1. \A i \in uncached[c] : result'[i].fromFallback = FALSE
            BY <1>3 DEF Result
        <3>2. QED
            BY <2>1, <3>1
    <2>3. pc'[c] = "store"
        BY <1>1 DEF TypeOK
    <2>4. QED
        BY <2>2, <2>3 DEF FreshOf, Chunk
<1>8. ASSUME NEW d \in Chunks, d # c PROVE FreshOf(d)'
    <2>1. \A j \in Chunk(d) : result'[j] = result[j]
        BY <1>1, <1>4, <1>8, ChunksDisjoint DEF LoopInvOf, Chunk
    <2>2. QED
        BY <1>1, <1>8, <2>1, FreshElsewhere DEF OInv, TypeOK
<1>9. FreshInv' /\ HitInv'
    BY <1>1, <1>7, <1>8 DEF OInv, FreshInv, HitInv, Marked
<1>10. QED
    BY <1>6, <1>9 DEF OInv

(* An individual item gets result r, a failure or an answer.               *)
LEMMA SingleOInv ==
    ASSUME IInv, OInv, NEW c \in Chunks, NEW i \in todo[c], pc[c] = "single",
           NEW r \in Result, r.id = i, r.fromCache = FALSE, r.fromFallback = TRUE,
           result' = [result EXCEPT ![i] = r], hit' = hit,
           stats'.failed = stats.failed + (IF r.success THEN 0 ELSE 1),
           \E x \in {"single", "keep", "done"} : pc' = [pc EXCEPT ![c] = x]
    PROVE  OInv'
<1>1. TypeOK /\ LoopInvOf(c) /\ i \in Items /\ i \in Chunk(c) /\ result[i] = NoResult
    BY DEF IInv, TypeOK, LoopInv, LoopInvOf
<1>2. /\ result'[i] = r /\ r # NoResult
      /\ \A j \in Items : j # i => result'[j] = result[j]
    BY SingleSettles
<1>3. i \notin Lost /\ Lost \in SUBSET Items /\ IsFiniteSet(Lost) /\ Cardinality(Lost) \in Nat
    BY <1>1, ItemSets DEF Lost, Fresh, Settled
<1>4. FailedCount'
    <2>1. CASE r.success
        <3>1. Lost' = Lost
            BY <1>1, <1>2, <2>1 DEF Lost, Fresh, Settled
        <3>2. stats.failed \in Nat
            BY <1>1 DEF TypeOK
        <3>3. stats'.failed = stats.failed
            BY <2>1, <3>2
        <3>4. QED
            BY <3>1, <3>3 DEF OInv, FailedCount, Lost
    <2>2. CASE ~r.success
        <3>1. Lost' = Lost \cup {i}
            BY <1>1, <1>2, <2>2 DEF Lost, Fresh, Settled
        <3>2. Cardinality(Lost \cup {i}) = Cardinality(Lost) + 1
            BY <1>3, FS_AddElement
        <3>3. QED
            BY <2>2, <3>1, <3>2 DEF OInv, FailedCount, Lost
    <2>3. QED
        BY <2>1, <2>2
<1>5. FreshOf(c)'
    <2>1. \A j \in Chunk(c) \cap Fresh' : result'[j].fromFallback
        BY <1>1, <1>2 DEF OInv, FreshInv, FreshOf, Fresh, Settled
    <2>2. \A j \in Chunk(c) \cap Fresh' : result'[j].fromFallback = TRUE
        <3>1. \A j \in Fresh' : result'[j] \in Result
            BY <1>1, <1>2 DEF Fresh, Settled, TypeOK
        <3>2. QED
            BY <2>1, <3>1 DEF Result
    <2>3. pc'[c] \in {"single", "keep", "done"}
        BY <1>1 DEF TypeOK
    <2>4. QED
        BY <2>2, <2>3 DEF FreshOf, Chunk
<1>6. ASSUME NEW d \in Chunks, d # c PROVE FreshOf(d)'
    <2>1. \A j \in Chunk(d) : result'[j] = result[j]
        BY <1>1, <1>2, <1>6, ChunksDisjoint DEF Chunk
    <2>2. QED
        BY <1>1, <1>6, <2>1, FreshElsewhere DEF OInv, TypeOK
<1>7. FreshInv' /\ HitInv'
    BY <1>5, <1>6 DEF OInv, FreshInv, HitInv, Marked
<1>8. QED
    BY <1>4, <1>7 DEF OInv

LEMMA StartOInv ==
    ASSUME result = Start.result, hit = Start.hit, stats = Start.stats, pc = Start.pc
    PROVE  OInv
<1>1. /\ \A i \in Items : result[i] = NoResult /\ hit[i] = NoResult
      /\ stats.failed = 0 /\ Fresh = {}
    BY DEF Start, Fresh, Settled
<1>2. FailedCount
    <2>1. Lost = {} /\ Cardinality({}) = 0
        BY <1>1, FS_EmptySet DEF Lost
    <2>2. QED
        BY <1>1, <2>1 DEF FailedCount, Lost
<1>3. QED
    BY <1>1, <1>2 DEF OInv, HitInv, Marked, FreshInv, FreshOf

LEMMA StepOInv == IInv /\ OInv /\ [Next]_vars => OInv'
<1> SUFFICES ASSUME IInv, OInv, [Next]_vars PROVE OInv'
    OBVIOUS
<1>0. TypeOK /\ HitInv
    BY DEF IInv, OInv
<1>1. ASSUME NEW c \in Chunks, ChunkStep(c) PROVE OInv'
    <2>1. CASE Acquire(c) \/ RetryCall(c)
        BY <1>0, <2>1, QuietOInv DEF Acquire, RetryCall, HitInv, TypeOK
    <2>2. CASE BatchFails(c) \/ BatchUnusable(c)
        <3>1. stats'.failed = stats.failed
            BY <1>0, <2>2 DEF BatchFails, BatchUnusable, FallBack, TypeOK
        <3>2. QED
            BY <1>0, <2>2, <3>1, QuietOInv DEF BatchFails, BatchUnusable, FallBack, HitInv, TypeOK
    <2>3. CASE \E i \in todo[c] : Store(c, i) \/ Keep(c, i)
        BY <1>0, <2>3, QuietOInv DEF Store, Goto, Keep, NextSingle, HitInv, TypeOK
    <2>4. CASE \E i \in todo[c] : Lookup(c, i)
        BY <2>4, LookupOInv
    <2>5. CASE \E reply \in Replies(uncached[c]) : BatchAnswered(c, reply)
        BY <2>5, BatchAnsweredOInv
    <2>6. ASSUME NEW i \in todo[c], SingleLost(c, i) PROVE OInv'
        <3> DEFINE r == Failed(i, TRUE)
        <3>1. r \in Result /\ r.id = i /\ ~r.success /\ r.fromCache = FALSE /\ r.fromFallback = TRUE
            BY <1>0, ResultTypes DEF Failed, TypeOK
        <3>2. /\ pc[c] = "single" /\ hit' = hit /\ result' = [result EXCEPT ![i] = r]
              /\ \E x \in {"single", "keep", "done"} : pc' = [pc EXCEPT ![c] = x]
            BY <2>6 DEF SingleLost, NextSingle, Goto
        <3>3. stats'.failed = stats.failed + 1
            BY <1>0, <2>6 DEF SingleLost, TypeOK
        <3> HIDE DEF r
        <3>4. QED
            BY <3>1, <3>2, <3>3, SingleOInv
    <2>7. ASSUME NEW i \in todo[c], SingleAnswered(c, i) PROVE OInv'
        <3> DEFINE r == Answer(i, i, TRUE)
        <3>1. r \in Result /\ r.id = i /\ r.success /\ r.fromCache = FALSE /\ r.fromFallback = TRUE
            BY <1>0, ResultTypes DEF Answer, TypeOK
        <3>2. /\ pc[c] = "single" /\ hit' = hit /\ result' = [result EXCEPT ![i] = r]
              /\ \E x \in {"single", "keep", "done"} : pc' = [pc EXCEPT ![c] = x]
            BY <2>7 DEF SingleAnswered
        <3>3. stats'.failed = stats.failed + 0
            BY <1>0, <2>7 DEF SingleAnswered, TypeOK
        <3> HIDE DEF r
        <3>4. QED
            BY <3>1, <3>2, <3>3, SingleOInv
    <2>8. QED
        BY <1>1, <2>1, <2>2, <2>3, <2>4, <2>5, <2>6, <2>7
        DEF ChunkStep, SingleFails, SingleUnusable
<1>2. CASE NewRun
    <2>1. (result = Start.result /\ hit = Start.hit /\ stats = Start.stats /\ pc = Start.pc)'
        BY <1>2 DEF NewRun, Start
    <2>2. QED
        BY <2>1, StartOInv, PTL
<1>3. CASE (\E p \in Payloads : Expire(p)) \/ UNCHANGED vars
    <2>1. UNCHANGED <<pc, hit, result, stats>>
        BY <1>3 DEF Expire, vars
    <2>2. QED
        BY <2>1 DEF OInv, HitInv, Marked, FreshInv, FreshOf, FailedCount, Fresh, Settled, Chunk
<1>4. QED
    BY <1>1, <1>2, <1>3 DEF Next

LEMMA InvOInv == Spec => []OInv
<1>1. Init => OInv
    BY StartOInv DEF Init
<1>2. QED
    BY <1>1, InitIInv, StepIInv, StepOInv, PTL DEF Spec

(* BatchStats.failed counts the items whose individual retry failed, and   *)
(* neither an answered item nor a stored failure that the cache gave back. *)
THEOREM FailuresCounted == Spec => []FailedCount
<1>1. OInv => FailedCount
    BY DEF OInv
<1>2. QED
    BY <1>1, InvOInv, PTL

(* A chunk takes what it asked for from the batch reply, or all of it from *)
(* the individual retries: the loops of _process_chunk never mix the two.  *)
THEOREM WholeBatches == Spec => []AllOrNothing
<1>1. OInv => AllOrNothing
    BY DEF OInv, FreshInv, FreshOf, AllOrNothing
<1>2. QED
    BY <1>1, InvOInv, PTL

(* Data that is given for an item, through the cache of several calls too. *)
LEMMA StepDataInv ==
    ASSUME "list" \notin Formats, IInv, DataInv, [Next]_vars
    PROVE  DataInv'
<1>0. TypeOK /\ LoopInv
    BY DEF IInv
<1>1. ASSUME NEW i \in Items, result[i] # NoResult, Put(i)
      PROVE  \A p \in Payloads : cache'[p] # NoEntry => About(cache'[p], p)
    BY <1>0, <1>1 DEF Put, TypeOK, DataInv, DataByText, About, Settled
<1>2. ASSUME \A i \in Items : result'[i] = result[i] \/ About(result'[i], Payload[i]),
             hit' = hit, cache' = cache
      PROVE  DataInv'
    <2>1. \A i \in Items : result'[i] # NoResult => About(result'[i], Payload[i])
        BY <1>2 DEF DataInv, DataByText, About, Settled
    <2>2. DataByText'
        BY <2>1 DEF DataByText, About, Settled
    <2>3. QED
        BY <1>2, <2>2 DEF DataInv, About
<1>3. ASSUME hit' = hit, result' = result,
             \A p \in Payloads : cache'[p] # NoEntry => About(cache'[p], p)
      PROVE  DataInv'
    BY <1>3 DEF DataInv, DataByText, Settled, About
<1>4. ASSUME NEW c \in Chunks, NEW i \in todo[c], Lookup(c, i) PROVE DataInv'
    <2>1. i \in Items /\ hit' = [hit EXCEPT ![i] = Found(i)] /\ cache' = cache
        BY <1>0, <1>4 DEF Lookup, Goto, TypeOK
    <2>2. Found(i) # NoResult => About(Found(i), Payload[i])
        <3>1. Payload[i] \in Payloads
            BY <2>1 DEF Payloads
        <3>2. cache[Payload[i]] # NoEntry => cache[Payload[i]] \in Result
            BY <1>0, <3>1 DEF TypeOK
        <3>3. QED
            BY <3>1, <3>2 DEF Found, DataInv, About, Result
    <2>3. \A j \in Items : hit'[j] # NoResult => About(hit'[j], Payload[j])
        BY <1>0, <2>1, <2>2 DEF DataInv, TypeOK
    <2>4. \A j \in Items : result'[j] = result[j] \/ (result'[j] = hit'[j] /\ hit'[j] # NoResult)
        <3>1. CASE todo'[c] # {}
            BY <1>4, <3>1 DEF Lookup, Goto
        <3>2. CASE todo'[c] = {}
            BY <1>4, <3>2 DEF Lookup, Goto
        <3>3. QED
            BY <3>1, <3>2
    <2>5. DataByText'
        BY <2>3, <2>4 DEF DataInv, DataByText, Settled, About
    <2>6. QED
        BY <2>1, <2>3, <2>5 DEF DataInv, About
<1>5. ASSUME NEW c \in Chunks, NEW reply \in Replies(uncached[c]), BatchAnswered(c, reply)
      PROVE  DataInv'
    <2>1. \A i \in Items : result'[i] = result[i] \/ About(result'[i], Payload[i])
        BY <1>0, <1>5, MappedFlags DEF BatchAnswered, TypeOK
    <2>2. QED
        BY <1>2, <1>5, <2>1 DEF BatchAnswered
<1>6. ASSUME NEW c \in Chunks, NEW i \in todo[c], SingleLost(c, i) \/ SingleAnswered(c, i)
      PROVE  DataInv'
    <2>1. i \in Items
        BY <1>0 DEF TypeOK
    <2>2. About(Failed(i, TRUE), Payload[i]) /\ About(Answer(i, i, TRUE), Payload[i])
        BY DEF About, Failed, Answer
    <2>3. \A j \in Items : result'[j] = result[j] \/ About(result'[j], Payload[j])
        BY <1>0, <1>6, <2>2 DEF SingleLost, SingleAnswered, TypeOK
    <2>4. QED
        BY <1>2, <1>6, <2>3 DEF SingleLost, SingleAnswered
<1>7. ASSUME NEW c \in Chunks, NEW i \in todo[c], Store(c, i) \/ Keep(c, i)
      PROVE  DataInv'
    <2>1. i \in Items /\ result[i] # NoResult /\ Put(i)
        BY <1>0, <1>7 DEF Store, Goto, Keep, TypeOK, LoopInv, LoopInvOf
    <2>2. QED
        BY <1>1, <1>3, <1>7, <2>1 DEF Store, Goto, Keep
<1>8. ASSUME NEW c \in Chunks, ChunkStep(c) PROVE DataInv'
    <2>1. CASE Acquire(c) \/ RetryCall(c) \/ BatchFails(c) \/ BatchUnusable(c)
        BY <1>2, <2>1 DEF Acquire, RetryCall, BatchFails, BatchUnusable, FallBack
    <2>2. QED
        BY <1>4, <1>5, <1>6, <1>7, <1>8, <2>1 DEF ChunkStep, SingleFails, SingleUnusable
<1>9. CASE \E p \in Payloads : Expire(p)
    <2>1. hit' = hit /\ result' = result
        BY <1>9 DEF Expire
    <2>2. \A p \in Payloads : cache'[p] # NoEntry => About(cache'[p], p)
        BY <1>0, <1>9 DEF Expire, DataInv, TypeOK
    <2>3. QED
        BY <1>3, <2>1, <2>2
<1>10. CASE NewRun
    <2>1. (\A i \in Items : result'[i] = NoResult /\ hit'[i] = NoResult) /\ cache' = cache
        BY <1>10 DEF NewRun, Start
    <2>2. QED
        BY <2>1 DEF DataInv, DataByText, Settled, About
<1>11. CASE UNCHANGED vars
    BY <1>2, <1>11 DEF vars
<1>12. QED
    BY <1>8, <1>9, <1>10, <1>11 DEF Next

(* Where the replies name the items they speak of, the data of a result is *)
(* about an item with the same text, for what comes from the cache too.    *)
(* (A list without sent_id is read by position: there it does not hold.)   *)
THEOREM DataMatchesText ==
    ASSUME "list" \notin Formats
    PROVE  Spec => []DataByText
<1>1. Init => DataInv
    BY DEF Init, Start, DataInv, DataByText, Settled
<1>2. IInv /\ DataInv /\ [Next]_vars => DataInv'
    BY StepDataInv
<1>3. DataInv => DataByText
    BY DEF DataInv
<1>4. QED
    BY <1>1, <1>2, <1>3, InitIInv, StepIInv, PTL DEF Spec
=============================================================================
