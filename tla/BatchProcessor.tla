--------------------------- MODULE BatchProcessor ---------------------------
(***************************************************************************)
(* BatchProcessor.process (infrastructure/ai/batch.py) over a CacheBackend *)
(* (infrastructure/cache): a list of items is cut into chunks, a semaphore *)
(* lets MaxWorkers chunk coroutines run at a time, and each of them        *)
(*   1. looks every item up in the cache,                                  *)
(*   2. sends the items it did not find to the AI client in one prompt,    *)
(*      retrying a failed call,                                            *)
(*   3. retries the items one by one when the batch is of no use.          *)
(* One action runs from one `await' of the code to the next.  The cache    *)
(* outlives a call of process(): NewRun starts another one on the same     *)
(* items, after the last one returned or after the process was killed.     *)
(***************************************************************************)
EXTENDS Integers, FiniteSets, Sequences

CONSTANTS
    N,              \* items 1..N are handed to process()
    BatchSize,      \* items per chunk
    MaxWorkers,     \* permits of the semaphore
    MaxRetries,     \* client calls per message
    Payload,        \* Payload[i]: the text of item i, which is all its cache key holds
    Formats,        \* reply formats the AI backend uses: "results", "list", "other"
    CacheKeeps,     \* can the backend store a BatchResult?  The shipped ones cannot
    MaxRuns,        \* bound: calls of process()
    NoResult, NoEntry, NoData

Items == 1..N

ASSUME BatchAssumption ==
    /\ N \in Nat /\ BatchSize \in Nat \ {0}
    /\ MaxWorkers \in Nat \ {0} /\ MaxRetries \in Nat \ {0}
    /\ MaxRuns \in Nat \ {0}
    /\ DOMAIN Payload = Items
    /\ Formats \subseteq {"results", "list", "other"}
    /\ CacheKeeps \in BOOLEAN
    /\ NoData \notin Items

Payloads == {Payload[i] : i \in Items}

\* A BatchResult: whose it is, its verdict, the item its parsed data is about
\* and the two flags that tell how it was obtained.
Result == [id : Items, success : BOOLEAN, data : Items \cup {NoData},
           fromCache : BOOLEAN, fromFallback : BOOLEAN]

ASSUME BatchNullAssumption == NoResult \notin Result /\ NoEntry \notin Result

Chunks == 1..((N + BatchSize - 1) \div BatchSize)
Chunk(c) == {i \in Items : (i - 1) \div BatchSize = c - 1}

VARIABLES
    run,        \* which call of process() this is
    permits,    \* of the semaphore, not taken
    pc,         \* where the coroutine of each chunk is
    todo,       \* items the loop it is in has still to visit
    uncached,   \* items its cache check did not find
    hit,        \* cache_results of the check in progress
    tries,      \* client calls made for the message it is waiting on
    result,     \* the BatchResult of each item
    stats,      \* the BatchStats shared by all chunks
    cache       \* what the backend holds under each payload's key

vars == <<run, permits, pc, todo, uncached, hit, tries, result, stats, cache>>

Stages == {"waiting", "check", "batch", "store", "single", "keep", "done"}

TypeOK ==
    /\ run \in 1..MaxRuns
    /\ permits \in Nat
    /\ pc \in [Chunks -> Stages]
    /\ todo \in [Chunks -> SUBSET Items]
    /\ uncached \in [Chunks -> SUBSET Items]
    /\ hit \in [Items -> Result \cup {NoResult}]
    /\ tries \in [Chunks -> 0..MaxRetries - 1]
    /\ result \in [Items -> Result \cup {NoResult}]
    /\ stats \in [success : Nat, failed : Nat, fromCache : Nat, fallback : Nat]
    /\ cache \in [Payloads -> Result \cup {NoEntry}]

\* The local state of a call that has just begun.
Start ==
    [permits |-> MaxWorkers,
     pc |-> [c \in Chunks |-> "waiting"], todo |-> [c \in Chunks |-> {}],
     uncached |-> [c \in Chunks |-> {}], tries |-> [c \in Chunks |-> 0],
     hit |-> [i \in Items |-> NoResult], result |-> [i \in Items |-> NoResult],
     stats |-> [success |-> 0, failed |-> 0, fromCache |-> 0, fallback |-> 0]]

Init ==
    /\ run = 1
    /\ cache = [p \in Payloads |-> NoEntry]
    /\ permits = Start.permits
    /\ pc = Start.pc /\ todo = Start.todo /\ uncached = Start.uncached
    /\ tries = Start.tries /\ hit = Start.hit
    /\ result = Start.result /\ stats = Start.stats

-----------------------------------------------------------------------------
Working == {"check", "batch", "store", "single", "keep"}
Active == {c \in Chunks : pc[c] \in Working}
Settled == {i \in Items : result[i] # NoResult}
Returned == \A c \in Chunks : pc[c] = "done"

\* The loops of the code visit the items of a chunk in list order.
First(i, S) == i \in S /\ \A j \in S : i <= j

\* Mutant: one way to report a failure, whichever loop it happened in.
FailedAnywhere(i, fallback) ==
    [id |-> i, success |-> FALSE, data |-> NoData,
     fromCache |-> FALSE, fromFallback |-> TRUE]

Failed(i, fallback) ==
    [id |-> i, success |-> FALSE, data |-> NoData,
     fromCache |-> FALSE, fromFallback |-> fallback]
Answer(i, about, fallback) ==
    [id |-> i, success |-> TRUE, data |-> about,
     fromCache |-> FALSE, fromFallback |-> fallback]

-----------------------------------------------------------------------------
(* `async with semaphore': coroutines get a permit in the order they asked *)
(* for it, and give it back when they return.                              *)
Acquire(c) ==
    /\ pc[c] = "waiting"
    /\ \A d \in Chunks : d < c => pc[d] # "waiting"
    /\ permits > 0
    /\ permits' = permits - 1
    /\ pc' = [pc EXCEPT ![c] = "check"]
    /\ todo' = [todo EXCEPT ![c] = Chunk(c)]
    /\ UNCHANGED <<run, uncached, hit, tries, result, stats, cache>>

Goto(c, stage) ==
    /\ pc' = [pc EXCEPT ![c] = stage]
    /\ permits' = IF stage = "done" THEN permits + 1 ELSE permits

(* _check_cache, one cache.get: a hit is the stored result as it is, item  *)
(* id included, with from_cache set.  After the last item the hits become  *)
(* results, and a chunk with nothing left to ask for returns.              *)
Found(i) ==
    IF cache[Payload[i]] = NoEntry THEN NoResult
    ELSE [cache[Payload[i]] EXCEPT !.fromCache = TRUE]

Lookup(c, i) ==
    LET hits   == {j \in Chunk(c) : hit'[j] # NoResult}
        misses == Chunk(c) \ hits
    IN  /\ pc[c] = "check" /\ First(i, todo[c])
        /\ hit' = [hit EXCEPT ![i] = Found(i)]
        /\ todo' = [todo EXCEPT ![c] = @ \ {i}]
        /\ IF todo'[c] # {}
           THEN UNCHANGED <<permits, pc, uncached, result, stats>>
           ELSE /\ uncached' = [uncached EXCEPT ![c] = misses]
                /\ result' = [j \in Items |-> IF j \in hits THEN hit'[j]
                                              ELSE result[j]]
                /\ stats' = [stats EXCEPT !.fromCache = @ + Cardinality(hits)]
                /\ Goto(c, IF misses = {} THEN "done" ELSE "batch")
        /\ UNCHANGED <<run, tries, cache>>

-----------------------------------------------------------------------------
\* Mutants: one attempt too many; attempts without an end.
RetryOnceMore(c) ==
    /\ pc[c] \in {"batch", "single"}
    /\ tries[c] < MaxRetries
    /\ tries' = [tries EXCEPT ![c] = @ + 1]
    /\ UNCHANGED <<run, permits, pc, todo, uncached, hit, result, stats, cache>>
RetryForever(c) ==
    /\ pc[c] \in {"batch", "single"}
    /\ tries' = [tries EXCEPT ![c] = (@ + 1) % MaxRetries]
    /\ UNCHANGED <<run, permits, pc, todo, uncached, hit, result, stats, cache>>

(* _complete_with_retry: a call that fails or raises is repeated, after a  *)
(* wait, while attempts are left.                                          *)
RetryCall(c) ==
    /\ pc[c] \in {"batch", "single"}
    /\ tries[c] < MaxRetries - 1
    /\ tries' = [tries EXCEPT ![c] = @ + 1]
    /\ UNCHANGED <<run, permits, pc, todo, uncached, hit, result, stats, cache>>

LastTry(c) == tries[c] = MaxRetries - 1

\* Mutant: the whole chunk is asked for again, found items included.
FallBackWholeChunk(c) ==
    /\ pc[c] = "batch"
    /\ pc' = [pc EXCEPT ![c] = "single"]
    /\ todo' = [todo EXCEPT ![c] = Chunk(c)]
    /\ tries' = [tries EXCEPT ![c] = 0]
    /\ stats' = [stats EXCEPT !.fallback = @ + Cardinality(Chunk(c))]
    /\ UNCHANGED <<run, permits, uncached, hit, result, cache>>

\* Mutant: the permit is given back for the individual calls to come.
FallBackReleases(c) ==
    /\ pc[c] = "batch"
    /\ pc' = [pc EXCEPT ![c] = "single"]
    /\ permits' = permits + 1
    /\ todo' = [todo EXCEPT ![c] = uncached[c]]
    /\ tries' = [tries EXCEPT ![c] = 0]
    /\ stats' = [stats EXCEPT !.fallback = @ + Cardinality(uncached[c])]
    /\ UNCHANGED <<run, uncached, hit, result, cache>>

(* The batch is of no use: every call failed, the reply is empty or cannot *)
(* be recovered as JSON, or mapping it raises (entries that are no dicts). *)
(* All its items are now asked for one by one.                             *)
FallBack(c) ==
    /\ pc[c] = "batch"
    /\ pc' = [pc EXCEPT ![c] = "single"]
    /\ todo' = [todo EXCEPT ![c] = uncached[c]]
    /\ tries' = [tries EXCEPT ![c] = 0]
    /\ stats' = [stats EXCEPT !.fallback = @ + Cardinality(uncached[c])]
    /\ UNCHANGED <<run, permits, uncached, hit, result, cache>>

BatchFails(c) == LastTry(c) /\ FallBack(c)
BatchUnusable(c) == FallBack(c)

(* What a usable reply to a prompt for the items of U may hold: a dict     *)
(* with "results" for some of them, a list of entries, each about one item *)
(* and labelled with its sent_id or not, or a dict of any other shape.     *)
Entries(U) == [about : U, labelled : BOOLEAN]
Replies(U) ==
    {r \in [format : {"results"}, ids : SUBSET U] : r.format \in Formats}
    \cup {r \in [format : {"list"},
                 entries : UNION {[1..n -> Entries(U)] : n \in 1..Cardinality(U)}] :
            r.format \in Formats}
    \cup {r \in [format : {"other"}] : r.format \in Formats}

\* items.index(item), from 1
Position(i, U) == Cardinality({j \in U : j <= i})

\* The reply names item i by its sent_id.
Names(reply, i) ==
    \/ reply.format = "results" /\ i \in reply.ids
    \/ /\ reply.format = "list"
       /\ \E k \in DOMAIN reply.entries :
              reply.entries[k].labelled /\ reply.entries[k].about = i

\* Mutant: the n-th entry of "results" is taken for the n-th item.
MappedInOrder(i, U, reply) ==
    IF reply.format = "results"
    THEN IF \E j \in reply.ids : Position(j, reply.ids) = Position(i, U)
         THEN Answer(i, CHOOSE j \in reply.ids :
                            Position(j, reply.ids) = Position(i, U), FALSE)
         ELSE Failed(i, FALSE)
    ELSE Failed(i, FALSE)

(* _map_batch_response: by sent_id, and in a list without it by position.  *)
Mapped(i, U, reply) ==
    IF Names(reply, i) THEN Answer(i, i, FALSE)
    ELSE IF reply.format = "list" /\ Position(i, U) \in DOMAIN reply.entries
    THEN Answer(i, reply.entries[Position(i, U)].about, FALSE)
    ELSE Failed(i, FALSE)

(* A usable reply: every item gets its result, each counted a success,     *)
(* and all of them go on to be stored.                                     *)
BatchAnswered(c, reply) ==
    /\ pc[c] = "batch"
    /\ result' = [i \in Items |-> IF i \in uncached[c]
                                  THEN Mapped(i, uncached[c], reply)
                                  ELSE result[i]]
    /\ stats' = [stats EXCEPT !.success = @ + Cardinality(uncached[c])]
    /\ pc' = [pc EXCEPT ![c] = "store"]
    /\ todo' = [todo EXCEPT ![c] = uncached[c]]
    /\ tries' = [tries EXCEPT ![c] = 0]
    /\ UNCHANGED <<run, permits, uncached, hit, cache>>

\* Mutant: the key leaves the text of the item out.
PutUnderSharedKey(i) ==
    cache' = IF CacheKeeps THEN [p \in Payloads |-> result[i]] ELSE cache

(* CacheBackend.set.  The shipped backends serialise with json.dumps,      *)
(* which refuses a BatchResult; set() swallows the error.                  *)
Put(i) ==
    cache' = IF CacheKeeps THEN [cache EXCEPT ![Payload[i]] = result[i]] ELSE cache

Store(c, i) ==
    /\ pc[c] = "store" /\ First(i, todo[c])
    /\ Put(i)
    /\ todo' = [todo EXCEPT ![c] = @ \ {i}]
    /\ Goto(c, IF todo'[c] = {} THEN "done" ELSE "store")
    /\ UNCHANGED <<run, uncached, hit, tries, result, stats>>

-----------------------------------------------------------------------------
(* _fallback_individual, one item after the other.                         *)
NextSingle(c, i) ==
    /\ todo' = [todo EXCEPT ![c] = @ \ {i}]
    /\ Goto(c, IF todo'[c] = {} THEN "done" ELSE "single")

\* No call succeeded, or the reply is empty or cannot be recovered.
SingleLost(c, i) ==
    /\ pc[c] = "single" /\ First(i, todo[c])
    /\ result' = [result EXCEPT ![i] = Failed(i, TRUE)]
    /\ stats' = [stats EXCEPT !.failed = @ + 1]
    /\ tries' = [tries EXCEPT ![c] = 0]
    /\ NextSingle(c, i)
    /\ UNCHANGED <<run, uncached, hit, cache>>

SingleFails(c, i) == LastTry(c) /\ SingleLost(c, i)
SingleUnusable(c, i) == SingleLost(c, i)

SingleAnswered(c, i) ==
    /\ pc[c] = "single" /\ First(i, todo[c])
    /\ result' = [result EXCEPT ![i] = Answer(i, i, TRUE)]
    /\ stats' = [stats EXCEPT !.success = @ + 1]
    /\ tries' = [tries EXCEPT ![c] = 0]
    /\ pc' = [pc EXCEPT ![c] = "keep"]
    /\ UNCHANGED <<run, permits, todo, uncached, hit, cache>>

Keep(c, i) ==
    /\ pc[c] = "keep" /\ First(i, todo[c])
    /\ Put(i)
    /\ NextSingle(c, i)
    /\ UNCHANGED <<run, uncached, hit, tries, result, stats>>

-----------------------------------------------------------------------------
(* The entry's time to live (86400 s) is over.                             *)
Expire(p) ==
    /\ cache[p] # NoEntry
    /\ cache' = [cache EXCEPT ![p] = NoEntry]
    /\ UNCHANGED <<run, permits, pc, todo, uncached, hit, tries, result, stats>>

(* The next call of process(), at any time: the one before it has returned *)
(* or its process was killed between two awaits.                           *)
NewRun ==
    /\ run < MaxRuns
    /\ run' = run + 1
    /\ permits' = Start.permits
    /\ pc' = Start.pc /\ todo' = Start.todo /\ uncached' = Start.uncached
    /\ tries' = Start.tries /\ hit' = Start.hit
    /\ result' = Start.result /\ stats' = Start.stats
    /\ UNCHANGED cache

ChunkStep(c) ==
    \/ Acquire(c)
    \/ \E i \in todo[c] : Lookup(c, i)
    \/ RetryCall(c)
    \/ BatchFails(c)
    \/ BatchUnusable(c)
    \/ \E reply \in Replies(uncached[c]) : BatchAnswered(c, reply)
    \/ \E i \in todo[c] : Store(c, i)
    \/ \E i \in todo[c] : SingleFails(c, i)
    \/ \E i \in todo[c] : SingleUnusable(c, i)
    \/ \E i \in todo[c] : SingleAnswered(c, i)
    \/ \E i \in todo[c] : Keep(c, i)

Next ==
    \/ \E c \in Chunks : ChunkStep(c)
    \/ \E p \in Payloads : Expire(p)
    \/ NewRun

(* Every await of a chunk ends: client calls have a timeout, waits and     *)
(* file accesses finish.  Nothing obliges a caller to start another run.   *)
Fairness == \A c \in Chunks : WF_vars(ChunkStep(c))

Spec == Init /\ [][Next]_vars /\ Fairness

-----------------------------------------------------------------------------
(* Never more chunk coroutines inside _process_chunk than max_workers: no  *)
(* way out of it, over a hit, a batch or the fallback, gives back a permit *)
(* twice, or one that the chunk goes on to use.                            *)
WorkersBounded == Cardinality(Active) <= MaxWorkers

(* The shared BatchStats account for every item once: at each await the    *)
(* three counters add up to the items that have a result, although chunks  *)
(* bump them at different points of their work.                            *)
Accounting ==
    stats.success + stats.failed + stats.fromCache = Cardinality(Settled)

Fresh == {i \in Settled : ~result[i].fromCache}

(* `failed' counts the items whose individual retry of this call failed,   *)
(* and no others.                                                          *)
FailedCount ==
    stats.failed = Cardinality({i \in Fresh : result[i].fromFallback
                                               /\ ~result[i].success})

(* A batch is used whole or not at all: the items a chunk had to ask for   *)
(* all got their results from the batch or all of them individually.       *)
AllOrNothing ==
    \A c \in Chunks : \A i, j \in Chunk(c) \cap Fresh :
        result[i].fromFallback = result[j].fromFallback

(* Where the loops stand: what each stage still has to do is without a     *)
(* result, what it has to store has one.                                   *)
LoopInvOf(c) ==
    /\ uncached[c] \subseteq Chunk(c) /\ todo[c] \subseteq Chunk(c)
    /\ pc[c] \in {"waiting", "check"} =>
            \A i \in Chunk(c) : result[i] = NoResult
    /\ pc[c] = "batch" => \A i \in uncached[c] : result[i] = NoResult
    /\ pc[c] = "store" => \A i \in todo[c] : result[i] # NoResult
    /\ pc[c] = "single" => \A i \in todo[c] : result[i] = NoResult
    /\ pc[c] = "keep" =>
            \A i \in todo[c] : result[i] # NoResult <=> First(i, todo[c])
LoopInv == \A c \in Chunks : LoopInvOf(c)

(* Through chunks, retries, fallback and a cache shared by several calls,  *)
(* an item only ever gets a result made for an item with the same text.    *)
ResultsByText == \A i \in Settled : Payload[result[i].id] = Payload[i]

(* The same of everything that can become a result, cached or just found.  *)
TextInv ==
    /\ ResultsByText
    /\ \A i \in Items : hit[i] # NoResult => Payload[hit[i].id] = Payload[i]
    /\ \A p \in Payloads : cache[p] # NoEntry => Payload[cache[p].id] = p

(* The inductive invariant of the proofs.                                  *)
IInv == TypeOK /\ LoopInv /\ TextInv

(* ... and data the model gave for such an item, as long as its replies    *)
(* name the items they speak of (no list replies).                         *)
DataByText ==
    \A i \in Settled : result[i].success => Payload[result[i].data] = Payload[i]

(* Every call that is not killed returns, also when every client call      *)
(* fails, and then every item has a result.                                *)
CallsReturn == <>[](Returned /\ Settled = Items)

(* What a caller of process() relies on.                                   *)
Contract == INSTANCE BatchContract
ImplementsContract == Contract!Spec
=============================================================================
