---------------------------- MODULE CacheBackend ----------------------------
(***************************************************************************)
(* The two implementations of CacheBackend: one JSON file per key          *)
(* (infrastructure/cache/disk.py) and a Redis server (redis.py), used by   *)
(* several coroutines and processes at once.  The disk backend works in    *)
(* worker threads: read, TTL check and unlink of a get, and the truncation *)
(* and the write of a set, are separate steps.  A command of Redis is one. *)
(* A call ends early when it raises or its process is killed.              *)
(***************************************************************************)
EXTENDS Integers

CONSTANTS
    Callers, Keys, Values,
    Ttls,           \* the ttl arguments of set: seconds, or Never for None
    DefaultTtl,     \* RedisCacheBackend's default_ttl
    MaxTime,        \* the clock's bound
    Nothing,        \* Python's None
    Never,          \* the expiry of a record without ttl
    Absent,         \* a path without file, a key the server does not have
    Empty,          \* a file that open(path, "w") truncated
    Garbled         \* a shorter record over a longer one: json.loads rejects it

Requests ==
    [op : {"get", "delete"}, key : Keys] \cup [op : {"clear"}]
        \cup [op : {"set"}, key : Keys, value : Values, ttl : Ttls]
Records == [value : Values, expires : Nat \cup {Never}]
Unreadable == {Absent, Empty, Garbled}

ASSUME CacheAssumption ==
    /\ Never \notin Nat /\ Ttls \subseteq Nat \cup {Never}
    /\ DefaultTtl \in Nat /\ MaxTime \in Nat
    /\ Nothing \notin Values \cup Requests
    /\ \A u \in Unreadable : u \notin Records
    /\ Empty # Garbled

VARIABLES
    backend,    \* which implementation the callers share
    now,        \* time.time()
    entry,      \* what is on file, or in the server, under each key
    call,       \* the request each caller waits for
    pc,         \* where its coroutine is
    since,      \* created_at of its record, taken before the file is opened
    linked,     \* its file is still the one the key's path names
    seen,       \* the record its get read
    answer,     \* what its get is about to return
    alone       \* no other call touched its key since it began

vars == <<backend, now, entry, call, pc, since, linked, seen, answer, alone>>

TypeOK ==
    /\ backend \in {"disk", "redis"} /\ now \in Nat
    /\ entry \in [Keys -> Records \cup Unreadable]
    /\ call \in [Callers -> Requests \cup {Nothing}]
    /\ pc \in [Callers -> {"idle", "get", "check", "unlink", "clear", "set", "write", "done"}]
    /\ since \in [Callers -> Nat] /\ linked \in [Callers -> BOOLEAN]
    /\ seen \in [Callers -> Records \cup {Nothing}]
    /\ answer \in [Callers -> Values \cup {Nothing}] /\ alone \in [Callers -> BOOLEAN]

Init ==
    /\ backend \in {"disk", "redis"} /\ now = 0
    /\ entry = [k \in Keys |-> Absent]
    /\ call = [p \in Callers |-> Nothing] /\ pc = [p \in Callers |-> "idle"]
    /\ since = [p \in Callers |-> 0] /\ linked = [p \in Callers |-> FALSE]
    /\ seen = [p \in Callers |-> Nothing] /\ answer = [p \in Callers |-> Nothing]
    /\ alone = [p \in Callers |-> FALSE]

Expiry(created, ttl) == IF ttl = Never THEN Never ELSE created + ttl

\* disk: not time.time() > created_at + ttl.  Redis drops a key when its time is up.
Live(r) ==
    \/ r.expires = Never
    \/ IF backend = "disk" THEN now <= r.expires ELSE now < r.expires

\* The calls under way that work on key k; clear works on all.
Touches(q, k) == call[q] # Nothing /\ (call[q].op = "clear" \/ call[q].key = k)
Overlap(q, r) == call[q] # Nothing /\ (r.op = "clear" \/ Touches(q, r.key))

Begin(p) ==
    /\ call[p] = Nothing
    /\ \E r \in Requests :
         /\ call' = [call EXCEPT ![p] = r]
         /\ pc' = [pc EXCEPT ![p] = IF r.op = "delete" THEN "unlink" ELSE r.op]
         /\ alone' = [q \in Callers |->
                        IF q = p THEN \A o \in Callers : ~Overlap(o, r)
                                 ELSE alone[q] /\ ~Overlap(q, r)]
         /\ since' = [since EXCEPT ![p] = IF r.op = "set" THEN now ELSE 0]
    /\ UNCHANGED <<backend, now, entry, linked, seen, answer>>

Goto(p, l) == pc' = [pc EXCEPT ![p] = l]

\* _read_file and json.loads: without file, or with one that does not parse, a miss.
Read(p) ==
    /\ backend = "disk" /\ pc[p] = "get"
    /\ IF entry[call[p].key] \in Unreadable
       THEN Goto(p, "done") /\ seen' = seen
       ELSE Goto(p, "check") /\ seen' = [seen EXCEPT ![p] = entry[call[p].key]]
    /\ UNCHANGED <<backend, now, entry, call, since, linked, answer, alone>>

\* Mutant: the TTL is not looked at.
CheckNone(p) ==
    /\ pc[p] = "check"
    /\ Goto(p, "done") /\ answer' = [answer EXCEPT ![p] = seen[p].value]
    /\ seen' = [seen EXCEPT ![p] = Nothing]
    /\ UNCHANGED <<backend, now, entry, call, since, linked, alone>>

\* The TTL of the record read; an expired one is deleted by its path.
Check(p) ==
    /\ pc[p] = "check"
    /\ IF Live(seen[p])
       THEN Goto(p, "done") /\ answer' = [answer EXCEPT ![p] = seen[p].value]
       ELSE Goto(p, "unlink") /\ UNCHANGED answer
    /\ seen' = [seen EXCEPT ![p] = Nothing]
    /\ UNCHANGED <<backend, now, entry, call, since, linked, alone>>

\* path.unlink removes the file the path names by now; who holds it open
\* writes on into a file without name.
Remove(k) ==
    /\ entry' = [entry EXCEPT ![k] = Absent]
    /\ linked' = [q \in Callers |-> linked[q] /\ call[q].key # k]

Unlink(p) ==
    /\ pc[p] = "unlink"
    /\ Remove(call[p].key)
    /\ Goto(p, "done")
    /\ UNCHANGED <<backend, now, call, since, seen, answer, alone>>

\* clear: one file or key after the other.  A prefix is compared with the hashed
\* file names on disk, and with the keys in Redis: any keys may be the ones it takes.
ClearOne(p) ==
    /\ pc[p] = "clear"
    /\ \E k \in Keys : Remove(k)
    /\ UNCHANGED <<backend, now, call, pc, since, seen, answer, alone>>

ClearEnds(p) ==
    /\ pc[p] = "clear"
    /\ Goto(p, "done")
    /\ UNCHANGED <<backend, now, entry, call, since, linked, seen, answer, alone>>

\* Mutant: the file is opened with "r+", an old record stays until it is written over.
OpenKeeps(p) ==
    /\ backend = "disk" /\ pc[p] = "set"
    /\ entry' = [entry EXCEPT ![call[p].key] = IF @ = Absent THEN Empty ELSE @]
    /\ linked' = [linked EXCEPT ![p] = TRUE]
    /\ Goto(p, "write")
    /\ UNCHANGED <<backend, now, call, since, seen, answer, alone>>

\* open(path, "w") truncates or creates the file.
Open(p) ==
    /\ backend = "disk" /\ pc[p] = "set"
    /\ entry' = [entry EXCEPT ![call[p].key] = Empty]
    /\ linked' = [linked EXCEPT ![p] = TRUE]
    /\ Goto(p, "write")
    /\ UNCHANGED <<backend, now, call, since, seen, answer, alone>>

Record(p) == [value |-> call[p].value, expires |-> Expiry(since[p], call[p].ttl)]

\* The record goes to the start of the file; what another writer put there
\* since may be longer.
Write(p) ==
    /\ pc[p] = "write"
    /\ IF ~linked[p] THEN entry' = entry
       ELSE \E e \in {Record(p)} \cup (IF entry[call[p].key] = Empty THEN {} ELSE {Garbled}) :
              entry' = [entry EXCEPT ![call[p].key] = e]
    /\ linked' = [linked EXCEPT ![p] = FALSE]
    /\ Goto(p, "done")
    /\ UNCHANGED <<backend, now, call, since, seen, answer, alone>>

\* GET of a Redis server.
ServerGet(p) ==
    /\ backend = "redis" /\ pc[p] = "get"
    /\ LET e == entry[call[p].key] IN
         answer' = [answer EXCEPT ![p] =
                      IF e \notin Unreadable /\ Live(e) THEN e.value ELSE Nothing]
    /\ Goto(p, "done")
    /\ UNCHANGED <<backend, now, entry, call, since, linked, seen, alone>>

\* SET ... EX: without ttl the server gets the default one; it rejects zero (Fail).
ServerSet(p) ==
    /\ backend = "redis" /\ pc[p] = "set"
    /\ LET ttl == IF call[p].ttl = Never THEN DefaultTtl ELSE call[p].ttl IN
         /\ ttl # 0
         /\ entry' = [entry EXCEPT ![call[p].key] =
                        [value |-> call[p].value, expires |-> Expiry(now, ttl)]]
    /\ Goto(p, "done")
    /\ UNCHANGED <<backend, now, call, since, linked, seen, answer, alone>>

Quit(p) ==
    /\ call' = [call EXCEPT ![p] = Nothing] /\ Goto(p, "idle")
    /\ linked' = [linked EXCEPT ![p] = FALSE] /\ alone' = [alone EXCEPT ![p] = FALSE]
    /\ since' = [since EXCEPT ![p] = 0]
    /\ seen' = [seen EXCEPT ![p] = Nothing] /\ answer' = [answer EXCEPT ![p] = Nothing]
    /\ UNCHANGED <<backend, now, entry>>

\* The caller takes the answer.
Return(p) == pc[p] = "done" /\ Quit(p)

\* An OSError, a lost connection, a value that does not serialise (all logged and
\* swallowed but in DiskCacheBackend.delete and clear), or a kill: a file that was
\* opened for writing stays as it is.
Fail(p) == pc[p] \notin {"idle", "done"} /\ Quit(p)

Tick ==
    /\ now < MaxTime
    /\ now' = now + 1
    /\ UNCHANGED <<backend, entry, call, pc, since, linked, seen, answer, alone>>

Get(p) == Read(p) \/ Check(p) \/ ServerGet(p)
Set(p) == Open(p) \/ Write(p) \/ ServerSet(p)
Delete(p) == Unlink(p) \/ ClearOne(p) \/ ClearEnds(p)
Step(p) == Begin(p) \/ Get(p) \/ Set(p) \/ Delete(p) \/ Return(p) \/ Fail(p)
Next == Tick \/ \E p \in Callers : Step(p)

Spec == Init /\ [][Next]_vars

-----------------------------------------------------------------------------
(* The value get would find; the answer of a get between read and check.   *)
LiveValue(k) == IF entry[k] \notin Unreadable /\ Live(entry[k]) THEN entry[k].value ELSE Nothing
Pending(p) ==
    IF pc[p] # "check" THEN answer[p]
    ELSE IF Live(seen[p]) THEN seen[p].value ELSE Nothing

Answers == INSTANCE AnswerCache
             WITH store <- [k \in Keys |-> LiveValue(k)],
                  answer <- [p \in Callers |-> Pending(p)]

\* Both backends keep the promise of AnswerCache: no interleaving of readers,
\* writers, deletions, expiry and kills makes get answer a value that was not
\* the live value of its key during the call: not a torn file's, not an expired
\* one's, not another key's.
ImplementsAnswerCache == Answers!Spec

\* A set that runs alone on its key is on file when it returns: until it expires
\* a get finds it.  Overlap loses it: a get that read an expired record unlinks
\* what was written since (disk.py:79), and writers garble each other's file.
LoneSetIsKept ==
    \A p \in Callers :
        /\ call[p] # Nothing /\ call[p].op = "set"
        /\ pc[p] = "done" /\ alone[p]
        => entry[call[p].key] \notin Unreadable
           /\ entry[call[p].key].value = call[p].value
=============================================================================
