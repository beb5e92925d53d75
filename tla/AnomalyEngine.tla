---------------------------- MODULE AnomalyEngine ----------------------------
(***************************************************************************)
(* CrossAnomalyService of anomaly/core/service.py: rules are registered    *)
(* and unregistered under a lock by any thread; evaluate() takes the rules *)
(* there are, hands them to a pool of threads one by one and collects what *)
(* they find; shutdown() closes the pool to what is handed in later.  A    *)
(* rule may also raise, or never return: the results of evaluate() are     *)
(* waited for without a timeout.                                           *)
(***************************************************************************)
EXTENDS AnomalyRules

CONSTANTS
    Callers,        \* threads that evaluate
    InitialRules,     \* the rules registered first, each a sequence of rule ids
    Transcripts,    \* Transcripts[t]: the analyses they evaluate
    Named,          \* the rules callers name: register, unregister, evaluate on their own
    MaxWorkers,     \* threads of the pool
    MaxRegistrations    \* bound: registrations and unregistrations

\* The rules are a dict: one of each id.
ASSUME EngineAssumption ==
    /\ MaxRegistrations \in Nat
    /\ \A ids \in InitialRules :
          ids \in Seq(RuleIds) /\ \A i, j \in DOMAIN ids : ids[i] = ids[j] => i = j
    /\ Named \subseteq RuleIds

VARIABLES
    rules,      \* self._rules, in the order of registration: id and object
    pool,       \* the pool: tasks waiting and running, and whether it is open
    evaluation, \* evaluation[c]: the call of c
    registrations

engine == <<rules, pool, evaluation, registrations>>

Idle == [at |-> "idle", analysis |-> "none", snapshot |-> {}, left |-> <<>>, tasks |-> {}, results |-> {}, failed |-> {}]

EngineInit ==
    /\ \E ids \in InitialRules : rules = [i \in DOMAIN ids |-> [id |-> ids[i], object |-> 0]]
    /\ pool = [queue |-> <<>>, running |-> {}, open |-> TRUE]
    /\ evaluation = [c \in Callers |-> Idle]
    /\ registrations = 0

-----------------------------------------------------------------------------
\* A rule of that id takes the place of the one that is there.
Register1(id) ==
    /\ registrations < MaxRegistrations
    /\ registrations' = registrations + 1
    /\ LET rule == [id |-> id, object |-> registrations + 1]
           at == {i \in DOMAIN rules : rules[i].id = id}
       IN rules' = IF at = {} THEN Append(rules, rule) ELSE [i \in DOMAIN rules |-> IF i \in at THEN rule ELSE rules[i]]
    /\ UNCHANGED <<pool, evaluation>>

Unregister(id) ==
    /\ registrations < MaxRegistrations
    /\ registrations' = registrations + 1
    /\ IF \E i \in DOMAIN rules : rules[i].id = id
       THEN \E i \in DOMAIN rules : rules[i].id = id /\ rules' = RemoveAt(rules, i)
       ELSE UNCHANGED rules
    /\ UNCHANGED <<pool, evaluation>>

-----------------------------------------------------------------------------
\* evaluate: the rules are copied under the lock.
Snapshot(c) ==
    /\ evaluation[c].at = "idle"
    /\ \E a \in DOMAIN Transcripts :
          evaluation' = [evaluation EXCEPT ![c] =
              [Idle EXCEPT !.at = "submitting", !.analysis = a, !.snapshot = Range(rules), !.left = rules]]
    /\ UNCHANGED <<rules, pool, registrations>>

\* Mutant: the loop looks its rules up when it comes to them.
LeftLive(c) ==
    [i \in DOMAIN evaluation[c].left |->
        LET now == SelectSeq(rules, LAMBDA r : r.id = evaluation[c].left[i].id)
        IN IF now = <<>> THEN evaluation[c].left[i] ELSE Head(now)]

\* What the loop has yet to submit.
Left(c) == evaluation[c].left

\* submit() raises once the pool is closed, out of evaluate; what is submitted
\* runs for nobody.
Submit(c) ==
    /\ evaluation[c].at = "submitting" /\ Left(c) # <<>>
    /\ IF pool.open
       THEN /\ pool' = [pool EXCEPT !.queue = Append(@, [caller |-> c, rule |-> Head(Left(c))])]
            /\ evaluation' = [evaluation EXCEPT ![c].left = Tail(Left(c)), ![c].tasks = @ \cup {Head(Left(c))}]
       ELSE /\ evaluation' = [evaluation EXCEPT ![c].at = "raised"]
            /\ UNCHANGED pool
    /\ UNCHANGED <<rules, registrations>>

Submitted(c) ==
    /\ evaluation[c].at = "submitting" /\ Left(c) = <<>>
    /\ evaluation' = [evaluation EXCEPT ![c].at = "collecting"]
    /\ UNCHANGED <<rules, pool, registrations>>

\* A thread of the pool takes the oldest task.
Start ==
    /\ pool.queue # <<>> /\ Cardinality(pool.running) < MaxWorkers
    /\ pool' = [pool EXCEPT !.queue = Tail(@), !.running = @ \cup {Head(pool.queue)}]
    /\ UNCHANGED <<rules, evaluation, registrations>>

\* _safe_evaluate: what the rule finds, or None when it raises.
Found1(rule, found) ==
    IF found.severity \in {"none", "raised"} THEN {} ELSE {[rule |-> rule, found |-> found]}

Finish ==
    /\ \E t \in pool.running :
          /\ pool' = [pool EXCEPT !.running = @ \ {t}]
          /\ evaluation' = [evaluation EXCEPT ![t.caller].tasks = @ \ {t.rule},
                 ![t.caller].results = @ \cup Found1(t.rule, RuleFinds(t.rule.id, Transcripts[evaluation[t.caller].analysis]))]
    /\ UNCHANGED <<rules, registrations>>

\* A service of the context fails while the rule runs, where it is not caught.
FinishRaised ==
    /\ \E t \in pool.running :
          /\ pool' = [pool EXCEPT !.running = @ \ {t}]
          /\ evaluation' = [evaluation EXCEPT ![t.caller].tasks = @ \ {t.rule}, ![t.caller].failed = @ \cup {t.rule}]
    /\ UNCHANGED <<rules, registrations>>

\* The findings go back in the order of their confidence.
Return(c) ==
    /\ evaluation[c].at = "collecting" /\ evaluation[c].tasks = {}
    /\ evaluation' = [evaluation EXCEPT ![c].at = "returned"]
    /\ UNCHANGED <<rules, pool, registrations>>

\* evaluate_single, in the thread of the caller.
EvaluateSingle(c) ==
    /\ evaluation[c].at = "idle"
    /\ \E a \in DOMAIN Transcripts, id \in Named :
          LET one == {rules[i] : i \in {j \in DOMAIN rules : rules[j].id = id}}
          IN evaluation' = [evaluation EXCEPT ![c] =
                [Idle EXCEPT !.at = "returned", !.analysis = a, !.snapshot = one,
                             !.results = UNION {Found1(r, RuleFinds(r.id, Transcripts[a])) : r \in one}]]
    /\ UNCHANGED <<rules, pool, registrations>>

\* shutdown(wait=True): what is in the pool is still run.
Shutdown ==
    /\ pool.open
    /\ pool' = [pool EXCEPT !.open = FALSE]
    /\ UNCHANGED <<rules, evaluation, registrations>>

EngineNext ==
    \/ \E id \in Named : Register1(id) \/ Unregister(id)
    \/ \E c \in Callers : Snapshot(c) \/ Submit(c) \/ Submitted(c) \/ Return(c) \/ EvaluateSingle(c)
    \/ Start \/ Finish \/ FinishRaised \/ Shutdown

-----------------------------------------------------------------------------
\* evaluate() returns what the rules registered when it was called find in the
\* analysis it was called with, and nothing else, but for rules that raised:
\* whoever registers, replaces or removes rules meanwhile, and although the
\* callers share the threads and the queue of the pool.
EvaluatesSnapshot ==
    \A c \in DOMAIN evaluation :
        evaluation[c].at = "returned" =>
            evaluation[c].results =
                UNION {Found1(r, RuleFinds(r.id, Transcripts[evaluation[c].analysis])) :
                          r \in evaluation[c].snapshot \ evaluation[c].failed}
=============================================================================
