----------------------------- MODULE AnswerCache -----------------------------
(***************************************************************************)
(* What the callers of CacheBackend (infrastructure/cache/base.py) rely    *)
(* on, whatever keeps the entries: a cache may forget anything at any      *)
(* moment, but what get answers was, at one moment of the call, the live   *)
(* value of its key, and only a set in progress gives a key a value.       *)
(***************************************************************************)
CONSTANTS Callers, Keys, Values, Ttls, Nothing

Requests ==
    [op : {"get", "delete"}, key : Keys] \cup [op : {"clear"}]
        \cup [op : {"set"}, key : Keys, value : Values, ttl : Ttls]

VARIABLES call,     \* what each caller is waiting for, Nothing when it is not
          store,    \* the live value of each key
          answer    \* what the get of each caller is going to return

vars == <<call, store, answer>>

Init ==
    /\ call = [p \in Callers |-> Nothing]
    /\ store = [k \in Keys |-> Nothing]
    /\ answer = [p \in Callers |-> Nothing]

Begin(p) ==
    /\ call[p] = Nothing
    /\ \E r \in Requests : call' = [call EXCEPT ![p] = r]
    /\ UNCHANGED <<store, answer>>

\* The moment a get looks at its key.
Take(p) ==
    /\ call[p] # Nothing /\ call[p].op = "get"
    /\ answer' = [answer EXCEPT ![p] = store[call[p].key]]
    /\ UNCHANGED <<call, store>>

\* The moment a set takes effect.
Keep(p) ==
    /\ call[p] # Nothing /\ call[p].op = "set"
    /\ store' = [store EXCEPT ![call[p].key] = call[p].value]
    /\ UNCHANGED <<call, answer>>

\* Entries go, and with them answers that were not given yet.
Lose ==
    /\ \E K \in SUBSET Keys :
          store' = [k \in Keys |-> IF k \in K THEN Nothing ELSE store[k]]
    /\ \E P \in SUBSET {p \in Callers : call[p] # Nothing} :
          answer' = [p \in Callers |-> IF p \in P THEN Nothing ELSE answer[p]]
    /\ UNCHANGED call

\* A call that fails answers like one that found nothing, by Lose.
Return(p) ==
    /\ call' = [call EXCEPT ![p] = Nothing]
    /\ answer' = [answer EXCEPT ![p] = Nothing]
    /\ UNCHANGED store

Next == Lose \/ \E p \in Callers : Begin(p) \/ Take(p) \/ Keep(p) \/ Return(p)

Spec == Init /\ [][Next]_vars
=============================================================================
