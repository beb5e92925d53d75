---------------------------- MODULE BatchContract ----------------------------
(***************************************************************************)
(* What BatchProcessor.process promises its caller, without chunks, cache, *)
(* retries or fallback: within one call the items get their results in     *)
(* groups, each item once, a result once given stays, and an item's result *)
(* was made for its text.  The next call starts from nothing.              *)
(***************************************************************************)
EXTENDS Integers

CONSTANTS N, Payload, NoData, NoResult, MaxRuns

Items == 1..N
Result == [id : Items, success : BOOLEAN, data : Items \cup {NoData},
           fromCache : BOOLEAN, fromFallback : BOOLEAN]
For(i) == {r \in Result : Payload[r.id] = Payload[i]}

VARIABLES run, result

Unsettled == [i \in Items |-> NoResult]

Init == run = 1 /\ result = Unsettled

\* Some items without a result get theirs.
Settle ==
    /\ run' = run
    /\ DOMAIN result' = Items
    /\ \A i \in Items : result'[i] \in IF result[i] = NoResult
                                       THEN {NoResult} \cup For(i) ELSE {result[i]}

NewRun == run < MaxRuns /\ run' = run + 1 /\ result' = Unsettled

Next == Settle \/ NewRun

SafetySpec == Init /\ [][Next]_<<run, result>>

\* The call that nobody kills returns with a result for everything.
Completes == <>[](\A i \in Items : result[i] # NoResult)

Spec == SafetySpec /\ Completes
=============================================================================
