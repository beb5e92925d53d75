------------------------------- MODULE Transfer -------------------------------
(***************************************************************************)
(* What `migrate run' promises whoever looks at the two databases, without *)
(* pages, batches, retries or counters: the target only ever gains what    *)
(* the source held at some time, and only while a run that writes is under *)
(* way; a dry run leaves it alone; and a run that reports neither failed   *)
(* rows nor errors, over a source at rest, leaves nothing to move.         *)
(***************************************************************************)
CONSTANTS Ids, Texts, Transcript, Absent

VARIABLES source, target, indexed, was,
          report    \* "none" outside of a run and after one that was killed,
                    \* "dry" and "writing" in one, then "clean" when nothing
                    \* is owed, "open" when the reader cannot rely on it

state == <<source, target, indexed, was, report>>

Init ==
    /\ source \in [Ids -> Transcript \cup {Absent}]
    /\ target = [i \in Ids |-> Absent]
    /\ indexed = {}
    /\ was = [i \in Ids |-> {source[i]} \ {Absent}]
    /\ report = "none"

Left ==
    {i \in Ids : source[i] # Absent
                 /\ \/ target[i] # source[i].text
                    \/ source[i].analytics /\ i \notin indexed}

\* Somebody writes the source; a report that was clean is not any more.
Change ==
    /\ \E i \in Ids, row \in Transcript \cup {Absent} :
          /\ source' = [source EXCEPT ![i] = row]
          /\ was' = [was EXCEPT ![i] = @ \cup ({row} \ {Absent})]
    /\ report' = IF report = "clean" THEN "open" ELSE report
    /\ UNCHANGED <<target, indexed>>

\* Some rows become what the source held, and some get the analytics it held.
Move ==
    /\ report = "writing" /\ report' = "writing"
    /\ DOMAIN target' = Ids
    /\ \A i \in Ids : \/ target'[i] = target[i]
                      \/ \E t \in was[i] : target'[i] = t.text
    /\ indexed \subseteq indexed'
    /\ \A i \in indexed' \ indexed : target'[i] # Absent /\ \E t \in was[i] : t.analytics
    /\ UNCHANGED <<source, was>>

\* A run begins, returns, or is killed.
Begin ==
    /\ report \in {"none", "clean", "open"}
    /\ report' \in {"dry", "writing"}
    /\ UNCHANGED <<source, target, indexed, was>>

Return ==
    /\ report \in {"none", "dry", "writing", "clean", "open"}
    /\ report' \in {"none", "clean", "open"}
    /\ report' = "clean" => Left = {}
    /\ UNCHANGED <<source, target, indexed, was>>

Next == Change \/ Move \/ Begin \/ Return

Spec == Init /\ [][Next]_state
=============================================================================
