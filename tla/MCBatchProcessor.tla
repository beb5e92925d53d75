-------------------------- MODULE MCBatchProcessor --------------------------
(* Instances of BatchProcessor for TLC: the texts of the items.            *)
EXTENDS BatchProcessor

\* The first and the last item have the same text, in different chunks.
Repeated == [i \in Items |-> IF i = N THEN 1 ELSE i]
=============================================================================
