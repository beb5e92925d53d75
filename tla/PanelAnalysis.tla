---------------------------- MODULE PanelAnalysis ----------------------------
(* A panel whose references pipeline runs write while commands aggregate     *)
(* them: the two components over the tables they share.                      *)
EXTENDS AnalysisPipeline, CountryNetwork

ASSUME SessionsAssumption == Runs \cup Cmds \subseteq Sessions /\ Runs \cap Cmds = {}

vars == <<store, network, pipeline>>

Init == StoreInit /\ NetworkInit /\ PipelineInit

Next ==
    \/ NetworkNext /\ UNCHANGED pipeline
    \/ PipelineNext /\ UNCHANGED network

\* Coroutines that can go on do: the event loop runs them, a service call or a
\* query returns or raises, a lock is waited for no longer than its timeout.
Fairness ==
    /\ \A c \in Cmds : WF_vars(Step(c) /\ UNCHANGED pipeline)
    /\ \A r \in Runs : WF_vars(RunStep(r) /\ UNCHANGED network)

Spec == Init /\ [][Next]_vars /\ Fairness

-----------------------------------------------------------------------------
\* Nothing waits for ever: once no more commands and texts are started, every
\* command exits and every pipeline run gives its session back, whatever fails.
EveryRunEnds ==
    <>[](/\ \A c \in Cmds : cmd[c].at \in {"idle", "done"}
         /\ \A r \in Runs : run[r].at \in {"idle", "done"})
=============================================================================
