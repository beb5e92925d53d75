-------------------------- MODULE MCPanelAnalysis --------------------------
EXTENDS PanelAnalysis, TLC

\* Two texts, each naming two countries, the second text the other way round:
\* references of the first and of the second cancel out.
MCRefs == (1..MaxTexts) \X Mentions
MCCountry == 1 :> "TR-RU" @@ 2 :> "TR-US"
MCPairOf == [r \in MCRefs |-> MCCountry[r[2]]]
MCScore == [r \in MCRefs |-> IF r[1] = 1 THEN 1 ELSE -1]
MCPairs == {"TR-RU", "TR-US"}
MCSessions == Runs \cup Cmds

\* The bound on combinations: commands meet only texts in which no collector or
\* stage failed and which left all their references or none; losing those, or
\* the lock, is left free.
Plain(r) ==
    /\ run[r].errors = {} /\ ~run[r].past
    /\ run[r].at \in {"idle", "gather"} \/ run[r].ai
    /\ run[r].refs \in {{}, Rules(r)}
Bound == started = 0 \/ \A r \in Runs : Plain(r)

MCNext == Next /\ Bound'
MCSpec == Init /\ [][MCNext]_vars /\ Fairness
=============================================================================
