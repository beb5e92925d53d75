--------------------------- MODULE CountryNetwork ---------------------------
(* `analyze country-refs`, `analyze network` and `analyze full`: the three   *)
(* use cases over one panel's references, each in a session of its own.      *)
(*                                                                           *)
(* Aggregation reads the references once, then goes through the pairs: it    *)
(* reads the stored sentiment, applies every reference to it, looks again    *)
(* whether the row exists, and writes absolute values.  Commands of other    *)
(* processes run between any two of these awaits.                            *)
EXTENDS PanelStore

CONSTANTS
    Cmds,           \* command processes; each is its own session
    MaxCommands,    \* commands started in all
    NoPair

VARIABLES
    cmd,        \* what each process runs and where it is
    started,
    counted,    \* how many committed aggregations applied each reference
    overlap     \* two aggregations have been under way at once

network == <<cmd, started, counted, overlap>>

Kinds == {"country-refs", "network", "full"}

\* at: the await; read: the references the aggregation got; todo: pairs left;
\* pair, value: the sentiment in hand; fresh: upsert found no row; stored: pairs
\* counted as created or updated; errors: something was put into errors.
Command ==
    [kind : Kinds \cup {"none"}, read : SUBSET Refs, todo : SUBSET Pairs, pair : Pairs \cup {NoPair},
     value : [Refs -> Nat], fresh : BOOLEAN, stored : SUBSET Pairs, errors : BOOLEAN,
     at : {"idle", "references", "get", "check", "upsert", "commit", "sentiments", "flows",
           "commit flows", "topics", "done"},
     exit : {"none", "zero", "one", "raised"}]

None == [r \in Refs |-> 0]
Idle == [kind |-> "none", at |-> "idle", read |-> {}, todo |-> {}, pair |-> NoPair, value |-> None,
         fresh |-> FALSE, stored |-> {}, errors |-> FALSE, exit |-> "none"]

NetworkInit ==
    /\ cmd = [c \in Cmds |-> Idle]
    /\ started = 0
    /\ counted = None
    /\ overlap = FALSE

To(c, fields) == cmd' = [cmd EXCEPT ![c] = With(cmd[c], fields)]
Is(c, at) == cmd[c].at = at

Aggregating(c) == cmd[c].at \in {"references", "get", "check", "upsert", "commit"}

Start(c, kind) ==
    /\ cmd[c].at \in {"idle", "done"}
    /\ started < MaxCommands
    /\ started' = started + 1
    /\ cmd' = [cmd EXCEPT ![c] = [Idle EXCEPT !.kind = kind,
                  !.at = IF kind = "network" THEN "sentiments" ELSE "references"]]
    /\ overlap' = (overlap \/ (kind # "network" /\ \E d \in Cmds \ {c} : Aggregating(d)))
    /\ UNCHANGED <<store, counted>>

GetByPanel(c) ==
    /\ Is(c, "references")
    /\ To(c, [at |-> "get", read |-> db.refs, todo |-> {PairOf[r] : r \in db.refs}])
    /\ UNCHANGED <<store, started, counted, overlap>>

\* The read raises: the aggregation returns at once, with the error.
GetByPanelFails(c) ==
    /\ Is(c, "references")
    /\ Busy(c)
    /\ To(c, [at |-> "commit", errors |-> TRUE])
    /\ UNCHANGED <<store, started, counted, overlap>>

\* get_by_pair, then with_new_reference for every reference of the pair.
Applied(old, refs, p) ==
    [r \in Refs |-> IF PairOf[r] # p THEN 0 ELSE old[r] + (IF r \in refs THEN 1 ELSE 0)]

GetByPair(c, p) ==
    /\ Is(c, "get")
    /\ c \notin doomed
    /\ p \in cmd[c].todo
    /\ To(c, [at |-> "check", pair |-> p, todo |-> cmd[c].todo \ {p},
              value |-> Applied(View(c).applied, cmd[c].read, p)])
    /\ UNCHANGED <<store, started, counted, overlap>>

Skip(c, p) == To(c, [at |-> "get", pair |-> NoPair, value |-> None, fresh |-> FALSE,
                     todo |-> cmd[c].todo \ {p}, errors |-> TRUE])

\* A bug for EveryRunEnds to catch: a pair whose query raised stays in the list.
PairRetries(c, p) ==
    /\ Is(c, "get") /\ p \in cmd[c].todo
    /\ Busy(c) \/ c \in doomed
    /\ To(c, [errors |-> TRUE])
    /\ UNCHANGED <<store, started, counted, overlap>>

\* The pair's query raises (locked, or the session is doomed): the next pair.
PairFails(c, p) ==
    /\ \/ Is(c, "get") /\ p \in cmd[c].todo
       \/ Is(c, "check") /\ p = cmd[c].pair
    /\ Busy(c) \/ c \in doomed
    /\ Skip(c, p)
    /\ UNCHANGED <<store, started, counted, overlap>>

\* upsert asks again whether there is a row: insert or update.
Check(c) ==
    /\ Is(c, "check")
    /\ To(c, [at |-> "upsert", fresh |-> ~HasRow(View(c).applied, cmd[c].pair)])
    /\ UNCHANGED <<store, started, counted, overlap>>

\* A bug for MentionsCount to catch: the values are added to the row's own.
MergedAdds(applied, value, p) ==
    [r \in Refs |-> applied[r] + (IF PairOf[r] = p THEN value[r] ELSE 0)]

\* The row as the flush leaves it: every field gets the value in hand.
Merged(applied, value, p) == [r \in Refs |-> IF PairOf[r] = p THEN value[r] ELSE applied[r]]

\* The insert that comes second violates ix_bs_panel_pair.
Conflict(c) == cmd[c].fresh /\ HasRow(View(c).applied, cmd[c].pair)

Upsert(c) ==
    LET v == View(c) IN
    /\ Is(c, "upsert")
    /\ ~Conflict(c)
    /\ Flush(c, [v EXCEPT !.applied = Merged(v.applied, cmd[c].value, cmd[c].pair)])
    /\ To(c, [at |-> "get", pair |-> NoPair, value |-> None, fresh |-> FALSE,
              stored |-> cmd[c].stored \cup {cmd[c].pair}])
    /\ UNCHANGED <<started, counted, overlap>>

\* Locked for longer than the timeout, or the row is there already.
UpsertFails(c) ==
    /\ Is(c, "upsert")
    /\ Busy(c) \/ Conflict(c)
    /\ FlushFails(c)
    /\ Skip(c, cmd[c].pair)
    /\ UNCHANGED <<started, counted, overlap>>

PairsDone(c) ==
    /\ Is(c, "get") /\ cmd[c].todo = {}
    /\ To(c, [at |-> "commit"])
    /\ UNCHANGED <<store, started, counted, overlap>>

\* country-refs exits 1 only when nothing was created or updated.
AfterAggregation(c) ==
    IF cmd[c].kind = "full" THEN [at |-> "sentiments"]
    ELSE [at |-> "done", exit |-> IF cmd[c].errors /\ cmd[c].stored = {} THEN "one" ELSE "zero"]

CommitSentiments(c) ==
    /\ Is(c, "commit")
    /\ Commit(c)
    /\ To(c, AfterAggregation(c))
    /\ counted' = [r \in Refs |->
           counted[r] + (IF r \in cmd[c].read /\ PairOf[r] \in cmd[c].stored THEN 1 ELSE 0)]
    /\ UNCHANGED <<started, overlap>>

\* A bug for ReportedAreStored to catch: a commit that fails is not raised.
CommitSwallowed(c) ==
    /\ cmd[c].at \in {"commit", "commit flows"}
    /\ c \in doomed \/ lock = c
    /\ Rollback(c)
    /\ To(c, IF Is(c, "commit") THEN AfterAggregation(c) ELSE [at |-> "done", exit |-> "zero"])
    /\ UNCHANGED <<started, counted, overlap>>

\* A doomed session, or a database that stays locked: get_session raises.
CommitFails(c) ==
    /\ cmd[c].at \in {"commit", "commit flows"}
    /\ c \in doomed \/ lock = c
    /\ Rollback(c)
    /\ To(c, [at |-> "done", exit |-> "raised"])
    /\ UNCHANGED <<started, counted, overlap>>

\* get_all_for_panel; the flows are made in memory.
GetSentiments(c) ==
    /\ Is(c, "sentiments")
    /\ To(c, [at |-> "flows", value |-> db.applied])
    /\ UNCHANGED <<store, started, counted, overlap>>

GetSentimentsFails(c) ==
    /\ Is(c, "sentiments")
    /\ Busy(c)
    /\ To(c, [at |-> "commit flows", errors |-> TRUE])
    /\ UNCHANGED <<store, started, counted, overlap>>

\* abs(affinity_score) <= weight_threshold, with the default threshold, is left out.
Flows(c) == {p \in Pairs : HasRow(cmd[c].value, p) /\ Affinity(cmd[c].value, p) # 0}

\* Every flow is a new row: discourse_flows has no unique index.
SaveFlows(c) ==
    /\ Is(c, "flows")
    /\ IF Flows(c) = {} THEN UNCHANGED store
       ELSE Flush(c, [View(c) EXCEPT !.edges =
                         [p \in Pairs |-> @[p] + (IF p \in Flows(c) THEN 1 ELSE 0)]])
    /\ To(c, [at |-> "commit flows", value |-> None])
    /\ UNCHANGED <<started, counted, overlap>>

SaveFlowsFails(c) ==
    /\ Is(c, "flows")
    /\ Flows(c) # {} /\ Busy(c)
    /\ FlushFails(c)
    /\ To(c, [at |-> "commit flows", value |-> None, errors |-> TRUE])
    /\ UNCHANGED <<started, counted, overlap>>

\* network exits 1 on its own error, full on an error of any step.
CommitFlows(c) ==
    /\ Is(c, "commit flows")
    /\ Commit(c)
    /\ To(c, IF cmd[c].kind = "full" THEN [at |-> "topics"]
             ELSE [at |-> "done", exit |-> IF cmd[c].errors THEN "one" ELSE "zero"])
    /\ UNCHANGED <<started, counted, overlap>>

\* `full` gives the topic use case no scores, so no country is synthesized.
Topics(c) ==
    /\ Is(c, "topics")
    /\ To(c, [at |-> "done", exit |-> IF cmd[c].errors THEN "one" ELSE "zero"])
    /\ UNCHANGED <<store, started, counted, overlap>>

\* Its read of the references is not guarded.
TopicsFails(c) ==
    /\ Is(c, "topics")
    /\ Busy(c)
    /\ To(c, [at |-> "done", exit |-> "raised"])
    /\ UNCHANGED <<store, started, counted, overlap>>

Step(c) ==
    \/ GetByPanel(c) \/ GetByPanelFails(c)
    \/ \E p \in Pairs : GetByPair(c, p) \/ PairFails(c, p)
    \/ Check(c) \/ Upsert(c) \/ UpsertFails(c) \/ PairsDone(c)
    \/ CommitSentiments(c) \/ CommitFails(c)
    \/ GetSentiments(c) \/ GetSentimentsFails(c)
    \/ SaveFlows(c) \/ SaveFlowsFails(c) \/ CommitFlows(c)
    \/ Topics(c) \/ TopicsFails(c)

NetworkNext == \E c \in Cmds : Step(c) \/ \E k \in Kinds : Start(c, k)

-----------------------------------------------------------------------------
\* No reference weighs more in the stored sentiments than the committed
\* aggregations that counted it, and as long as no two aggregations have
\* overlapped none weighs less: what a failed flush took back was not kept, and
\* a pair that failed alone was left as it was.
MentionsCount ==
    \A r \in Refs :
        /\ db.applied[r] <= counted[r]
        /\ ~overlap => db.applied[r] = counted[r]

\* What a command says is what the tables hold: a country-refs or full run that
\* ended with exit 0 and no error left a sentiment for every pair it had read a
\* reference of, and edges run only between countries with a stored sentiment.
ReportedAreStored ==
    /\ \A c \in Cmds :
           cmd[c].exit = "zero" /\ ~cmd[c].errors =>
               \A r \in cmd[c].read : HasRow(db.applied, PairOf[r])
    /\ \A p \in Pairs : db.edges[p] > 0 => HasRow(db.applied, p)
=============================================================================
