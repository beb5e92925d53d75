--------------------------- MODULE PromptVersions ---------------------------
(***************************************************************************)
(* The two prompt registries.  domain/services/prompt_registry.py keeps    *)
(* the versions of a prompt with a language and an `active' mark each, and *)
(* AIAnalyst (domain/services/ai_analyst.py) stamps every analysis with    *)
(* the version it took; infrastructure/ai/prompt_registry.py numbers the   *)
(* versions of a name and takes the last one by the order of their names.  *)
(* The text of the prompts is left out, and so is the model's canned reply.*)
(***************************************************************************)
EXTENDS Integers, Sequences, FiniteSetsExt

CONSTANTS
    Labels,         \* versions callers register, besides the default ones
    MaxNumbered     \* bound: versions of the name in the in-memory registry

\* No version is called as none is.
ASSUME LabelsAssumption == "none" \notin Labels

VARIABLES
    versions,   \* the versions of diplomatic_analysis, in the order of registration
    rolledBack, \* activate() was called
    stamp,      \* what the last analysis says of its prompt
    numbered    \* versions of one name in the in-memory registry

prompts == <<versions, rolledBack, stamp, numbered>>

Languages == {"tr", "en", "any"}
Version == [version : Labels \cup {"v1.0", "v2.0", "v2.1"}, language : Languages, active : BOOLEAN]
None == [version |-> "none", language |-> "any", active |-> FALSE]

-----------------------------------------------------------------------------
Deactivate(p) == [p EXCEPT !.active = FALSE]

\* Mutant: a new active version replaces those of every language.
RegisteredForAll(ps, p) ==
    Append(IF p.active THEN [i \in DOMAIN ps |-> Deactivate(ps[i])] ELSE ps, p)

\* register(): an active version replaces the active one of its language.
Registered(ps, p) ==
    Append([i \in DOMAIN ps |-> IF p.active /\ ps[i].language = p.language THEN Deactivate(ps[i]) ELSE ps[i]], p)

Activated(ps, version) == [i \in DOMAIN ps |-> [ps[i] EXCEPT !.active = ps[i].version = version]]

\* The first of the versions at the places of `found'.
FirstAt(ps, found) == IF found = {} THEN None ELSE ps[Min(found)]

\* get_active(): the language's own version before that for any language.
GetActive(ps, language) ==
    LET own == FirstAt(ps, {i \in DOMAIN ps : ps[i].active /\ ps[i].language = language})
    IN IF own # None THEN own ELSE FirstAt(ps, {i \in DOMAIN ps : ps[i].active /\ ps[i].language = "any"})

GetVersion(ps, version) == FirstAt(ps, {i \in DOMAIN ps : ps[i].version = version})

\* build_default_registry().
Defaults ==
    Registered(Registered(Registered(<<>>,
        [version |-> "v1.0", language |-> "en", active |-> FALSE]),
        [version |-> "v2.0", language |-> "tr", active |-> FALSE]),
        [version |-> "v2.1", language |-> "any", active |-> TRUE])

PromptsInit ==
    /\ versions = Defaults
    /\ rolledBack = FALSE
    /\ stamp = "none"
    /\ numbered = 0

\* A version that is there already is a ValueError.
Register ==
    /\ \E p \in Version :
          /\ p.version \in Labels
          /\ GetVersion(versions, p.version) = None
          /\ versions' = Registered(versions, p)
    /\ UNCHANGED <<rolledBack, stamp, numbered>>

(* Every other version is switched off, also when there is none of that    *)
(* name: activate() then returns False and leaves the prompt without one.  *)
Activate ==
    /\ \E version \in Labels \cup {"v1.0", "v2.0", "v2.1"} : versions' = Activated(versions, version)
    /\ rolledBack' = TRUE
    /\ UNCHANGED <<stamp, numbered>>

\* AIAnalyst.analyze: a forced version, or the active one of the language the
\* text is found to be in.
Stamped(p) == IF p = None THEN "no_active_prompt" ELSE p.version

AnalyzeForced ==
    /\ \E version \in Labels \cup {"v1.0"} : stamp' = Stamped(GetVersion(versions, version))
    /\ UNCHANGED <<versions, rolledBack, numbered>>

Analyze ==
    /\ \E language \in Languages : stamp' = Stamped(GetActive(versions, language))
    /\ UNCHANGED <<versions, rolledBack, numbered>>

-----------------------------------------------------------------------------
\* InMemoryPromptRegistry.register gives the versions v1.0, v2.0, ...
RegisterNumbered ==
    /\ numbered < MaxNumbered
    /\ numbered' = numbered + 1
    /\ UNCHANGED <<versions, rolledBack, stamp>>

\* The place of v<i>.0 in the order of texts, for i < 100.
TextOrder(i) == IF i < 10 THEN 20 * i - 1 ELSE 2 * i

\* get() and get_version_string() without a version; 0 for none.
GetLatest(n) ==
    IF n = 0 THEN 0 ELSE CHOOSE i \in 1..n : \A j \in 1..n : TextOrder(j) <= TextOrder(i)

PromptsNext == Register \/ Activate \/ AnalyzeForced \/ Analyze \/ RegisterNumbered

-----------------------------------------------------------------------------
(* get() without a version returns the last one, as its documentation says *)
(* (`en sonuncuyu doner').                                                 *)
LatestIsNewest == GetLatest(numbered) = numbered

\* At most one version per language is active, and until somebody rolls back
\* every language is served: registering a prompt for one of them never takes
\* away the prompt of the others.  The registry that numbers its versions serves
\* the newest one, as long as the order of their names is that of registration.
PromptsServe ==
    /\ \A i, j \in DOMAIN versions :
          versions[i].active /\ versions[j].active /\ versions[i].language = versions[j].language => i = j
    /\ ~rolledBack => \A language \in Languages : GetActive(versions, language) # None
    /\ numbered < 10 => LatestIsNewest
=============================================================================
