--------------------------- MODULE ServicesProofs ---------------------------
(***************************************************************************)
(* Proofs about Services: what each of the services around the models      *)
(* promises, for any inputs, callers and bounds.  A service's invariant is *)
(* kept by every step of Services, since the steps of the others leave its *)
(* variables alone (the lemmas ...Move).                                   *)
(***************************************************************************)
EXTENDS Services, SequenceTheorems, FiniteSetTheorems, WellFoundedInduction, TLAPS

\* Two sequences joined, element by element.
IsJoin(s, t, u) ==
    /\ Len(u) = Len(s) + Len(t)
    /\ \A i \in 1..Len(s) : u[i] = s[i]
    /\ \A i \in 1..Len(t) : u[Len(s) + i] = t[i]

LEMMA Joined ==
  ASSUME NEW S, NEW s \in Seq(S), NEW t \in Seq(S)
  PROVE  s \o t \in Seq(S) /\ IsJoin(s, t, s \o t)
<1>1. PICK u : u = s \o t
  OBVIOUS
<1>2. /\ u \in Seq(S) /\ Len(u) = Len(s) + Len(t)
      /\ \A i \in 1..Len(s) + Len(t) : u[i] = IF i <= Len(s) THEN s[i] ELSE t[i - Len(s)]
  BY <1>1, ConcatProperties
<1>3. Len(s) \in Nat /\ Len(t) \in Nat
  OBVIOUS
<1>4. ASSUME NEW i \in 1..Len(s) PROVE u[i] = s[i]
  BY <1>2, <1>3
<1>5. ASSUME NEW i \in 1..Len(t) PROVE u[Len(s) + i] = t[i]
  <2>1. Len(s) + i \in 1..Len(s) + Len(t) /\ ~(Len(s) + i <= Len(s)) /\ Len(s) + i - Len(s) = i
    BY <1>3
  <2> QED BY <1>2, <2>1
<1>6. IsJoin(s, t, u)
  BY <1>2, <1>4, <1>5 DEF IsJoin
<1> QED BY <1>1, <1>2, <1>6

LEMMA LeastIn ==
  ASSUME NEW S \in SUBSET Nat, S # {}
  PROVE  Min(S) \in S
<1>1. PICK m \in S : \A k \in S : <<k, m>> \notin OpToRel(<, Nat)
  BY WFMin, NatLessThanWellFounded, Zenon
<1>2. \A k \in S : ~(k < m)
  BY <1>1, Zenon DEF OpToRel
<1>3. \A k \in S : m =< k
  BY <1>2
<1> QED BY <1>3 DEF Min

LEMMA LeastIs ==
  ASSUME NEW S \in SUBSET Nat, NEW m \in S, \A k \in S : m =< k
  PROVE  Min(S) = m
<1>1. \A x \in S : (\A k \in S : x =< k) => x = m
  OBVIOUS
<1>2. \E x \in S : \A k \in S : x =< k
  OBVIOUS
<1>3. PICK x : x = Min(S)
  OBVIOUS
<1>4. x \in S /\ \A k \in S : x =< k
  BY <1>2, <1>3, Zenon DEF Min
<1> QED BY <1>1, <1>3, <1>4

-----------------------------------------------------------------------------
(* The versions of a prompt: PromptVersions.                               *)

LEMMA PromptsMove == [Next]_vars => [PromptsNext]_prompts
BY DEF Next, vars

\* No two versions have one name, no two active ones a language, and before
\* anybody rolls back the one for any language stays active.
VersionsInv(ps, rolled) ==
    /\ ps \in Seq(Version)
    /\ \A i, j \in DOMAIN ps : ps[i].version = ps[j].version => i = j
    /\ \A i, j \in DOMAIN ps : ps[i].active /\ ps[j].active /\ ps[i].language = ps[j].language => i = j
    /\ ~rolled => \E i \in DOMAIN ps : ps[i].active /\ ps[i].language = "any"

PromptsInv == VersionsInv(versions, rolledBack) /\ rolledBack \in BOOLEAN

LEMMA FirstAtNone ==
  ASSUME NEW ps \in Seq(Version), NEW found \in SUBSET DOMAIN ps,
         \A i, j \in found : i = j
  PROVE  FirstAt(ps, found) = None <=> found = {}
<1>1. CASE found = {}
  BY <1>1 DEF FirstAt
<1>2. CASE found # {}
  <2>1. PICK i \in found : found = {i}
    BY <1>2
  <2>2. i \in Int /\ ps[i] \in Version
    BY <2>1
  <2>3. Min(found) = i
    BY <2>1, <2>2 DEF Min
  <2>4. ps[i].version # "none"
    BY <2>2, LabelsAssumption DEF Version
  <2>5. ps[i] # None
    BY <2>4 DEF None
  <2> QED BY <1>2, <2>3, <2>5 DEF FirstAt
<1> QED BY <1>1, <1>2

LEMMA RegisteredInv ==
  ASSUME NEW ps, NEW rolled \in BOOLEAN, VersionsInv(ps, rolled), NEW p \in Version,
         \A i \in DOMAIN ps : ps[i].version # p.version
  PROVE  VersionsInv(Registered(ps, p), rolled)
<1> DEFINE qs == [i \in DOMAIN ps |-> IF p.active /\ ps[i].language = p.language THEN Deactivate(ps[i]) ELSE ps[i]]
           n == Len(ps)
<1>1. ps \in Seq(Version) /\ n \in Nat /\ DOMAIN ps = 1..n
  BY DEF VersionsInv
<1>2. ASSUME NEW i \in DOMAIN ps
      PROVE  /\ qs[i] \in Version /\ qs[i].version = ps[i].version /\ qs[i].language = ps[i].language
             /\ qs[i].active => ps[i].active /\ ~(p.active /\ ps[i].language = p.language)
             /\ ps[i].active /\ ~(p.active /\ ps[i].language = p.language) => qs[i].active
  <2>1. ps[i] \in Version
    BY <1>1, <1>2
  <2> QED BY <2>1 DEF Deactivate, Version
<1>3. qs \in Seq(Version) /\ Len(qs) = n
  <2>1. qs \in [1..n -> Version]
    BY <1>1, <1>2
  <2>2. qs \in Seq(Version)
    BY <1>1, <2>1, IsASeq
  <2>3. Len(qs) = n
    BY <1>1, <2>2
  <2> QED BY <2>2, <2>3
<1> HIDE DEF qs
<1>4. Registered(ps, p) = Append(qs, p)
  BY DEF Registered, qs
<1> DEFINE rs == Append(qs, p)
<1>5. /\ rs \in Seq(Version) /\ DOMAIN rs = 1..n + 1 /\ rs[n + 1] = p
      /\ \A i \in 1..n : rs[i] = qs[i]
  BY <1>1, <1>3
<1> HIDE DEF rs
<1>6. ASSUME NEW i \in DOMAIN rs, NEW j \in DOMAIN rs, rs[i].version = rs[j].version PROVE i = j
  BY <1>1, <1>2, <1>5, <1>6 DEF VersionsInv
<1>7. ASSUME NEW i \in DOMAIN rs, NEW j \in DOMAIN rs, rs[i].active, rs[j].active, rs[i].language = rs[j].language
      PROVE  i = j
  BY <1>1, <1>2, <1>5, <1>7 DEF VersionsInv
<1>8. ~rolled => \E i \in DOMAIN rs : rs[i].active /\ rs[i].language = "any"
  <2>1. ASSUME ~rolled PROVE \E i \in DOMAIN rs : rs[i].active /\ rs[i].language = "any"
    <3>1. PICK i \in DOMAIN ps : ps[i].active /\ ps[i].language = "any"
      BY <2>1 DEF VersionsInv
    <3>2. CASE p.active /\ p.language = "any"
      <4>1. n + 1 \in DOMAIN rs
        BY <1>1, <1>5
      <4> QED BY <3>2, <4>1, <1>5
    <3>3. CASE ~(p.active /\ p.language = "any")
      <4>1. i \in 1..n /\ i \in DOMAIN rs /\ rs[i] = qs[i]
        BY <1>1, <1>5, <3>1
      <4>2. qs[i].active /\ qs[i].language = "any"
        BY <1>2, <3>1, <3>3
      <4> QED BY <4>1, <4>2
    <3> QED BY <3>2, <3>3
  <2> QED BY <2>1
<1>9. VersionsInv(rs, rolled)
  BY <1>5, <1>6, <1>7, <1>8 DEF VersionsInv
<1> QED BY <1>4, <1>9 DEF rs

LEMMA RegisteredApart ==
  ASSUME NEW ps \in Seq(Version), NEW p \in Version,
         \A i \in DOMAIN ps : ~(p.active /\ ps[i].language = p.language)
  PROVE  Registered(ps, p) = Append(ps, p)
<1> DEFINE qs == [i \in DOMAIN ps |-> IF p.active /\ ps[i].language = p.language THEN Deactivate(ps[i]) ELSE ps[i]]
<1>1. qs = [i \in DOMAIN ps |-> ps[i]]
  OBVIOUS
<1>2. qs = ps
  BY <1>1
<1>3. Registered(ps, p) = Append(qs, p)
  BY DEF Registered
<1> QED BY <1>2, <1>3

LEMMA Appended ==
  ASSUME NEW s \in Seq(Version), NEW x \in Version
  PROVE  /\ Append(s, x) \in Seq(Version) /\ Len(Append(s, x)) = Len(s) + 1 /\ Append(s, x)[Len(s) + 1] = x
         /\ \A i \in 1..Len(s) : Append(s, x)[i] = s[i]
BY AppendProperties

LEMMA PromptsInitInv == PromptsInit => PromptsInv
<1> SUFFICES ASSUME PromptsInit PROVE PromptsInv
  OBVIOUS
<1> DEFINE p1 == [version |-> "v1.0", language |-> "en", active |-> FALSE]
           p2 == [version |-> "v2.0", language |-> "tr", active |-> FALSE]
           p3 == [version |-> "v2.1", language |-> "any", active |-> TRUE]
<1>1. p1 \in Version /\ p2 \in Version /\ p3 \in Version
  BY DEF Version, Languages
<1>2. Defaults = Registered(Registered(Registered(<<>>, p1), p2), p3)
  BY DEF Defaults
<1>0. /\ p1.version = "v1.0" /\ p2.version = "v2.0" /\ p3.version = "v2.1"
      /\ p1.language = "en" /\ p2.language = "tr" /\ p3.language = "any"
      /\ ~p1.active /\ ~p2.active /\ p3.active
  OBVIOUS
<1> HIDE DEF p1, p2, p3
<1> DEFINE one == Append(<<>>, p1)
           two == Append(one, p2)
           three == Append(two, p3)
<1>3. /\ one \in Seq(Version) /\ DOMAIN one = {1} /\ one[1] = p1 /\ Len(one) = 1
      /\ Registered(<<>>, p1) = one
  <2>1. <<>> \in Seq(Version)
    OBVIOUS
  <2>2. Registered(<<>>, p1) = one
    BY <1>0, <1>1, <2>1, RegisteredApart
  <2> QED BY <1>1, <2>1, <2>2
<1> HIDE DEF one
<1>4. /\ two \in Seq(Version) /\ DOMAIN two = 1..2 /\ two[1] = p1 /\ two[2] = p2 /\ Len(two) = 2
      /\ Registered(one, p2) = two
  <2>1. Registered(one, p2) = two
    BY <1>0, <1>1, <1>3, RegisteredApart
  <2>2. /\ two \in Seq(Version) /\ Len(two) = 2 /\ two[2] = p2 /\ two[1] = one[1]
    <3>1. /\ Append(one, p2) \in Seq(Version) /\ Len(Append(one, p2)) = Len(one) + 1
          /\ Append(one, p2)[Len(one) + 1] = p2 /\ \A i \in 1..Len(one) : Append(one, p2)[i] = one[i]
      BY <1>1, <1>3, Appended
    <3>2. two = Append(one, p2)
      OBVIOUS
    <3> HIDE DEF two
    <3> QED BY <1>3, <3>1, <3>2
  <2>3. DOMAIN two = 1..2
    BY <2>2
  <2> QED BY <1>3, <2>1, <2>2, <2>3
<1> HIDE DEF two
<1>5. /\ three \in Seq(Version) /\ DOMAIN three = 1..3 /\ three[1] = p1 /\ three[2] = p2 /\ three[3] = p3
      /\ Registered(two, p3) = three
  <2>1. ASSUME NEW i \in DOMAIN two PROVE two[i].language # p3.language
    BY <1>0, <1>4, <2>1
  <2>2. Registered(two, p3) = three
    BY <1>1, <1>4, <2>1, RegisteredApart
  <2>3. /\ three \in Seq(Version) /\ Len(three) = 3 /\ three[3] = p3 /\ three[1] = two[1] /\ three[2] = two[2]
    <3>1. /\ Append(two, p3) \in Seq(Version) /\ Len(Append(two, p3)) = Len(two) + 1
          /\ Append(two, p3)[Len(two) + 1] = p3 /\ \A i \in 1..Len(two) : Append(two, p3)[i] = two[i]
      BY <1>1, <1>4, Appended
    <3>2. three = Append(two, p3)
      OBVIOUS
    <3> HIDE DEF three
    <3> QED BY <1>4, <3>1, <3>2
  <2>4. DOMAIN three = 1..3
    BY <2>3
  <2> QED BY <1>4, <2>2, <2>3, <2>4
<1> HIDE DEF three
<1>6. versions = three /\ rolledBack = FALSE
  BY <1>2, <1>3, <1>4, <1>5 DEF PromptsInit
<1>7. VersionsInv(three, FALSE)
  BY <1>0, <1>5 DEF VersionsInv
<1> QED BY <1>6, <1>7 DEF PromptsInv

LEMMA RegisterInv == ASSUME PromptsInv, Register PROVE PromptsInv'
<1>1. PICK p \in Version : GetVersion(versions, p.version) = None /\ versions' = Registered(versions, p)
  BY DEF Register
<1>2. VersionsInv(versions, rolledBack) /\ versions \in Seq(Version) /\ rolledBack \in BOOLEAN
  BY DEF PromptsInv, VersionsInv
<1> DEFINE found == {i \in DOMAIN versions : versions[i].version = p.version}
<1>3. found = {}
  <2>1. \A i, j \in found : i = j
    BY <1>2 DEF VersionsInv
  <2>2. FirstAt(versions, found) = None
    BY <1>1 DEF GetVersion
  <2>3. found \in SUBSET DOMAIN versions
    OBVIOUS
  <2> HIDE DEF found
  <2> QED BY <1>2, <2>1, <2>2, <2>3, FirstAtNone
<1>4. VersionsInv(Registered(versions, p), rolledBack)
  BY <1>2, <1>3, RegisteredInv
<1> QED BY <1>1, <1>2, <1>4 DEF Register, PromptsInv

LEMMA ActivateInv == ASSUME PromptsInv, Activate PROVE PromptsInv'
<1>1. PICK v : versions' = Activated(versions, v)
  BY DEF Activate
<1>2. versions \in Seq(Version) /\ rolledBack' = TRUE
  BY DEF PromptsInv, VersionsInv, Activate
<1> DEFINE ps == versions
           qs == [i \in DOMAIN ps |-> [ps[i] EXCEPT !.active = ps[i].version = v]]
<1>3. ASSUME NEW i \in DOMAIN ps
      PROVE  /\ qs[i] \in Version /\ qs[i].version = ps[i].version
             /\ qs[i].active => ps[i].version = v
  <2>1. ps[i] \in Version
    BY <1>2, <1>3
  <2> QED BY <2>1 DEF Version
<1>4. qs \in Seq(Version) /\ DOMAIN qs = DOMAIN ps
  <2>1. DOMAIN ps = 1..Len(ps) /\ Len(ps) \in Nat
    BY <1>2
  <2>2. DOMAIN qs = DOMAIN ps /\ qs = [i \in DOMAIN ps |-> qs[i]]
    OBVIOUS
  <2> HIDE DEF qs
  <2>3. qs \in [1..Len(ps) -> Version]
    BY <1>3, <2>1, <2>2
  <2> QED BY <2>1, <2>2, <2>3, IsASeq
<1>5. versions' = qs
  BY <1>1 DEF Activated
<1> HIDE DEF qs
<1>6. ASSUME NEW i \in DOMAIN qs, NEW j \in DOMAIN qs, qs[i].version = qs[j].version PROVE i = j
  BY <1>3, <1>4, <1>6 DEF PromptsInv, VersionsInv
<1>7. ASSUME NEW i \in DOMAIN qs, NEW j \in DOMAIN qs, qs[i].active, qs[j].active PROVE i = j
  BY <1>3, <1>4, <1>7 DEF PromptsInv, VersionsInv
<1>8. VersionsInv(qs, TRUE)
  BY <1>4, <1>6, <1>7 DEF VersionsInv
<1>9. VersionsInv(versions', rolledBack')
  BY <1>2, <1>5, <1>8
<1> QED BY <1>2, <1>9 DEF PromptsInv

LEMMA PromptsStepsInv == PromptsInv /\ [Next]_vars => PromptsInv'
<1> SUFFICES ASSUME PromptsInv, [PromptsNext]_prompts PROVE PromptsInv'
  BY PromptsMove
<1>1. CASE UNCHANGED <<versions, rolledBack>>
  BY <1>1 DEF PromptsInv
<1> QED BY <1>1, RegisterInv, ActivateInv DEF PromptsNext, AnalyzeForced, Analyze, RegisterNumbered, prompts

\* The version that is served as the last one, of fewer than a hundred.
LEMMA LatestOf ==
  ASSUME NEW n \in 0..99
  PROVE  GetLatest(n) = IF n \in 10..89 THEN 9 ELSE n
<1> DEFINE m == IF n \in 10..89 THEN 9 ELSE n
           Newest(i) == \A j \in 1..n : TextOrder(j) <= TextOrder(i)
<1>1. CASE n = 0
  BY <1>1 DEF GetLatest
<1>2. CASE n # 0
  <2>1. \A i \in 1..n : TextOrder(i) = IF i < 10 THEN 20 * i - 1 ELSE 2 * i
    BY DEF TextOrder
  <2>2. m \in 1..n /\ Newest(m)
    BY <1>2, <2>1
  <2>3. \A i \in 1..n : Newest(i) => i = m
    BY <1>2, <2>1, <2>2
  <2>4. GetLatest(n) = CHOOSE i \in 1..n : Newest(i)
    BY <1>2 DEF GetLatest
  <2> HIDE DEF m, Newest
  <2>5. GetLatest(n) = m
    BY <2>2, <2>3, <2>4
  <2> QED BY <2>5 DEF m
<1> QED BY <1>1, <1>2

LEMMA NumberedIsNat == Spec => [](numbered \in Nat)
<1>1. Init => numbered \in Nat
  BY DEF Init, PromptsInit
<1>2. numbered \in Nat /\ [Next]_vars => (numbered \in Nat)'
  <2> SUFFICES ASSUME numbered \in Nat, [PromptsNext]_prompts PROVE numbered' \in Nat
    BY PromptsMove
  <2> QED BY DEF PromptsNext, Register, Activate, AnalyzeForced, Analyze, RegisterNumbered, prompts
<1> QED BY <1>1, <1>2, PTL DEF Spec

\* Registering a prompt never takes the prompt of another language away: at most
\* one version per language is active, and every language is served until
\* somebody rolls back; of up to nine numbered versions the newest is served.
THEOREM PromptsAreServed == Spec => []PromptsServe
<1>0. Init => PromptsInit
  BY DEF Init
<1>1. Spec => []PromptsInv
  BY <1>0, PromptsInitInv, PromptsStepsInv, PTL DEF Spec
<1>2. ASSUME PromptsInv, ~rolledBack, NEW language \in Languages PROVE GetActive(versions, language) # None
  <2> DEFINE own == {i \in DOMAIN versions : versions[i].active /\ versions[i].language = language}
             any == {i \in DOMAIN versions : versions[i].active /\ versions[i].language = "any"}
  <2>1. versions \in Seq(Version) /\ own \in SUBSET DOMAIN versions /\ any \in SUBSET DOMAIN versions
    BY <1>2 DEF PromptsInv, VersionsInv
  <2>2. (\A i, j \in own : i = j) /\ (\A i, j \in any : i = j) /\ any # {}
    BY <1>2 DEF PromptsInv, VersionsInv
  <2>3. GetActive(versions, language) =
           IF FirstAt(versions, own) # None THEN FirstAt(versions, own) ELSE FirstAt(versions, any)
    BY DEF GetActive
  <2> HIDE DEF own, any
  <2>4. FirstAt(versions, any) # None
    BY <2>1, <2>2, FirstAtNone
  <2> QED BY <2>3, <2>4
<1>3. numbered \in Nat => (numbered < 10 => LatestIsNewest)
  <2> SUFFICES ASSUME numbered \in 0..9 PROVE LatestIsNewest
    OBVIOUS
  <2> QED BY LatestOf DEF LatestIsNewest
<1>4. PromptsInv /\ numbered \in Nat => PromptsServe
  BY <1>2, <1>3 DEF PromptsServe, PromptsInv, VersionsInv
<1> QED BY <1>1, <1>4, NumberedIsNat, PTL

\* The in-memory registry serves the newest version of a prompt up to nine of
\* them; the ninth stays the one that is served until there are ninety.
THEOREM NewestUpToNine == Spec => [](numbered < 100 => (LatestIsNewest <=> numbered \notin 10..89))
<1>1. numbered \in Nat => (numbered < 100 => (LatestIsNewest <=> numbered \notin 10..89))
  <2> SUFFICES ASSUME numbered \in 0..99 PROVE LatestIsNewest <=> numbered \notin 10..89
    OBVIOUS
  <2>1. GetLatest(numbered) = IF numbered \in 10..89 THEN 9 ELSE numbered
    BY LatestOf
  <2> QED BY <2>1 DEF LatestIsNewest
<1> QED BY <1>1, NumberedIsNat, PTL

-----------------------------------------------------------------------------
(* What the analyst's cache gives: AiAnalyst.                              *)

LEMMA AnalystMove == [Next]_vars => [AnalystNext]_analyst
BY DEF Next, vars

Whole == [request : Request, content : {"whole", "pairs", "list", "nothing", "error"}, success : BOOLEAN,
          cached : BOOLEAN]

\* The cache holds successful responses to a request with that key, and only
\* such a response says that it came from there.
KeptInv ==
    \A k \in DOMAIN kept : /\ kept[k] \in DOMAIN made
                           /\ Key(made[kept[k]].request) = k
                           /\ made[kept[k]].success

AnswerInv ==
    answer # NoAnswer =>
        /\ answer.request \in Request /\ answer.response \in DOMAIN made
        /\ Key(made[answer.response].request) = Key(answer.request)

AnalystInv ==
    /\ made \in Seq(Whole)
    /\ KeptInv /\ AnswerInv
    /\ \A i \in DOMAIN made : made[i].cached => made[i].success

\* What keys are made of: the provers do not know the literals to be strings.
Word == STRING \cup {"|", "ollama", "anthropic"}

LEMMA RequestTyped ==
  ASSUME NEW r \in Request
  PROVE  r.text \in Seq(Word) /\ r.context \in Seq(Word) /\ r.backend \in Word /\ r.model \in Word
<1>1. r.text \in Texts_ /\ r.context \in Contexts /\ r.backend \in {"ollama", "anthropic"} /\ r.model \in Models
  BY DEF Request
<1>2. Texts_ \subseteq Seq(STRING) /\ Contexts \subseteq Seq(STRING) /\ Models \subseteq STRING
  BY AnalystAssumption
<1>3. r.text \in Seq(STRING) /\ r.context \in Seq(STRING) /\ r.model \in STRING
  BY <1>1, <1>2
<1>4. \A s \in Seq(STRING) : s \in Seq(Word)
  BY DEF Word
<1> QED BY <1>1, <1>3, <1>4 DEF Word

\* Where the four parts of a key are.
HasParts(key, r, n, m) ==
    /\ n = Len(r.text) /\ m = Len(r.context)
    /\ Len(key) = n + m + 5
    /\ \A i \in 1..n : key[i] = r.text[i]
    /\ key[n + 1] = "|"
    /\ \A i \in 1..m : key[n + 1 + i] = r.context[i]
    /\ key[n + m + 3] = r.backend
    /\ key[n + m + 5] = r.model

LEMMA KeyParts ==
  ASSUME NEW r \in Request
  PROVE  \E n \in Nat, m \in Nat : HasParts(Key(r), r, n, m)
<1>0. PICK n \in Nat, m \in Nat : n = Len(r.text) /\ m = Len(r.context)
  BY RequestTyped
<1>1. PICK bar : bar = <<"|">>
  OBVIOUS
<1>2. PICK end : end = <<"|", r.backend, "|", r.model>>
  OBVIOUS
<1>3. PICK a : a = r.text \o bar
  OBVIOUS
<1>4. PICK b : b = a \o r.context
  OBVIOUS
<1>5. PICK key : key = b \o end
  OBVIOUS
<1>6. Key(r) = key
  BY <1>1, <1>2, <1>3, <1>4, <1>5 DEF Key
<1>7. /\ bar \in Seq(Word) /\ Len(bar) = 1 /\ bar[1] = "|"
  BY <1>1 DEF Word
<1>8. /\ end \in Seq(Word) /\ Len(end) = 4 /\ end[2] = r.backend /\ end[4] = r.model
  <2>1. r.backend \in Word /\ r.model \in Word /\ "|" \in Word
    BY RequestTyped DEF Word
  <2> QED BY <1>2, <2>1
<1>9. r.text \in Seq(Word) /\ r.context \in Seq(Word)
  BY RequestTyped
<1>10. /\ a \in Seq(Word) /\ Len(a) = n + 1
       /\ \A i \in 1..n : a[i] = r.text[i]
       /\ \A i \in 1..1 : a[n + i] = bar[i]
  <2>1. a \in Seq(Word) /\ IsJoin(r.text, bar, a)
    BY <1>3, <1>7, <1>9, Joined
  <2> QED BY <1>0, <1>7, <2>1 DEF IsJoin
<1>11. a[n + 1] = "|"
  BY <1>7, <1>10
<1>12. /\ b \in Seq(Word) /\ Len(b) = n + 1 + m
       /\ \A i \in 1..n + 1 : b[i] = a[i]
       /\ \A i \in 1..m : b[n + 1 + i] = r.context[i]
  <2>1. b \in Seq(Word) /\ IsJoin(a, r.context, b)
    BY <1>4, <1>9, <1>10, Joined
  <2> QED BY <1>0, <1>10, <2>1 DEF IsJoin
<1>13. /\ Len(key) = n + 1 + m + 4
       /\ \A i \in 1..n + 1 + m : key[i] = b[i]
       /\ \A i \in 1..4 : key[n + 1 + m + i] = end[i]
  <2>1. key \in Seq(Word) /\ IsJoin(b, end, key)
    BY <1>5, <1>8, <1>12, Joined
  <2> QED BY <1>8, <1>12, <2>1 DEF IsJoin
<1>14. \A i \in 1..n : key[i] = r.text[i]
  BY <1>10, <1>12, <1>13
<1>15. key[n + 1] = "|"
  BY <1>11, <1>12, <1>13
<1>16. \A i \in 1..m : key[n + 1 + i] = r.context[i]
  <2>1. ASSUME NEW i \in 1..m PROVE key[n + 1 + i] = r.context[i]
    <3>1. n + 1 + i \in 1..n + 1 + m
      OBVIOUS
    <3> QED BY <1>12, <1>13, <3>1
  <2> QED BY <2>1
<1>17. key[n + m + 3] = r.backend /\ key[n + m + 5] = r.model
  <2>1. n + m + 3 = n + 1 + m + 2 /\ n + m + 5 = n + 1 + m + 4 /\ 2 \in 1..4 /\ 4 \in 1..4
    OBVIOUS
  <2>2. key[n + 1 + m + 2] = end[2] /\ key[n + 1 + m + 4] = end[4]
    BY <1>13, <2>1
  <2> QED BY <1>8, <2>1, <2>2
<1>18. Len(key) = n + m + 5
  BY <1>13
<1>19. HasParts(key, r, n, m)
  BY <1>0, <1>14, <1>15, <1>16, <1>17, <1>18 DEF HasParts
<1> QED BY <1>6, <1>19

\* One key: one backend and one model, and one request where no text holds the bar.
LEMMA SameKey ==
  ASSUME NEW q \in Request, NEW r \in Request, Key(q) = Key(r)
  PROVE  /\ q.backend = r.backend /\ q.model = r.model
         /\ NoBar(q.text) /\ NoBar(r.text) => q = r
<1> DEFINE key == Key(r)
<1>1. PICK n \in Nat, m \in Nat : HasParts(key, q, n, m)
  BY KeyParts
<1>2. PICK k \in Nat, l \in Nat : HasParts(key, r, k, l)
  BY KeyParts
<1> HIDE DEF key
<1>3. /\ n = Len(q.text) /\ m = Len(q.context)
      /\ k = Len(r.text) /\ l = Len(r.context)
  BY <1>1, <1>2 DEF HasParts
<1>4. /\ \A i \in 1..n : key[i] = q.text[i]
      /\ \A i \in 1..k : key[i] = r.text[i]
      /\ \A i \in 1..m : key[n + 1 + i] = q.context[i]
      /\ \A i \in 1..l : key[k + 1 + i] = r.context[i]
      /\ key[n + 1] = "|" /\ key[k + 1] = "|"
  BY <1>1, <1>2 DEF HasParts
<1>5. n + m = k + l
  <2>1. Len(key) = n + m + 5
    BY <1>1 DEF HasParts
  <2>2. Len(key) = k + l + 5
    BY <1>2 DEF HasParts
  <2> QED BY <2>1, <2>2
<1>6. q.backend = r.backend /\ q.model = r.model
  BY <1>1, <1>2, <1>5 DEF HasParts
<1>7. /\ DOMAIN q.text = 1..n /\ DOMAIN r.text = 1..k
      /\ DOMAIN q.context = 1..m /\ DOMAIN r.context = 1..l
  <2>1. /\ q.text \in Seq(Word) /\ r.text \in Seq(Word)
        /\ q.context \in Seq(Word) /\ r.context \in Seq(Word)
    BY RequestTyped
  <2> QED BY <1>3, <2>1
<1>8. ASSUME NoBar(q.text), NoBar(r.text) PROVE q = r
  <2>1. ~(n < k)
    <3>1. ASSUME n < k PROVE r.text[n + 1] = "|" /\ n + 1 \in DOMAIN r.text
      BY <1>4, <1>7, <3>1
    <3> QED BY <3>1, <1>8 DEF NoBar
  <2>2. ~(k < n)
    <3>1. ASSUME k < n PROVE q.text[k + 1] = "|" /\ k + 1 \in DOMAIN q.text
      BY <1>4, <1>7, <3>1
    <3> QED BY <3>1, <1>8 DEF NoBar
  <2>3. n = k /\ m = l
    BY <1>5, <2>1, <2>2
  <2>4. q.text = r.text
    <3>1. \A i \in 1..n : q.text[i] = r.text[i]
      BY <1>4, <2>3
    <3> QED BY <1>7, <2>3, <3>1, RequestTyped
  <2>5. q.context = r.context
    <3>1. \A i \in 1..m : q.context[i] = r.context[i]
      BY <1>4, <2>3
    <3> QED BY <1>7, <2>3, <3>1, RequestTyped
  <2> QED BY <1>6, <2>4, <2>5 DEF Request
<1> QED BY <1>6, <1>8

LEMMA AnalystInitInv == Init => AnalystInv
<1> SUFFICES ASSUME Init PROVE AnalystInv
  OBVIOUS
<1>1. made = <<>> /\ kept = <<>> /\ answer = NoAnswer
  BY DEF Init, AnalystInit
<1>2. made \in Seq(Whole) /\ DOMAIN made = {} /\ DOMAIN kept = {}
  BY <1>1
<1> QED BY <1>1, <1>2 DEF AnalystInv, KeptInv, AnswerInv

LEMMA AnalyzeTextInv ==
  ASSUME AnalystInv, NEW r \in Request, NEW response \in Whole, response.request = r, ~response.cached,
         AnalyzeText(r, response)
  PROVE  AnalystInv'
<1> DEFINE n == Len(made)
<1>1. made \in Seq(Whole) /\ n \in Nat /\ DOMAIN made = 1..n
  BY DEF AnalystInv
<1>2. /\ made' \in Seq(Whole) /\ DOMAIN made' = 1..n + 1 /\ made'[n + 1] = response
      /\ \A i \in 1..n : made'[i] = made[i]
  <2>1. made' = Append(made, response)
    BY DEF AnalyzeText
  <2> QED BY <1>1, <2>1
<1>3. KeptInv'
  <2>1. CASE response.success
    <3>1. kept' = [k \in DOMAIN kept \cup {Key(r)} |-> IF k = Key(r) THEN n + 1 ELSE kept[k]]
      BY <2>1 DEF AnalyzeText
    <3>2. ASSUME NEW k \in DOMAIN kept'
          PROVE  kept'[k] \in DOMAIN made' /\ Key(made'[kept'[k]].request) = k /\ made'[kept'[k]].success
      <4>1. CASE k = Key(r)
        <5>1. kept'[k] = n + 1
          BY <3>1, <3>2, <4>1
        <5> QED BY <1>1, <1>2, <2>1, <4>1, <5>1
      <4>2. CASE k # Key(r)
        <5>1. k \in DOMAIN kept /\ kept'[k] = kept[k]
          BY <3>1, <3>2, <4>2
        <5>2. kept[k] \in 1..n /\ Key(made[kept[k]].request) = k /\ made[kept[k]].success
          BY <1>1, <5>1 DEF AnalystInv, KeptInv
        <5> QED BY <1>1, <1>2, <5>1, <5>2
      <4> QED BY <4>1, <4>2
    <3>3. \A k \in DOMAIN kept' : /\ kept'[k] \in DOMAIN made'
                                  /\ Key(made'[kept'[k]].request) = k
                                  /\ made'[kept'[k]].success
      BY <3>2
    <3> QED BY <3>3 DEF KeptInv, Key
  <2>2. CASE ~response.success
    <3>1. kept' = kept
      BY <2>2 DEF AnalyzeText
    <3>2. \A k \in DOMAIN kept : /\ kept[k] \in DOMAIN made'
                                 /\ Key(made'[kept[k]].request) = k
                                 /\ made'[kept[k]].success
      BY <1>1, <1>2 DEF AnalystInv, KeptInv
    <3> QED BY <3>1, <3>2 DEF KeptInv, Key
  <2> QED BY <2>1, <2>2
<1>4. AnswerInv'
  <2>1. answer' = [request |-> r, response |-> n + 1]
    BY DEF AnalyzeText
  <2>2. /\ answer'.request = r /\ answer'.response = n + 1
    BY <2>1
  <2>3. answer'.response \in DOMAIN made' /\ made'[answer'.response].request = r
    BY <1>1, <1>2, <2>2
  <2> QED BY <2>2, <2>3 DEF AnswerInv, Key
<1>5. \A i \in DOMAIN made' : made'[i].cached => made'[i].success
  BY <1>1, <1>2 DEF AnalystInv
<1> QED BY <1>2, <1>3, <1>4, <1>5 DEF AnalystInv

LEMMA HitInv == ASSUME AnalystInv, Hit PROVE AnalystInv'
<1>1. PICK r \in Request :
        /\ Key(r) \in DOMAIN kept
        /\ made' = [made EXCEPT ![kept[Key(r)]].cached = TRUE]
        /\ answer' = [request |-> r, response |-> kept[Key(r)]]
        /\ kept' = kept
  BY DEF Hit
<1>2. PICK h : h = kept[Key(r)]
  OBVIOUS
<1>3. /\ made \in Seq(Whole) /\ h \in DOMAIN made /\ Key(made[h].request) = Key(r) /\ made[h].success
  BY <1>1, <1>2 DEF AnalystInv, KeptInv
<1>4. /\ made' \in Seq(Whole) /\ DOMAIN made' = DOMAIN made
      /\ \A i \in DOMAIN made : /\ made'[i].request = made[i].request /\ made'[i].success = made[i].success
                                /\ i # h => made'[i] = made[i]
  <2>1. made' = [made EXCEPT ![h] = [made[h] EXCEPT !.cached = TRUE]]
    BY <1>1, <1>2
  <2>2. PICK w : w = [made[h] EXCEPT !.cached = TRUE]
    OBVIOUS
  <2>3. made[h] \in Whole
    BY <1>3
  <2>4. w \in Whole /\ w.request = made[h].request /\ w.success = made[h].success
    BY <2>2, <2>3 DEF Whole
  <2>5. made' = [made EXCEPT ![h] = w]
    BY <2>1, <2>2
  <2>6. made' \in Seq(Whole) /\ DOMAIN made' = DOMAIN made
    BY <1>3, <2>4, <2>5
  <2>7. \A i \in DOMAIN made : made'[i] = IF i = h THEN w ELSE made[i]
    BY <1>3, <2>5
  <2> QED BY <2>4, <2>6, <2>7
<1>5. KeptInv'
  <2>1. \A k \in DOMAIN kept : /\ kept[k] \in DOMAIN made'
                               /\ made'[kept[k]].request = made[kept[k]].request
                               /\ Key(made[kept[k]].request) = k
                               /\ made'[kept[k]].success
    BY <1>4 DEF AnalystInv, KeptInv
  <2>2. \A k \in DOMAIN kept : /\ kept[k] \in DOMAIN made'
                               /\ Key(made'[kept[k]].request) = k
                               /\ made'[kept[k]].success
    BY <2>1
  <2> QED BY <1>1, <2>2 DEF KeptInv, Key
<1>6. AnswerInv'
  <2>1. answer'.request = r /\ answer'.response = h
    BY <1>1, <1>2
  <2>2. answer'.response \in DOMAIN made' /\ made'[h].request = made[h].request
    BY <1>3, <1>4, <2>1
  <2>3. Key(made'[h].request) = Key(r)
    BY <1>3, <2>2
  <2> QED BY <2>1, <2>2, <2>3 DEF AnswerInv, Key
<1>7. \A i \in DOMAIN made' : made'[i].cached => made'[i].success
  BY <1>3, <1>4 DEF AnalystInv
<1> QED BY <1>4, <1>5, <1>6, <1>7 DEF AnalystInv

LEMMA AnalystStepsInv == AnalystInv /\ [Next]_vars => AnalystInv'
<1> SUFFICES ASSUME AnalystInv, [AnalystNext]_analyst PROVE AnalystInv'
  BY AnalystMove
<1>1. CASE AskBackend
  <2>1. PICK r \in Request, reply \in Replies_ \ {"numbers"} : AnalyzeText(r, Response(r, reply))
    BY <1>1 DEF AskBackend
  <2>2. PICK response : response = Response(r, reply)
    OBVIOUS
  <2>3. response \in Whole /\ response.request = r /\ ~response.cached
    BY <2>2 DEF Response, RecoverJson, Replies_, Whole
  <2> QED BY <2>1, <2>2, <2>3, AnalyzeTextInv
<1>2. CASE BackendFails
  <2>1. PICK r \in Request : AnalyzeText(r, ErrorResponse(r))
    BY <1>2 DEF BackendFails
  <2>2. PICK response : response = ErrorResponse(r)
    OBVIOUS
  <2>3. response \in Whole /\ response.request = r /\ ~response.cached
    BY <2>2 DEF ErrorResponse, Whole
  <2> QED BY <2>1, <2>2, <2>3, AnalyzeTextInv
<1>3. CASE NotADict
  <2>1. answer' = NoAnswer /\ UNCHANGED <<made, kept>>
    BY <1>3 DEF NotADict
  <2> QED BY <2>1 DEF AnalystInv, KeptInv, AnswerInv, Key, NoAnswer
<1>4. CASE Hit
  BY <1>4, HitInv
<1>5. CASE ClearCache
  <2>1. kept' = <<>> /\ UNCHANGED <<made, answer>>
    BY <1>5 DEF ClearCache
  <2>2. DOMAIN kept' = {}
    BY <2>1
  <2>3. KeptInv'
    BY <2>2 DEF KeptInv
  <2> QED BY <2>1, <2>3 DEF AnalystInv, AnswerInv, Key, NoAnswer
<1>6. CASE UNCHANGED analyst
  BY <1>6 DEF analyst, AnalystInv, KeptInv, AnswerInv, Key, NoAnswer
<1> QED BY <1>1, <1>2, <1>3, <1>4, <1>5, <1>6 DEF AnalystNext

\* The analyst's cache gives a call only what was made by the backend and model
\* it asks for, for its own text and context unless one holds the bar of
\* _get_cache_key, and never a failure.
THEOREM AnswersAreFit == Spec => []AnswersFit
<1>1. Spec => []AnalystInv
  BY AnalystInitInv, AnalystStepsInv, PTL DEF Spec
<1>2. ASSUME AnalystInv, answer # NoAnswer
      PROVE  LET r == answer.request
                 got == made[answer.response]
             IN /\ got.request.backend = r.backend /\ got.request.model = r.model
                /\ NoBar(r.text) /\ NoBar(r.context) /\ NoBar(got.request.text) /\ NoBar(got.request.context)
                   => got.request = r
                /\ got.cached => got.success
  <2>1. /\ answer.request \in Request /\ answer.response \in DOMAIN made
        /\ Key(made[answer.response].request) = Key(answer.request)
    BY <1>2 DEF AnalystInv, AnswerInv
  <2>2. made[answer.response].request \in Request
    <3>1. made[answer.response] \in Whole
      BY <1>2, <2>1 DEF AnalystInv
    <3>2. \A w \in Whole : w.request \in Request
      BY DEF Whole
    <3> QED BY <3>1, <3>2
  <2>3. made[answer.response].cached => made[answer.response].success
    BY <1>2, <2>1 DEF AnalystInv
  <2> QED BY <2>1, <2>2, <2>3, SameKey
<1>3. AnalystInv => AnswersFit
  BY <1>2 DEF AnswersFit
<1> QED BY <1>1, <1>3, PTL

-----------------------------------------------------------------------------
(* The verdict on an answer: FailCheck.                                    *)

LEMMA FailCheckMove == [Next]_vars => [FailCheckNext]_failcheck
BY DEF Next, vars

LEMMA NumericFieldsAre ==
  /\ Numeric \in [1..5 -> Range(Numeric)] /\ Labelled \in [1..4 -> Range(Labelled)]
  /\ DOMAIN Numeric = 1..5 /\ DOMAIN Labelled = 1..4
  /\ Range(Numeric) = {"sentiment", "risk", "hedging", "manipulation", "politeness"}
  /\ Range(Labelled) = {"topic", "frame", "appraisal", "audience"}
<1>1. DOMAIN Numeric = 1..5 /\ DOMAIN Labelled = 1..4
  BY DEF Numeric, Labelled
<1>2. Numeric \in [1..5 -> Range(Numeric)] /\ Labelled \in [1..4 -> Range(Labelled)]
  BY <1>1 DEF Range, Numeric, Labelled
<1>3. Range(Numeric) = {"sentiment", "risk", "hedging", "manipulation", "politeness"}
  <2>1. Range(Numeric) = {Numeric[1], Numeric[2], Numeric[3], Numeric[4], Numeric[5]}
    BY <1>1 DEF Range
  <2> QED BY <2>1 DEF Numeric
<1>4. Range(Labelled) = {"topic", "frame", "appraisal", "audience"}
  <2>1. Range(Labelled) = {Labelled[1], Labelled[2], Labelled[3], Labelled[4]}
    BY <1>1 DEF Range
  <2> QED BY <2>1 DEF Labelled
<1> QED BY <1>1, <1>2, <1>3, <1>4

LEMMA UpToFinite == IsFiniteSet(1..4) /\ IsFiniteSet(1..5) /\ IsFiniteSet(1..12)
<1>1. \A n \in Nat : IsFiniteSet(1..n)
  BY FS_Interval
<1>2. 4 \in Nat /\ 5 \in Nat /\ 12 \in Nat
  OBVIOUS
<1> QED BY <1>1, <1>2, Zenon

LEMMA FieldsFinite == IsFiniteSet(Fields)
<1>1. IsFiniteSet(Range(Numeric))
  <2>1. Numeric \in Surjection(1..5, Range(Numeric))
    BY NumericFieldsAre DEF Surjection, Range
  <2>2. IsFiniteSet(1..5)
    BY UpToFinite
  <2> QED BY <2>1, <2>2, FS_Surjection
<1>2. IsFiniteSet(Range(Labelled))
  <2>1. Labelled \in Surjection(1..4, Range(Labelled))
    BY NumericFieldsAre DEF Surjection, Range
  <2>2. IsFiniteSet(1..4)
    BY UpToFinite
  <2> QED BY <2>1, <2>2, FS_Surjection
<1> QED BY <1>1, <1>2, FS_Union DEF Fields

\* The twelve checks, one by one.
LEMMA ChecksAre ==
  ASSUME NEW ai, NEW formula
  PROVE  /\ DOMAIN Checks(ai, formula) = 1..12
         /\ \A i \in 1..5 : Checks(ai, formula)[i] = CheckNumber(Numeric[i], ai, formula)
         /\ \A i \in 1..4 : Checks(ai, formula)[5 + i] = CheckLabel(Labelled[i], ai, formula)
         /\ Checks(ai, formula)[10] = CheckQuality(ai)
         /\ Checks(ai, formula)[11] = CheckCompleteness(ai)
         /\ Checks(ai, formula)[12] = CheckLogical(ai)
<1>1. PICK a : a = [i \in 1..5 |-> CheckNumber(Numeric[i], ai, formula)]
  OBVIOUS
<1>2. PICK b : b = [i \in 1..4 |-> CheckLabel(Labelled[i], ai, formula)]
  OBVIOUS
<1>3. PICK q : q = CheckQuality(ai)
  OBVIOUS
<1>4. PICK k : k = CheckCompleteness(ai)
  OBVIOUS
<1>5. PICK l : l = CheckLogical(ai)
  OBVIOUS
<1>6. PICK c : c = <<q, k, l>>
  OBVIOUS
<1>7. PICK S : S = {CheckNumber(Numeric[i], ai, formula) : i \in 1..5}
                   \cup {CheckLabel(Labelled[i], ai, formula) : i \in 1..4} \cup {q, k, l}
  OBVIOUS
<1>8. /\ a \in Seq(S) /\ Len(a) = 5 /\ b \in Seq(S) /\ Len(b) = 4 /\ c \in Seq(S) /\ Len(c) = 3
      /\ c[1] = q /\ c[2] = k /\ c[3] = l
  BY <1>1, <1>2, <1>6, <1>7
<1>9. PICK ab : ab = a \o b
  OBVIOUS
<1>10. /\ ab \in Seq(S) /\ Len(ab) = 9
       /\ \A i \in 1..5 : ab[i] = a[i]
       /\ \A i \in 1..4 : ab[5 + i] = b[i]
  <2>1. ab \in Seq(S) /\ IsJoin(a, b, ab)
    BY <1>8, <1>9, Joined
  <2> QED BY <1>8, <2>1 DEF IsJoin
<1>11. PICK abc : abc = ab \o c
  OBVIOUS
<1>12. /\ abc \in Seq(S) /\ Len(abc) = 12
       /\ \A i \in 1..9 : abc[i] = ab[i]
       /\ \A i \in 1..3 : abc[9 + i] = c[i]
  <2>1. abc \in Seq(S) /\ IsJoin(ab, c, abc)
    BY <1>8, <1>10, <1>11, Joined
  <2> QED BY <1>8, <1>10, <2>1 DEF IsJoin
<1>13. Checks(ai, formula) = abc
  BY <1>1, <1>2, <1>3, <1>4, <1>5, <1>6, <1>9, <1>11 DEF Checks
<1>14. \A i \in 1..5 : abc[i] = CheckNumber(Numeric[i], ai, formula)
  BY <1>1, <1>10, <1>12
<1>15. \A i \in 1..4 : abc[5 + i] = CheckLabel(Labelled[i], ai, formula)
  <2>1. ASSUME NEW i \in 1..4 PROVE abc[5 + i] = b[i]
    <3>1. 5 + i \in 1..9
      OBVIOUS
    <3> QED BY <1>10, <1>12, <3>1
  <2> QED BY <1>2, <2>1
<1>16. abc[10] = q /\ abc[11] = k /\ abc[12] = l
  <2>1. abc[9 + 1] = c[1] /\ abc[9 + 2] = c[2] /\ abc[9 + 3] = c[3]
    BY <1>12
  <2> QED BY <1>8, <2>1
<1>17. DOMAIN abc = 1..12
  BY <1>12
<1> QED BY <1>3, <1>4, <1>5, <1>13, <1>14, <1>15, <1>16, <1>17

\* The numeric scores of the formulas are in range.
InRange(formula) ==
    \A f \in Range(Numeric) : formula[f] \in IF f = "risk" THEN 0..1000 ELSE -100..100

\* An answer repaired in field f.
With1(ai, formula, f) == [g \in DOMAIN ai \cup {f} |-> IF g = f THEN formula[f] ELSE ai[g]]

\* What fails in the repaired answer fails in the answer.
LEMMA RepairedFails ==
  ASSUME NEW ai, NEW formula, DOMAIN formula = Fields, InRange(formula), NEW f \in Fields,
         NEW fixed, fixed = With1(ai, formula, f)
  PROVE  \A i \in 1..12 : Checks(fixed, formula)[i].status = "fail" => Checks(ai, formula)[i].status = "fail"
<1>1. /\ DOMAIN fixed = DOMAIN ai \cup {f} /\ fixed[f] = formula[f]
      /\ \A g \in DOMAIN ai \ {f} : fixed[g] = ai[g]
  BY DEF With1
<1>2. ASSUME NEW g \in Fields, g # f
      PROVE  Number(fixed, g) = Number(ai, g) /\ Label(fixed, g) = Label(ai, g)
  BY <1>1, <1>2 DEF Number, Label
<1>3. Number(fixed, f) = Number(formula, f) /\ Label(fixed, f) = Label(formula, f)
  BY <1>1 DEF Number, Label
<1>4. ASSUME NEW i \in 1..5, CheckNumber(Numeric[i], fixed, formula).status = "fail"
      PROVE  CheckNumber(Numeric[i], ai, formula).status = "fail"
  <2>1. PICK g \in Range(Numeric) : g = Numeric[i]
    BY NumericFieldsAre
  <2>2. CASE g = f
    <3>1. PICK x \in Int : x = formula[f]
      BY <2>2 DEF InRange
    <3>2. Number(fixed, f) = x /\ Number(formula, f) = x
      BY <1>3, <3>1 DEF Number
    <3>3. Abs(x - x) = 0
      BY DEF Abs
    <3>4. Tolerance[f] \in Nat
      BY <2>2 DEF Tolerance
    <3>5. CheckNumber(f, fixed, formula).status = "pass"
      BY <3>2, <3>3, <3>4 DEF CheckNumber, Found
    <3> QED BY <1>4, <2>1, <2>2, <3>5
  <2>3. CASE g # f
    <3>1. Number(fixed, g) = Number(ai, g)
      BY <1>2, <2>3 DEF Fields
    <3>2. CheckNumber(g, fixed, formula) = CheckNumber(g, ai, formula)
      BY <3>1 DEF CheckNumber
    <3> QED BY <1>4, <2>1, <3>2
  <2> QED BY <2>2, <2>3
<1>5. ASSUME NEW i \in 1..4, CheckLabel(Labelled[i], fixed, formula).status = "fail"
      PROVE  CheckLabel(Labelled[i], ai, formula).status = "fail"
  <2>1. PICK g \in Range(Labelled) : g = Labelled[i]
    BY NumericFieldsAre
  <2>2. CASE g = f
    <3>1. CheckLabel(f, fixed, formula).status = "pass"
      BY <1>3 DEF CheckLabel, Found
    <3> QED BY <1>5, <2>1, <2>2, <3>1
  <2>3. CASE g # f
    <3>1. Label(fixed, g) = Label(ai, g)
      BY <1>2, <2>3 DEF Fields
    <3>2. CheckLabel(g, fixed, formula) = CheckLabel(g, ai, formula)
      BY <3>1 DEF CheckLabel
    <3> QED BY <1>5, <2>1, <3>2
  <2> QED BY <2>2, <2>3
<1>6. ASSUME CheckQuality(fixed).status = "fail" PROVE CheckQuality(ai).status = "fail"
  <2> SUFFICES ASSUME CheckQuality(ai).status # "fail" PROVE CheckQuality(fixed).status # "fail"
    BY <1>6
  <2>1. /\ {"sentiment", "risk", "hedging"} \subseteq DOMAIN ai
        /\ \A g \in Range(Numeric) \cap DOMAIN ai : IF g = "risk" THEN ai[g] \in 0..1000 ELSE ai[g] \in -100..100
    BY DEF CheckQuality, Found
  <2>2. ASSUME NEW g \in Range(Numeric) \cap DOMAIN fixed
        PROVE  IF g = "risk" THEN fixed[g] \in 0..1000 ELSE fixed[g] \in -100..100
    <3>1. CASE g = f
      <4>1. fixed[g] \in IF g = "risk" THEN 0..1000 ELSE -100..100
        BY <1>1, <3>1 DEF InRange
      <4> QED BY <4>1
    <3>2. CASE g # f
      BY <1>1, <2>1, <2>2, <3>2
    <3> QED BY <3>1, <3>2
  <2> QED BY <1>1, <2>1, <2>2, SMTT(30) DEF CheckQuality, Found
<1>7. ASSUME CheckCompleteness(fixed).status = "fail" PROVE CheckCompleteness(ai).status = "fail"
  <2>1. Fields \cap DOMAIN ai \in SUBSET (Fields \cap DOMAIN fixed)
    BY <1>1
  <2>2. IsFiniteSet(Fields \cap DOMAIN fixed)
    BY FieldsFinite, FS_Subset
  <2>3. PICK m \in Nat : m = Cardinality(Fields \cap DOMAIN fixed)
    BY <2>2, FS_CardinalityType
  <2>4. PICK n \in Nat : n = Cardinality(Fields \cap DOMAIN ai)
    BY <2>1, <2>2, FS_Subset, FS_CardinalityType
  <2>5. n <= m
    BY <2>1, <2>2, <2>3, <2>4, FS_Subset
  <2>6. ~(10 * m >= 9 * 9) /\ ~(10 * m >= 7 * 9)
    BY <1>7, <2>3 DEF CheckCompleteness, Found
  <2>7. ~(10 * n >= 9 * 9) /\ ~(10 * n >= 7 * 9)
    BY <2>5, <2>6
  <2> QED BY <2>4, <2>7 DEF CheckCompleteness, Found
<1>8. CheckLogical(fixed).status # "fail"
  BY DEF CheckLogical, Found
<1>9. \A i \in 1..12 : i \in 1..5 \/ (\E j \in 1..4 : i = 5 + j) \/ i = 10 \/ i = 11 \/ i = 12
  <2> SUFFICES ASSUME NEW i \in 1..12, i > 5, i < 10 PROVE \E j \in 1..4 : i = 5 + j
    OBVIOUS
  <2>1. i - 5 \in 1..4 /\ i = 5 + (i - 5)
    OBVIOUS
  <2> QED BY <2>1
<1> HIDE DEF CheckNumber, CheckLabel, CheckQuality, CheckCompleteness, CheckLogical
<1> SUFFICES ASSUME NEW i \in 1..12, Checks(fixed, formula)[i].status = "fail"
             PROVE  Checks(ai, formula)[i].status = "fail"
  OBVIOUS
<1>10. CASE i \in 1..5
  BY <1>4, <1>10, ChecksAre
<1>11. CASE \E j \in 1..4 : i = 5 + j
  BY <1>5, <1>11, ChecksAre
<1>12. CASE i = 10
  BY <1>6, <1>12, ChecksAre
<1>13. CASE i = 11
  BY <1>7, <1>13, ChecksAre
<1>14. CASE i = 12
  BY <1>8, <1>14, ChecksAre
<1> QED BY <1>9, <1>10, <1>11, <1>12, <1>13, <1>14

FailCheckInv ==
    /\ check.at = "called" => DOMAIN check = {"at", "ai", "formula", "changed"}
    /\ DOMAIN check.formula = Fields /\ InRange(check.formula)
    /\ check.at = "judged" => check.result = Judge(check.ai, check.formula)

LEMMA FailCheckInitInv == Init => FailCheckInv
<1> SUFFICES ASSUME Init PROVE FailCheckInv
  OBVIOUS
<1>1. check = [at |-> "called", ai |-> Agreeing, formula |-> Agreeing, changed |-> {}]
  BY DEF Init, FailCheckInit
<1>2. DOMAIN check = {"at", "ai", "formula", "changed"} /\ check.at = "called" /\ check.formula = Agreeing
  BY <1>1
<1>3. DOMAIN Agreeing = Fields /\ \A f \in Range(Numeric) : Agreeing[f] = 20
  BY DEF Agreeing, Fields
<1>4. InRange(Agreeing)
  BY <1>3 DEF InRange
<1> QED BY <1>2, <1>3, <1>4 DEF FailCheckInv

LEMMA FailCheckStepsInv == FailCheckInv /\ [Next]_vars => FailCheckInv'
<1> SUFFICES ASSUME FailCheckInv, [FailCheckNext]_failcheck PROVE FailCheckInv'
  BY FailCheckMove
<1>1. CASE Differ
  <2>1. PICK f \in Fields :
           \E ai \in {Restrict(check.ai, DOMAIN check.ai \ {f})}
                     \cup {[check.ai EXCEPT ![f] = x] : x \in Answered(f)} :
               \E y \in Given(f) :
                  check' = [check EXCEPT !.ai = ai, !.formula = [@ EXCEPT ![f] = y], !.changed = @ \cup {f}]
    BY <1>1 DEF Differ
  <2>2. PICK ai \in {Restrict(check.ai, DOMAIN check.ai \ {f})}
                     \cup {[check.ai EXCEPT ![f] = x] : x \in Answered(f)}, y \in Given(f) :
           check' = [check EXCEPT !.ai = ai, !.formula = [@ EXCEPT ![f] = y], !.changed = @ \cup {f}]
    BY <2>1
  <2>3. check.at = "called" /\ DOMAIN check = {"at", "ai", "formula", "changed"}
    BY <1>1 DEF Differ, FailCheckInv
  <2>4. PICK formula : formula = [check.formula EXCEPT ![f] = y]
    OBVIOUS
  <2>5. DOMAIN check' = {"at", "ai", "formula", "changed"} /\ check'.at = "called" /\ check'.formula = formula
    BY <2>2, <2>3, <2>4
  <2>6. DOMAIN formula = Fields /\ formula[f] = y /\ \A g \in Fields \ {f} : formula[g] = check.formula[g]
    BY <2>4 DEF FailCheckInv
  <2>7. ASSUME NEW g \in Range(Numeric) PROVE formula[g] \in IF g = "risk" THEN 0..1000 ELSE -100..100
    <3>1. CASE g = f
      <4>1. y \in IF f = "risk" THEN Risks ELSE Scores
        <5>1. CASE f = "risk"
          <6>1. Given("risk") = Risks
            BY NumericFieldsAre DEF Given
          <6> QED BY <2>2, <5>1, <6>1
        <5>2. CASE f # "risk"
          <6>1. f \notin Range(Labelled) /\ f \in Range(Numeric) \ {"risk"}
            BY <2>7, <3>1, <5>2, NumericFieldsAre
          <6>2. Given(f) = Scores
            BY <5>2, <6>1 DEF Given
          <6> QED BY <2>2, <5>2, <6>2
        <5> QED BY <5>1, <5>2
      <4> QED BY <2>6, <3>1, <4>1, FormulasAssumption
    <3>2. CASE g # f
      BY <2>6, <2>7, <3>2 DEF FailCheckInv, InRange, Fields
    <3> QED BY <3>1, <3>2
  <2>8. InRange(formula)
    BY <2>7 DEF InRange
  <2>9. DOMAIN check'.formula = Fields /\ InRange(check'.formula)
    BY <2>5, <2>6, <2>8
  <2> QED BY <2>5, <2>9 DEF FailCheckInv, InRange
<1>2. CASE Validate
  <2>1. PICK result : result = Judge(check.ai, check.formula)
    OBVIOUS
  <2>2. check' = [at |-> "judged", ai |-> check.ai, formula |-> check.formula, result |-> result]
    BY <1>2, <2>1 DEF Validate
  <2>3. check'.at = "judged" /\ check'.ai = check.ai /\ check'.formula = check.formula /\ check'.result = result
    BY <2>2
  <2> QED BY <2>1, <2>3 DEF FailCheckInv, InRange
<1>3. CASE UNCHANGED failcheck
  BY <1>3 DEF failcheck, FailCheckInv, InRange
<1> QED BY <1>1, <1>2, <1>3 DEF FailCheckNext

\* An answer that says in one more field what the formulas say never has more
\* checks failed: for any answer and any formulas in range.
THEOREM RepairsNeverHurt == Spec => []RepairNeverHurts
<1>1. ASSUME FailCheckInv PROVE RepairNeverHurts
  <2> SUFFICES ASSUME check.at = "judged", NEW f \in Fields
               PROVE  Judge(Repaired(f), check.formula).failed <= check.result.failed
    BY DEF RepairNeverHurts
  <2>1. PICK fixed : fixed = Repaired(f)
    OBVIOUS
  <2>2. PICK r : r = Checks(check.ai, check.formula)
    OBVIOUS
  <2>3. PICK s : s = Checks(fixed, check.formula)
    OBVIOUS
  <2>4. DOMAIN r = 1..12 /\ DOMAIN s = 1..12
    BY <2>2, <2>3, ChecksAre
  <2>5. \A i \in 1..12 : s[i].status = "fail" => r[i].status = "fail"
    BY <1>1, <2>1, <2>2, <2>3, RepairedFails DEF FailCheckInv, Repaired, With1
  <2>6. PICK R : R = {i \in DOMAIN r : r[i].status = "fail"}
    OBVIOUS
  <2>7. PICK S : S = {i \in DOMAIN s : s[i].status = "fail"}
    OBVIOUS
  <2>8. S \in SUBSET R /\ R \in SUBSET (1..12)
    BY <2>4, <2>5, <2>6, <2>7
  <2>9. IsFiniteSet(R)
    BY <2>8, UpToFinite, FS_Subset
  <2>10. Cardinality(S) <= Cardinality(R)
    BY <2>8, <2>9, FS_Subset
  <2>11. check.result.failed = Cardinality(R)
    BY <1>1, <2>2, <2>6 DEF FailCheckInv, Judge, Count
  <2>12. Judge(fixed, check.formula).failed = Cardinality(S)
    BY <2>3, <2>7 DEF Judge, Count
  <2> QED BY <2>1, <2>10, <2>11, <2>12
<1> QED BY <1>1, FailCheckInitInv, FailCheckStepsInv, PTL DEF Spec

-----------------------------------------------------------------------------
(* What the quality pipeline flags: QualityPipeline.                       *)

LEMMA QualityMove == [Next]_vars => [QualityNext]_quality
BY DEF Next, vars

GraveReasons == {"HIGH_RISK", "CRITICAL_RISK", "CRITICAL_ANOMALY"}
Reasons == GraveReasons \cup {"QUALITY_FAILURE", "LOW_UNCERTAINTY"}

\* What is flagged: a sentence, or a name that is none.
Flag == [id : {r.id : r \in Results} \cup {"generated", "fixture"}, trigger : {Gravest(T) : T \in SUBSET Reasons}]
TranscriptFields == {"at", "results", "next", "verdicts", "calls", "reports", "issues", "valid", "errors"}

\* A grave sentence that can be told from the others.
Apart(t, i) ==
    /\ t.results[i].id # NoId /\ Grave(t.results[i]) # {}
    /\ \A j \in DOMAIN t.results \ {i} : t.results[j].id # t.results[i].id

\* The flags for risk have passed it.
Passed(t, i) ==
    \/ t.at = "auto" /\ i < t.next
    \/ t.at = "done" /\ t.errors \cap {"input", "pipeline"} = {}

TranscriptInv(t) ==
    /\ DOMAIN t = TranscriptFields
    /\ t.results \in Seq(Results) /\ t.next \in Nat \ {0} /\ t.calls \in Seq(Flag)
    /\ \A i \in DOMAIN t.results : Apart(t, i) =>
          /\ \A k \in DOMAIN t.calls :
                t.calls[k].id = t.results[i].id => t.calls[k].trigger = First(Priority, Grave(t.results[i]))
          /\ Passed(t, i) => \E k \in DOMAIN t.calls : t.calls[k].id = t.results[i].id

QualityInv == transcript.at # "none" => TranscriptInv(transcript)

LEMMA GraveTyped == ASSUME NEW r PROVE Grave(r) \in SUBSET GraveReasons
BY DEF Grave, GraveReasons

\* Low confidence never takes the place of a grave reason.
LEMMA GraveFirst ==
  ASSUME NEW T \in SUBSET GraveReasons, T # {}, NEW low \in {{}, {"LOW_UNCERTAINTY"}}
  PROVE  Gravest(T \cup low) = First(Priority, T) /\ First(Priority, T) \in GraveReasons
<1> DEFINE at(U) == {i \in DOMAIN Priority : Priority[i] \in U}
<1>1. DOMAIN Priority = 1..5 /\ Priority[1] = "CRITICAL_RISK" /\ Priority[2] = "CRITICAL_ANOMALY"
      /\ Priority[3] = "HIGH_RISK" /\ Priority[4] = "QUALITY_FAILURE" /\ Priority[5] = "LOW_UNCERTAINTY"
  BY DEF Priority
<1>2. at(T) \in SUBSET Nat /\ at(T \cup low) \in SUBSET Nat
  BY <1>1
<1>3. PICK m \in 1..3 : /\ m \in at(T) /\ \A k \in at(T) : m =< k
                        /\ m \in at(T \cup low) /\ \A k \in at(T \cup low) : m =< k
  <2>1. \A k \in DOMAIN Priority : k \in 1..5
    BY <1>1
  <2>2. CASE "CRITICAL_RISK" \in T
    <3>1. 1 \in at(T) /\ 1 \in at(T \cup low)
      BY <1>1, <2>2
    <3> QED BY <2>1, <3>1
  <2>3. CASE "CRITICAL_RISK" \notin T /\ "CRITICAL_ANOMALY" \in T
    <3>1. 2 \in at(T) /\ 2 \in at(T \cup low) /\ 1 \notin at(T) /\ 1 \notin at(T \cup low)
      BY <1>1, <2>3
    <3>2. \A k \in 1..5 : k # 1 => 2 =< k
      OBVIOUS
    <3> QED BY <2>1, <3>1, <3>2
  <2>4. CASE "CRITICAL_RISK" \notin T /\ "CRITICAL_ANOMALY" \notin T
    <3>1. "HIGH_RISK" \in T
      BY <2>4 DEF GraveReasons
    <3>2. 3 \in at(T) /\ 3 \in at(T \cup low) /\ 1 \notin at(T) /\ 1 \notin at(T \cup low)
          /\ 2 \notin at(T) /\ 2 \notin at(T \cup low)
      BY <1>1, <2>4, <3>1
    <3>3. \A k \in 1..5 : k # 1 /\ k # 2 => 3 =< k
      OBVIOUS
    <3> QED BY <2>1, <3>2, <3>3
  <2> QED BY <2>2, <2>3, <2>4
<1>4. Min(at(T)) = m /\ Min(at(T \cup low)) = m
  BY <1>2, <1>3, LeastIs
<1>5. Gravest(T \cup low) = Priority[m] /\ First(Priority, T) = Priority[m]
  BY <1>4 DEF Gravest, First
<1>6. Priority[m] \in GraveReasons
  BY <1>1 DEF GraveReasons
<1> QED BY <1>5, <1>6

\* A step that flags nothing.
LEMMA NothingFlagged ==
  ASSUME NEW t, NEW u, TranscriptInv(t), DOMAIN u = TranscriptFields, u.results = t.results, u.calls = t.calls,
         u.next \in Nat \ {0}, \A i \in DOMAIN t.results : Passed(u, i) => Passed(t, i)
  PROVE  TranscriptInv(u)
<1>1. \A i \in DOMAIN u.results : Apart(u, i) => Apart(t, i)
  BY DEF Apart
<1> QED BY <1>1 DEF TranscriptInv

\* A step that flags sentence `id', or what is called so.
LEMMA OneFlagged ==
  ASSUME NEW t, NEW id, NEW trigger, TranscriptInv(t), t.at \in {"uncertain", "failing", "auto"},
         t.next \in DOMAIN t.results,
         [id |-> id, trigger |-> trigger] \in Flag,
         \A i \in DOMAIN t.results : Apart(t, i) /\ id = t.results[i].id =>
             trigger = First(Priority, Grave(t.results[i])),
         t.at = "auto" => id = t.results[t.next].id,
         NEW u, u = Next1(Flagged(t, id, trigger))
  PROVE  TranscriptInv(u)
<1>1. PICK n \in Nat \ {0} : n = t.next
  BY DEF TranscriptInv
<1>2. PICK calls : calls = IF trigger = "none" THEN t.calls ELSE Append(t.calls, [id |-> id, trigger |-> trigger])
  OBVIOUS
<1>3. /\ DOMAIN u = TranscriptFields /\ u.results = t.results /\ u.next = n + 1 /\ u.at = t.at
      /\ u.errors = t.errors /\ u.calls = calls
  <2>1. DOMAIN t = TranscriptFields
    BY DEF TranscriptInv
  <2>2. CASE trigger = "none"
    BY <1>1, <1>2, <2>1, <2>2 DEF Next1, Flagged, TranscriptFields
  <2>3. CASE trigger # "none"
    BY <1>1, <1>2, <2>1, <2>3 DEF Next1, Flagged, TranscriptFields
  <2> QED BY <2>2, <2>3
<1>4. PICK l \in Nat : l = Len(t.calls) /\ DOMAIN t.calls = 1..l
  BY DEF TranscriptInv
<1>5. /\ calls \in Seq(Flag) /\ DOMAIN t.calls \subseteq DOMAIN calls
      /\ \A k \in DOMAIN t.calls : calls[k] = t.calls[k]
      /\ \A k \in DOMAIN calls \ DOMAIN t.calls : calls[k].id = id /\ calls[k].trigger = trigger
      /\ trigger # "none" => \E k \in DOMAIN calls : calls[k].id = id
  <2>1. CASE trigger = "none"
    BY <1>2, <2>1 DEF TranscriptInv
  <2>2. CASE trigger # "none"
    <3>1. PICK flag \in Flag : flag = [id |-> id, trigger |-> trigger]
      OBVIOUS
    <3>2. flag.id = id /\ flag.trigger = trigger
      BY <3>1
    <3>3. calls = Append(t.calls, flag) /\ t.calls \in Seq(Flag)
      BY <1>2, <2>2, <3>1 DEF TranscriptInv
    <3>4. /\ calls \in Seq(Flag) /\ DOMAIN calls = 1..l + 1 /\ calls[l + 1] = flag
          /\ \A k \in 1..l : calls[k] = t.calls[k]
      BY <1>4, <3>3
    <3>5. \A k \in 1..l + 1 : k \notin 1..l => k = l + 1
      OBVIOUS
    <3>6. l + 1 \in 1..l + 1 /\ \A k \in 1..l : k \in 1..l + 1
      OBVIOUS
    <3> QED BY <1>4, <3>2, <3>4, <3>5, <3>6
  <2> QED BY <2>1, <2>2
<1>6. \A i \in DOMAIN t.results : Apart(u, i) => Apart(t, i)
  BY <1>3 DEF Apart
<1>7. ASSUME NEW i \in DOMAIN t.results, Apart(t, i), NEW k \in DOMAIN calls, calls[k].id = t.results[i].id
      PROVE  calls[k].trigger = First(Priority, Grave(t.results[i]))
  <2>1. CASE k \in DOMAIN t.calls
    BY <1>5, <1>7, <2>1 DEF TranscriptInv
  <2>2. CASE k \notin DOMAIN t.calls
    BY <1>5, <1>7, <2>2
  <2> QED BY <2>1, <2>2
<1>8. ASSUME NEW i \in DOMAIN t.results, Apart(t, i), Passed(u, i)
      PROVE  \E k \in DOMAIN calls : calls[k].id = t.results[i].id
  <2>1. u.at = "auto" /\ i < n + 1 /\ t.at = "auto"
    BY <1>3, <1>8 DEF Passed
  <2>2. CASE i < n
    <3>1. Passed(t, i)
      BY <1>1, <2>1, <2>2 DEF Passed
    <3>2. PICK k \in DOMAIN t.calls : t.calls[k].id = t.results[i].id
      BY <1>8, <3>1 DEF TranscriptInv
    <3> QED BY <1>5, <3>2
  <2>3. CASE ~(i < n)
    <3>1. i \in Nat
      BY DEF TranscriptInv
    <3>2. i = n
      BY <2>1, <2>3, <3>1
    <3>3. id = t.results[i].id
      BY <1>1, <2>1, <3>2
    <3>4. trigger = First(Priority, Grave(t.results[i]))
      BY <1>8, <3>3
    <3>5. trigger \in GraveReasons
      BY <1>8, <3>4, GraveTyped, GraveFirst DEF Apart
    <3>6. trigger # "none"
      BY <3>5 DEF GraveReasons
    <3> QED BY <1>5, <3>3, <3>6
  <2> QED BY <2>2, <2>3
<1>9. /\ t.results \in Seq(Results) /\ n + 1 \in Nat \ {0}
  BY DEF TranscriptInv
<1> HIDE DEF TranscriptFields, Flag, Apart, Passed, First, Grave
<1> QED BY <1>3, <1>5, <1>6, <1>7, <1>8, <1>9 DEF TranscriptInv

LEMMA FlagTyped ==
  ASSUME NEW id, NEW T \in SUBSET Reasons, (\E r \in Results : id = r.id) \/ id \in {"generated", "fixture"}
  PROVE  [id |-> id, trigger |-> Gravest(T)] \in Flag
BY DEF Flag

\* What the first search finds of a sentence is the sentence.
LEMMA OutputOfApart ==
  ASSUME TranscriptInv(transcript), NEW i \in DOMAIN transcript.results, Apart(transcript, i)
  PROVE  OutputOf(transcript.results[i].id) = transcript.results[i]
<1>1. i \in Nat
  BY DEF TranscriptInv
<1>2. PICK found : found = {j \in DOMAIN transcript.results :
                               transcript.results[j].id = transcript.results[i].id /\ transcript.results[i].id # NoId}
  OBVIOUS
<1>3. found = {i}
  BY <1>2 DEF Apart
<1>4. Min(found) = i
  BY <1>1, <1>3, LeastIs
<1> QED BY <1>2, <1>3, <1>4 DEF OutputOf

LEMMA QualityInitInv == Init => QualityInv
<1> SUFFICES ASSUME Init, transcript.at # "none" PROVE TranscriptInv(transcript)
  BY DEF QualityInv
<1>1. QualityInit
  BY DEF Init
<1>2. PICK n \in 0..MaxResults : \E results \in [1..n -> Results] :
          transcript = [at |-> "input", results |-> results, next |-> 1, verdicts |-> <<>>, calls |-> <<>>,
                        reports |-> <<>>, issues |-> 0, valid |-> TRUE, errors |-> {}]
  BY <1>1 DEF QualityInit
<1>3. PICK results \in [1..n -> Results] :
          transcript = [at |-> "input", results |-> results, next |-> 1, verdicts |-> <<>>, calls |-> <<>>,
                        reports |-> <<>>, issues |-> 0, valid |-> TRUE, errors |-> {}]
  BY <1>2
<1>4. n \in Nat /\ results \in Seq(Results)
  BY <1>2, <1>3
<1>5. /\ DOMAIN transcript = TranscriptFields /\ transcript.at = "input" /\ transcript.results = results
      /\ transcript.next = 1 /\ transcript.calls = <<>>
  BY <1>3 DEF TranscriptFields
<1>6. transcript.calls \in Seq(Flag) /\ DOMAIN transcript.calls = {}
  BY <1>5
<1>7. \A i : ~Passed(transcript, i)
  BY <1>5 DEF Passed
<1> QED BY <1>4, <1>5, <1>6, <1>7 DEF TranscriptInv

LEMMA QualityStepsInv == QualityInv /\ [Next]_vars => QualityInv'
<1> SUFFICES ASSUME QualityInv, [QualityNext]_quality, transcript'.at # "none" PROVE TranscriptInv(transcript')
  BY QualityMove DEF QualityInv
<1>0. CASE UNCHANGED quality
  BY <1>0 DEF quality, QualityInv
<1>1. ASSUME QualityNext PROVE transcript.at # "none"
  BY <1>1 DEF QualityNext, InputRefused, ValidateOutput, ScoreBatch, EndScoring, FlagUncertain, LoadFixtures,
              EvaluateBatch, FlagFailing, EndFailing, AutoFlag, Temporal
<1> SUFFICES ASSUME QualityNext PROVE TranscriptInv(transcript')
  BY <1>0
<1> DEFINE t == transcript
           u == transcript'
           Quiet == /\ DOMAIN u = TranscriptFields /\ u.results = t.results /\ u.calls = t.calls
                    /\ u.next \in Nat \ {0} /\ \A i \in DOMAIN t.results : Passed(u, i) => Passed(t, i)
<1>2. TranscriptInv(t)
  BY <1>1 DEF QualityInv
<1>3. PICK n \in Nat \ {0} : n = t.next
  BY <1>2 DEF TranscriptInv
<1>4. DOMAIN t = TranscriptFields
  BY <1>2 DEF TranscriptInv
<1>5. Quiet => TranscriptInv(u)
  BY <1>2, NothingFlagged
<1>6. ASSUME NEW at, NEW v, u = Step(at, v), at \notin {"done"}, DOMAIN v = TranscriptFields,
             v.results = t.results, v.calls = t.calls
      PROVE  Quiet
  <2>1. /\ DOMAIN u = TranscriptFields /\ u.results = t.results /\ u.calls = t.calls /\ u.next = 1 /\ u.at = at
    BY <1>6 DEF Step, TranscriptFields
  <2>2. ASSUME NEW i \in DOMAIN t.results PROVE ~Passed(u, i)
    <3>1. i \in Nat \ {0}
      BY <1>2 DEF TranscriptInv
    <3> QED BY <1>6, <2>1, <3>1 DEF Passed
  <2> QED BY <2>1, <2>2
<1>7. ASSUME u = PipelineError(t) PROVE Quiet
  <2>1. /\ DOMAIN u = TranscriptFields /\ u.results = t.results /\ u.calls = t.calls /\ u.next = n
        /\ u.at = "done" /\ "pipeline" \in u.errors
    BY <1>3, <1>4, <1>7 DEF PipelineError, TranscriptFields
  <2> QED BY <2>1 DEF Passed
<1>8. ASSUME NEW v, u = Next1(v), DOMAIN v = TranscriptFields, v.results = t.results, v.calls = t.calls,
             v.next = t.next, v.at = t.at, t.at # "auto", t.at # "done"
      PROVE  Quiet
  <2>1. /\ DOMAIN u = TranscriptFields /\ u.results = t.results /\ u.calls = t.calls /\ u.next = n + 1 /\ u.at = t.at
    BY <1>3, <1>8 DEF Next1, TranscriptFields
  <2> QED BY <1>8, <2>1 DEF Passed
<1>9. CASE InputRefused
  <2>1. /\ DOMAIN u = TranscriptFields /\ u.results = t.results /\ u.calls = t.calls /\ u.next = n
        /\ u.at = "done" /\ "input" \in u.errors
    BY <1>3, <1>4, <1>9 DEF InputRefused, TranscriptFields
  <2> QED BY <1>5, <2>1 DEF Passed
<1>10. CASE ValidateOutput
  <2>1. PICK v : v = (IF Conforms(t.results) THEN t ELSE [t EXCEPT !.valid = FALSE, !.errors = {"output"}])
    OBVIOUS
  <2>2. DOMAIN v = TranscriptFields /\ v.results = t.results /\ v.calls = t.calls
    BY <1>4, <2>1 DEF TranscriptFields
  <2>3. u = Step("scoring", v)
    BY <1>10, <2>1 DEF ValidateOutput
  <2> QED BY <1>5, <1>6, <2>2, <2>3
<1>11. CASE ScoreBatch
  <2>1. PICK replies : u = Next1([t EXCEPT !.verdicts = Append(@, ScoreSentence(replies))])
    BY <1>11 DEF ScoreBatch
  <2>2. PICK v : v = [t EXCEPT !.verdicts = Append(@, ScoreSentence(replies))]
    OBVIOUS
  <2>3. /\ DOMAIN v = TranscriptFields /\ v.results = t.results /\ v.calls = t.calls /\ v.next = t.next
        /\ v.at = t.at
    BY <1>4, <2>2 DEF TranscriptFields
  <2>4. u = Next1(v) /\ t.at = "scoring"
    BY <1>11, <2>1, <2>2 DEF ScoreBatch
  <2> QED BY <1>5, <1>8, <2>3, <2>4
<1>12. CASE EndScoring
  <2>1. u = Step("uncertain", t)
    BY <1>12 DEF EndScoring
  <2> QED BY <1>4, <1>5, <1>6, <2>1
<1>13. CASE FlagUncertain
  <2> DEFINE r == t.results[t.next]
             output == OutputOf(r.id)
             low == IF t.verdicts[t.next].confidence < 50 THEN {"LOW_UNCERTAINTY"} ELSE {}
             name == IF r.id = NoId THEN "generated" ELSE r.id
             trigger == Gravest(Grave(output) \cup low)
  <2>1. /\ t.at = "uncertain" /\ t.next \in DOMAIN t.results
        /\ u = Next1(t) \/ u = PipelineError(t) \/ u = Next1(Flagged(t, name, trigger))
    BY <1>13 DEF FlagUncertain
  <2>2. CASE u = Next1(t)
    BY <1>4, <1>5, <1>8, <2>1, <2>2
  <2>3. CASE u = PipelineError(t)
    BY <1>5, <1>7, <2>3
  <2>4. CASE u = Next1(Flagged(t, name, trigger))
    <3>1. low \in {{}, {"LOW_UNCERTAINTY"}} /\ Grave(output) \in SUBSET GraveReasons
      BY GraveTyped
    <3>2. r \in Results
      BY <1>2, <2>1 DEF TranscriptInv
    <3>3. Grave(output) \cup low \in SUBSET Reasons
      BY <3>1 DEF Reasons
    <3>4. [id |-> name, trigger |-> trigger] \in Flag
      BY <3>2, <3>3, FlagTyped
    <3>5. ASSUME NEW i \in DOMAIN t.results, Apart(t, i), name = t.results[i].id
          PROVE  trigger = First(Priority, Grave(t.results[i]))
      <4>1. t.results[i] \in Results
        BY <1>2 DEF TranscriptInv
      <4>2. name # "generated"
        BY <3>5, <4>1, ResultsAssumption
      <4>3. r.id = t.results[i].id
        BY <3>5, <4>2
      <4>4. output = t.results[i]
        BY <1>2, <3>5, <4>3, OutputOfApart
      <4>5. Grave(t.results[i]) # {}
        BY <3>5 DEF Apart
      <4> QED BY <3>1, <4>4, <4>5, GraveFirst
    <3> HIDE DEF name, trigger
    <3> QED BY <1>2, <2>1, <2>4, <3>4, <3>5, OneFlagged
  <2> QED BY <2>1, <2>2, <2>3, <2>4
<1>14. CASE LoadFixtures
  <2>1. u = Step("evaluating", t) \/ u = PipelineError(t)
    BY <1>14 DEF LoadFixtures
  <2> QED BY <1>4, <1>5, <1>6, <1>7, <2>1
<1>15. CASE EvaluateBatch
  <2>1. PICK reports : u = Step("failing", [t EXCEPT !.reports = reports])
    BY <1>15 DEF EvaluateBatch
  <2>2. PICK v : v = [t EXCEPT !.reports = reports]
    OBVIOUS
  <2>3. DOMAIN v = TranscriptFields /\ v.results = t.results /\ v.calls = t.calls
    BY <1>4, <2>2 DEF TranscriptFields
  <2>4. u = Step("failing", v)
    BY <2>1, <2>2
  <2> QED BY <1>5, <1>6, <2>3, <2>4
<1>16. CASE FlagFailing
  <2>1. CASE u = Next1(t)
    BY <1>4, <1>5, <1>8, <1>16, <2>1 DEF FlagFailing
  <2>2. CASE u # Next1(t)
    <3>1. PICK v : v = [t EXCEPT !.issues = @ + 1]
      OBVIOUS
    <3>2. PICK trigger : trigger = Gravest({"QUALITY_FAILURE"})
      OBVIOUS
    <3>3. u = Next1(Flagged(v, "fixture", trigger)) /\ t.at = "failing" /\ t.next \in DOMAIN t.results
      BY <1>16, <2>2, <3>1, <3>2 DEF FlagFailing
    <3>4. /\ DOMAIN v = TranscriptFields /\ v.results = t.results /\ v.calls = t.calls /\ v.next = t.next
          /\ v.at = t.at /\ v.errors = t.errors
      BY <1>4, <3>1 DEF TranscriptFields
    <3>5. TranscriptInv(v)
      <4>1. \A i \in DOMAIN t.results : Passed(v, i) => Passed(t, i)
        BY <3>4 DEF Passed
      <4> QED BY <1>2, <1>3, <3>4, <4>1, NothingFlagged
    <3>6. [id |-> "fixture", trigger |-> trigger] \in Flag
      BY <3>2, FlagTyped DEF Reasons
    <3>7. \A i \in DOMAIN v.results : v.results[i].id # "fixture"
      BY <3>5, ResultsAssumption DEF TranscriptInv
    <3> QED BY <3>3, <3>4, <3>5, <3>6, <3>7, OneFlagged
  <2> QED BY <2>1, <2>2
<1>17. CASE EndFailing
  <2>1. u = Step("auto", t)
    BY <1>17 DEF EndFailing
  <2> QED BY <1>4, <1>5, <1>6, <2>1
<1>18. CASE AutoFlag
  <2> DEFINE r == t.results[t.next]
             trigger == Gravest(Grave(r))
  <2>1. /\ t.at = "auto" /\ t.next \in DOMAIN t.results
        /\ u = PipelineError(t) \/ u = Next1(Flagged(t, r.id, trigger))
    BY <1>18 DEF AutoFlag
  <2>2. CASE u = PipelineError(t)
    BY <1>5, <1>7, <2>2
  <2>3. CASE u = Next1(Flagged(t, r.id, trigger))
    <3>1. r \in Results
      BY <1>2, <2>1 DEF TranscriptInv
    <3>2. Grave(r) \in SUBSET Reasons
      BY GraveTyped DEF Reasons
    <3>3. [id |-> r.id, trigger |-> trigger] \in Flag
      BY <3>1, <3>2, FlagTyped
    <3>4. ASSUME NEW i \in DOMAIN t.results, Apart(t, i), r.id = t.results[i].id
          PROVE  trigger = First(Priority, Grave(t.results[i]))
      <4>1. i = t.next
        BY <2>1, <3>4 DEF Apart
      <4> QED BY <4>1 DEF Gravest
    <3>5. PICK id : id = r.id
      OBVIOUS
    <3> HIDE DEF trigger
    <3> QED BY <1>2, <2>1, <2>3, <3>3, <3>4, OneFlagged
  <2> QED BY <2>1, <2>2, <2>3
<1>19. CASE Temporal
  <2>1. /\ t.at = "auto" /\ t.next \notin DOMAIN t.results
        /\ \/ u = Step("done", t)
           \/ u = Step("done", [t EXCEPT !.errors = @ \cup {"temporal"}])
    BY <1>19 DEF Temporal
  <2>2. PICK v : v \in {t, [t EXCEPT !.errors = @ \cup {"temporal"}]} /\ u = Step("done", v)
    BY <2>1
  <2>3. DOMAIN v = TranscriptFields /\ v.results = t.results /\ v.calls = t.calls
    BY <1>4, <2>2 DEF TranscriptFields
  <2>4. DOMAIN u = TranscriptFields /\ u.results = t.results /\ u.calls = t.calls /\ u.next = 1
    BY <2>2, <2>3 DEF Step, TranscriptFields
  <2>5. ASSUME NEW i \in DOMAIN t.results PROVE Passed(t, i)
    <3>1. PICK l \in Nat : DOMAIN t.results = 1..l
      BY <1>2 DEF TranscriptInv
    <3>2. i \in 1..l /\ n \notin 1..l
      BY <1>3, <2>1, <3>1
    <3>3. i < n
      BY <3>2
    <3> QED BY <1>3, <2>1, <3>3 DEF Passed
  <2> QED BY <1>5, <2>4, <2>5
<1> QED BY <1>9, <1>10, <1>11, <1>12, <1>13, <1>14, <1>15, <1>16, <1>17, <1>18, <1>19 DEF QualityNext

\* Unless the transcript is refused or the pipeline breaks off, a grave sentence
\* that can be told from the others is flagged, and its first flag names the
\* gravest of its reasons: for any analyses, fixtures and replies.
THEOREM GraveOnesAreFlagged == Spec => []GraveAreFlagged
<1>1. ASSUME QualityInv PROVE GraveAreFlagged
  <2> SUFFICES ASSUME transcript.at = "done", transcript.errors \cap {"input", "pipeline"} = {},
                      NEW i \in DOMAIN transcript.results, Apart(transcript, i),
                      NEW mine, mine = {k \in DOMAIN transcript.calls : transcript.calls[k].id = transcript.results[i].id}
               PROVE  mine # {} /\ transcript.calls[Min(mine)].trigger = First(Priority, Grave(transcript.results[i]))
    BY DEF GraveAreFlagged, Apart
  <2>1. TranscriptInv(transcript)
    BY <1>1 DEF QualityInv
  <2>2. mine # {}
    BY <2>1 DEF TranscriptInv, Passed
  <2>3. mine \in SUBSET Nat
    BY <2>1 DEF TranscriptInv
  <2>4. Min(mine) \in mine
    BY <2>2, <2>3, LeastIn
  <2> QED BY <2>1, <2>2, <2>4 DEF TranscriptInv
<1> QED BY <1>1, QualityInitInv, QualityStepsInv, PTL DEF Spec

-----------------------------------------------------------------------------
(* What the recovery makes of replies: JsonRecovery and AiClients.         *)

LEMMA ClientsMove == [Next]_vars => [ClientsNext]_clients
BY DEF Next, vars

\* What is sent whole, alone or in a fence or flat among words.
Readable(t) ==
    /\ WellFormed(t) /\ t.body \in Objects \ {"empty"}
    /\ t.around \in {"alone", "fence"} \/ t.body \in {"object", "pair"}

\* One of the first three levels returns it, and those before it nothing.
LEMMA ReadableRecovered ==
  ASSUME NEW t, Readable(t), NEW schema
  PROVE  Recover(t, schema).data = "whole"
<1>1. PICK tried : tried = Try(t, schema)
  OBVIOUS
<1>2. /\ DOMAIN tried = 1..6
      /\ tried[1] = Direct(t) /\ tried[2] = Stripped(t) /\ tried[3] = FirstBlock(t)
  BY <1>1 DEF Try
<1>3. ValueOf(t) = "whole"
  BY DEF Readable, ValueOf
<1>4. PICK m \in 1..3 : tried[m] = "whole" /\ \A i \in 1..6 : i < m => tried[i] = "none"
  <2>1. CASE t.around = "alone"
    <3>1. tried[1] = "whole"
      BY <1>2, <1>3, <2>1 DEF Direct, Parses, Readable
    <3>2. \A i \in 1..6 : ~(i < 1)
      OBVIOUS
    <3> QED BY <3>1, <3>2
  <2>2. CASE t.around = "fence"
    <3>1. tried[1] = "none" /\ tried[2] = "whole"
      BY <1>2, <1>3, <2>2 DEF Direct, Parses, Stripped, Readable
    <3>2. \A i \in 1..6 : i < 2 => i = 1
      OBVIOUS
    <3> QED BY <3>1, <3>2
  <2>3. CASE t.around \notin {"alone", "fence"}
    <3>1. t.body \in {"object", "pair"} /\ t.head = "kept" /\ ~t.cut
      BY <2>3 DEF Readable, WellFormed
    <3>2. FirstBlock(t) = "whole"
      BY <1>3, <3>1 DEF FirstBlock
    <3>3. tried[1] = "none" /\ tried[2] = "none" /\ tried[3] = "whole"
      BY <1>2, <2>3, <3>2 DEF Direct, Parses, Stripped
    <3>4. \A i \in 1..6 : i < 3 => i = 1 \/ i = 2
      OBVIOUS
    <3> QED BY <3>3, <3>4
  <2> QED BY <2>1, <2>2, <2>3
<1>5. PICK found : found = {i \in DOMAIN tried : tried[i] # "none"}
  OBVIOUS
<1>6. found \in SUBSET Nat /\ m \in found /\ \A k \in found : m =< k
  BY <1>2, <1>4, <1>5
<1>7. Min(found) = m
  BY <1>6, LeastIs
<1>8. FirstOf(tried).data = tried[m]
  BY <1>5, <1>6, <1>7 DEF FirstOf
<1> QED BY <1>1, <1>4, <1>8 DEF Recover

CallFields == {"at", "client", "json", "schema", "left", "completions", "recovered"}

\* Whoever answered: what has a text succeeded.
AnswersOf(b) == Answers(b, TRUE) \cup Answers(b, FALSE)
Replied == {c \in (UNION {AnswersOf(b) : b \in Backends}) \cup {Failure} : c.content = "text" => c.success}

ClientsInv ==
    /\ DOMAIN call = CallFields
    /\ call.at \notin {"new", "done"} => call.client \in Backends
    /\ call.json \in BOOLEAN
    /\ call.completions \in Seq(Replied)
    /\ call.at # "done" => call.recovered = <<>>
    /\ call.recovered = <<>>
       \/ call.recovered = [i \in DOMAIN call.completions |-> Recovered(call.completions[i], call.schema)]

LEMMA AnswersReplied ==
  ASSUME NEW client \in Backends, NEW json \in BOOLEAN, NEW c \in Answers(client, json) \cup {Failure}
  PROVE  c \in Replied
<1>1. ASSUME NEW text, NEW parsed, c = Completion("text", text, parsed, json) PROVE c.success
  BY <1>1 DEF Completion
<1>2. ASSUME NEW content \in {"empty", "null"}, c = Without(content) PROVE c.content # "text"
  BY <1>2 DEF Without, Completion
<1>3. Failure.content # "text"
  BY DEF Failure
<1>4. c \in Local(json) => (c.content = "text" => c.success)
  BY <1>1, <1>2 DEF Local
<1>5. c \in Anthropic(json) => (c.content = "text" => c.success)
  <2>1. CASE json
    BY <1>1, <1>2, <1>3, <2>1 DEF Anthropic
  <2>2. CASE ~json
    BY <1>1, <1>2, <2>2 DEF Anthropic
  <2> QED BY <2>1, <2>2
<1>6. c \in Local(json) \/ c \in Anthropic(json) \/ c = Failure
  BY DEF Answers, Backends, Groq, Gemini
<1>7. c.content = "text" => c.success
  BY <1>3, <1>4, <1>5, <1>6
<1>8. c \in AnswersOf(client) \/ c = Failure
  BY DEF AnswersOf
<1>9. c \in (UNION {AnswersOf(b) : b \in Backends}) \cup {Failure}
  BY <1>8
<1> QED BY <1>7, <1>9 DEF Replied

LEMMA AppendedInv ==
  ASSUME ClientsInv, call.at = "asking", NEW c \in Replied, Append1(c)
  PROVE  ClientsInv'
<1>1. PICK completions : completions = Append(call.completions, c)
  OBVIOUS
<1>2. completions \in Seq(Replied)
  BY <1>1 DEF ClientsInv
<1>3. PICK at : at = IF call.left = 1 THEN "answered" ELSE "asking"
  OBVIOUS
<1>4. call' = [call EXCEPT !.completions = completions, !.left = call.left - 1, !.at = at]
  BY <1>1, <1>3 DEF Append1
<1>5. /\ DOMAIN call' = CallFields /\ call'.client = call.client /\ call'.json = call.json
      /\ call'.completions = completions /\ call'.recovered = <<>>
  BY <1>4 DEF ClientsInv, CallFields
<1> QED BY <1>2, <1>5 DEF ClientsInv

LEMMA ClientsInitInv == Init => ClientsInv
<1> SUFFICES ASSUME Init PROVE ClientsInv
  OBVIOUS
<1>1. call = [at |-> "new", client |-> "none", json |-> FALSE, schema |-> FALSE, left |-> 0,
              completions |-> <<>>, recovered |-> <<>>]
  BY DEF Init, ClientsInit
<1>2. /\ DOMAIN call = CallFields /\ call.at = "new" /\ call.json = FALSE /\ call.completions = <<>>
      /\ call.recovered = <<>>
  BY <1>1 DEF CallFields
<1>3. call.completions \in Seq(Replied)
  BY <1>2
<1> QED BY <1>2, <1>3 DEF ClientsInv

LEMMA ClientsStepsInv == ClientsInv /\ [Next]_vars => ClientsInv'
<1> SUFFICES ASSUME ClientsInv, [ClientsNext]_clients PROVE ClientsInv'
  BY ClientsMove
<1>0. DOMAIN call = CallFields
  BY DEF ClientsInv
<1>1. CASE NewClient
  <2>1. PICK s \in Settings :
          call' = [call EXCEPT !.client = FromSettings(s),
                               !.at = IF FromSettings(s) = "refused" THEN "done" ELSE "ready"]
    BY <1>1 DEF NewClient
  <2>2. PICK client : client = FromSettings(s)
    OBVIOUS
  <2>3. client = "refused" \/ client \in Backends
    BY <2>1, <2>2 DEF FromSettings, Create, Settings
  <2>4. PICK at : at = IF client = "refused" THEN "done" ELSE "ready"
    OBVIOUS
  <2>5. call' = [call EXCEPT !.client = client, !.at = at]
    BY <2>1, <2>2, <2>4
  <2>6. /\ DOMAIN call' = CallFields /\ call'.client = client /\ call'.at = at /\ call'.json = call.json
        /\ call'.completions = call.completions /\ call'.recovered = call.recovered
    BY <1>0, <2>5 DEF CallFields
  <2>7. call.recovered = <<>>
    BY <1>1 DEF NewClient, ClientsInv
  <2> QED BY <2>3, <2>4, <2>6, <2>7 DEF ClientsInv
<1>2. CASE Ask
  <2>1. PICK n \in 1..MaxMessages, json \in BOOLEAN, schema \in BOOLEAN :
          call' = [call EXCEPT !.at = "asking", !.left = n, !.json = json, !.schema = schema]
    BY <1>2, Zenon DEF Ask
  <2>2. /\ DOMAIN call' = CallFields /\ call'.client = call.client /\ call'.json = json
        /\ call'.completions = call.completions /\ call'.recovered = call.recovered
    BY <1>0, <2>1 DEF CallFields
  <2>3. call.recovered = <<>> /\ call.client \in Backends
    BY <1>2 DEF Ask, ClientsInv
  <2> QED BY <2>1, <2>2, <2>3 DEF ClientsInv
<1>3. CASE Complete
  <2>1. call.at = "asking" /\ call.client \in Backends /\ call.json \in BOOLEAN
    BY <1>3 DEF Complete, ClientsInv
  <2>2. PICK c \in Answers(call.client, call.json) : Append1(c)
    BY <1>3 DEF Complete
  <2> QED BY <2>1, <2>2, AnswersReplied, AppendedInv
<1>4. CASE CompleteFails
  <2>1. call.at = "asking" /\ call.client \in Backends /\ call.json \in BOOLEAN /\ Append1(Failure)
    BY <1>4 DEF CompleteFails, ClientsInv
  <2> QED BY <2>1, AnswersReplied, AppendedInv
<1>5. CASE RecoverAll
  <2>1. PICK recovered : recovered = [i \in DOMAIN call.completions |-> Recovered(call.completions[i], call.schema)]
    OBVIOUS
  <2>2. call' = [call EXCEPT !.at = "done", !.recovered = recovered]
    BY <1>5, <2>1 DEF RecoverAll
  <2>3. /\ DOMAIN call' = CallFields /\ call'.at = "done" /\ call'.json = call.json
        /\ call'.completions = call.completions /\ call'.recovered = recovered /\ call'.schema = call.schema
    BY <1>0, <2>2 DEF CallFields
  <2> QED BY <2>1, <2>3 DEF ClientsInv, Recovered
<1>6. CASE HangUp \/ UNCHANGED clients
  BY <1>6 DEF HangUp, clients, ClientsInv, Recovered
<1> QED BY <1>1, <1>2, <1>3, <1>4, <1>5, <1>6 DEF ClientsNext

\* A complete object that a local, Gemini or Groq model sent, alone or in a fence,
\* or a flat one among any words, comes out of the recovery engine whole, whichever
\* of its levels are tried before the one that takes it.
THEOREM WholeIsRecovered == Spec => []RecoveredWhole
<1>1. ASSUME ClientsInv PROVE RecoveredWhole
  <2> SUFFICES ASSUME NEW i \in DOMAIN call.recovered, call.completions[i].content = "text",
                      Readable(call.completions[i].text)
               PROVE  call.recovered[i].data = "whole"
    BY DEF RecoveredWhole, Readable
  <2>1. DOMAIN <<>> = {}
    OBVIOUS
  <2>2. call.recovered = [j \in DOMAIN call.completions |-> Recovered(call.completions[j], call.schema)]
    BY <1>1, <2>1 DEF ClientsInv
  <2>3. PICK c \in Replied : c = call.completions[i]
    BY <1>1, <2>2 DEF ClientsInv
  <2>4. c.success
    BY <2>3 DEF Replied
  <2>5. call.recovered[i] = Recovered(c, call.schema)
    BY <2>2, <2>3
  <2>6. Recovered(c, call.schema) = Recover(c.text, call.schema)
    BY <2>3, <2>4 DEF Recovered
  <2> QED BY <2>3, <2>5, <2>6, ReadableRecovered
<1> QED BY <1>1, ClientsInitInv, ClientsStepsInv, PTL DEF Spec

-----------------------------------------------------------------------------
(* The risk level of an analysis: AnomalyScoring.                          *)

\* Induction on natural numbers, for the set of those that have a property.
LEMMA Inductive ==
  ASSUME NEW P \in SUBSET Nat, 0 \in P, \A n \in P : n + 1 \in P
  PROVE  P = Nat
<1> SUFFICES ASSUME Nat \ P # {} PROVE FALSE
  OBVIOUS
<1>1. PICK m \in Nat \ P : \A k \in Nat \ P : <<k, m>> \notin OpToRel(<, Nat)
  <2>1. Nat \ P \subseteq Nat
    OBVIOUS
  <2> QED BY <2>1, WFMin, NatLessThanWellFounded, Zenon
<1>2. \A k \in Nat \ P : ~(k < m)
  BY <1>1, Zenon DEF OpToRel
<1>3. m # 0 /\ m - 1 \in Nat /\ m - 1 < m /\ (m - 1) + 1 = m
  OBVIOUS
<1> QED BY <1>2, <1>3

-----------------------------------------------------------------------------
(* Sums of sequences are integers.                                         *)

Pick(s) == CHOOSE x \in s : TRUE
SumBy(v, D) == CHOOSE g : g = [s \in SUBSET D |-> IF s = {} THEN 0 ELSE v[Pick(s)] + g[s \ {Pick(s)}]]

LEMMA SumIs == ASSUME NEW v PROVE SumOf(v) = SumBy(v, DOMAIN v)[DOMAIN v]
BY DEF SumOf, FoldSeq, FoldFunction, FoldFunctionOnSet, MapThenFoldSet, SumBy, Pick

LEMMA SumTyped ==
  ASSUME NEW v, IsFiniteSet(DOMAIN v), \A i \in DOMAIN v : v[i] \in Int
  PROVE  SumOf(v) \in Int
<1>1. PICK D : D = DOMAIN v
  OBVIOUS
<1> DEFINE Body(g, s) == IF s = {} THEN 0 ELSE v[Pick(s)] + g[s \ {Pick(s)}]
<1>2. ASSUME NEW s \in SUBSET D
      PROVE  /\ IsFiniteSet(s) /\ Cardinality(s) \in Nat
             /\ s # {} => /\ v[Pick(s)] \in Int /\ s \ {Pick(s)} \in SUBSET D
                          /\ Cardinality(s \ {Pick(s)}) = Cardinality(s) - 1
             /\ Cardinality(s) <= 0 => s = {}
  <2>1. IsFiniteSet(s) /\ Cardinality(s) \in Nat
    BY <1>1, FS_Subset, FS_CardinalityType
  <2>2. Cardinality(s) <= 0 => s = {}
    BY <2>1, FS_EmptySet
  <2>3. ASSUME s # {} PROVE Pick(s) \in s
    BY <2>3 DEF Pick
  <2>4. ASSUME s # {} PROVE Cardinality(s \ {Pick(s)}) = Cardinality(s) - 1
    BY <2>1, <2>3, <2>4, FS_RemoveElement
  <2> QED BY <1>1, <2>1, <2>2, <2>3, <2>4
<1>3. \E g : g = [s \in SUBSET D |-> Body(g, s)]
  <2> DEFINE Upto(g, k) == \A s \in SUBSET D : Cardinality(s) <= k => g[s] = Body(g, s)
             P == {k \in Nat : \E g \in [SUBSET D -> Int] : Upto(g, k)}
  <2>1. 0 \in P
    <3>1. PICK g : g = [s \in SUBSET D |-> 0]
      OBVIOUS
    <3>2. g \in [SUBSET D -> Int] /\ \A s \in SUBSET D : g[s] = 0
      BY <3>1
    <3>3. Upto(g, 0)
      BY <1>2, <3>2
    <3> HIDE DEF Upto
    <3> QED BY <3>2, <3>3
  <2>2. ASSUME NEW k \in P PROVE k + 1 \in P
    <3>1. PICK g \in [SUBSET D -> Int] : Upto(g, k)
      OBVIOUS
    <3>2. PICK h : h = [s \in SUBSET D |-> Body(g, s)]
      OBVIOUS
    <3>3. ASSUME NEW s \in SUBSET D PROVE Body(g, s) \in Int
      <4>1. CASE s = {}
        BY <4>1
      <4>2. CASE s # {}
        <5>1. PICK r \in SUBSET D : r = s \ {Pick(s)}
          BY <1>2, <4>2
        <5>2. g[r] \in Int /\ v[Pick(s)] \in Int
          BY <1>2, <4>2
        <5>3. Body(g, s) = v[Pick(s)] + g[r]
          BY <4>2, <5>1
        <5> HIDE DEF Body
        <5> QED BY <5>2, <5>3
      <4> QED BY <4>1, <4>2
    <3>4. h \in [SUBSET D -> Int]
      BY <3>2, <3>3
    <3>5. ASSUME NEW s \in SUBSET D, Cardinality(s) <= k + 1 PROVE h[s] = Body(h, s)
      <4>1. CASE s = {}
        BY <3>2, <4>1
      <4>2. CASE s # {}
        <5>1. PICK r \in SUBSET D : r = s \ {Pick(s)}
          BY <1>2, <4>2
        <5>2. Cardinality(r) <= k
          BY <1>2, <3>5, <4>2, <5>1
        <5>3. h[r] = g[r]
          BY <3>1, <3>2, <5>2
        <5>4. h[s] = v[Pick(s)] + g[r]
          BY <3>2, <4>2, <5>1
        <5>5. Body(h, s) = v[Pick(s)] + h[r]
          BY <4>2, <5>1
        <5> QED BY <5>3, <5>4, <5>5
      <4> QED BY <4>1, <4>2
    <3>6. Upto(h, k + 1)
      BY <3>5
    <3>7. k + 1 \in Nat
      OBVIOUS
    <3> HIDE DEF Upto
    <3> QED BY <3>4, <3>6, <3>7
  <2>3. P = Nat
    <3>1. P \in SUBSET Nat
      OBVIOUS
    <3> HIDE DEF P
    <3> QED BY <2>1, <2>2, <3>1, Inductive
  <2>4. PICK n \in Nat : n = Cardinality(D)
    BY <1>2
  <2>5. PICK g \in [SUBSET D -> Int] : Upto(g, n)
    BY <2>3
  <2>6. ASSUME NEW s \in SUBSET D PROVE Cardinality(s) <= n
    BY <1>1, <2>4, FS_Subset
  <2>7. \A s \in SUBSET D : g[s] = Body(g, s)
    BY <2>5, <2>6
  <2>8. g = [s \in SUBSET D |-> Body(g, s)]
    BY <2>5, <2>7
  <2> QED BY <2>8
<1>4. PICK c : c = SumBy(v, D)
  OBVIOUS
<1>5. c = [s \in SUBSET D |-> Body(c, s)]
  BY <1>3, <1>4, Zenon DEF SumBy
<1>6. \A s \in SUBSET D : c[s] = Body(c, s)
  BY <1>5
<1> DEFINE Q == {k \in Nat : \A s \in SUBSET D : Cardinality(s) <= k => c[s] \in Int}
<1>13. c[{}] = 0
  BY <1>6
<1>7. 0 \in Q
  <2>1. ASSUME NEW s \in SUBSET D, Cardinality(s) <= 0 PROVE c[s] \in Int
    <3>1. s = {}
      BY <1>2, <2>1
    <3> QED BY <1>13, <3>1
  <2> QED BY <2>1
<1>8. ASSUME NEW k \in Q PROVE k + 1 \in Q
  <2>5. k \in Nat /\ k + 1 \in Nat
    OBVIOUS
  <2> SUFFICES ASSUME NEW s \in SUBSET D, Cardinality(s) <= k + 1 PROVE c[s] \in Int
    BY <2>5
  <2>1. CASE s = {}
    BY <1>13, <2>1
  <2>2. CASE s # {}
    <3>1. PICK r \in SUBSET D : r = s \ {Pick(s)}
      BY <1>2, <2>2
    <3>2. PICK m \in Nat : m = Cardinality(s)
      BY <1>2
    <3>3. Cardinality(r) = m - 1
      BY <1>2, <2>2, <3>1, <3>2
    <3>4. Cardinality(r) <= k
      BY <2>5, <3>2, <3>3
    <3>5. c[r] \in Int /\ v[Pick(s)] \in Int
      BY <1>2, <2>2, <3>4
    <3>6. c[s] = v[Pick(s)] + c[r]
      BY <1>6, <2>2, <3>1
    <3> QED BY <3>5, <3>6
  <2> QED BY <2>1, <2>2
<1>9. Q = Nat
  <2>1. Q \in SUBSET Nat
    OBVIOUS
  <2> HIDE DEF Q
  <2> QED BY <1>7, <1>8, <2>1, Inductive
<1>10. PICK n \in Nat : n = Cardinality(D)
  BY <1>2
<1>11. n \in Q
  BY <1>9
<1>12. c[D] \in Int
  BY <1>10, <1>11
<1> QED BY <1>1, <1>4, <1>12, SumIs

-----------------------------------------------------------------------------
(* What the rules add that do not look at the risk is an integer.          *)

LEMMA ProductPositive == ASSUME NEW m \in Nat, NEW n \in Nat, m > 0, n > 0 PROVE m * n \in Nat /\ m * n > 0
OBVIOUS

LEMMA ContradictionTyped ==
  ASSUME NEW p \in Seq(-100..100), p # <<>>
  PROVE  Contradiction(p) \in Int
<1> DEFINE R == -100..100
<1>14. R \subseteq Int
  OBVIOUS
<1> HIDE DEF R
<1>1. PICK n \in Nat : n = Len(p)
  BY DEF R
<1>2. n > 0 /\ DOMAIN p = 1..n /\ \A i \in 1..n : p[i] \in Int
  <2>1. p \in Seq(R) /\ p # <<>>
    BY DEF R
  <2>2. DOMAIN p = 1..n /\ \A i \in 1..n : p[i] \in R
    BY <1>1, <2>1
  <2>3. n # 0
    BY <1>1, <2>1
  <2>4. n > 0
    BY <2>3
  <2>5. \A i \in 1..n : p[i] \in Int
    BY <1>14, <2>2, Zenon
  <2> QED BY <2>2, <2>4, <2>5, Zenon
<1>3. IsFiniteSet(1..n)
  BY FS_Interval
<1>4. PICK s \in Int : s = SumOf(p)
  BY <1>2, <1>3, SumTyped
<1>5. PICK w : w = [i \in 1..n |-> p[i] * p[i]]
  OBVIOUS
<1>6. DOMAIN w = 1..n /\ \A i \in 1..n : w[i] \in Int
  BY <1>2, <1>5
<1>7. PICK q \in Int : q = SumOf(w)
  BY <1>3, <1>6, SumTyped
<1>8. PICK d \in Nat : d = 1000 * n * n * n * n /\ d > 0
  <2>1. n * n \in Nat /\ n * n > 0
    BY <1>2, ProductPositive
  <2>2. PICK m \in Nat : m = 1000 * n /\ m > 0
    BY <1>2
  <2>3. m * n \in Nat /\ m * n > 0
    BY <1>2, <2>2, ProductPositive
  <2>4. PICK k \in Nat : k = m * n /\ k > 0
    BY <2>3
  <2>5. k * n \in Nat /\ k * n > 0
    BY <1>2, <2>4, ProductPositive
  <2>6. PICK j \in Nat : j = k * n /\ j > 0
    BY <2>5
  <2>7. j * n \in Nat /\ j * n > 0
    BY <1>2, <2>6, ProductPositive
  <2> QED BY <2>2, <2>4, <2>6, <2>7
<1>9. PICK e \in Nat : e = d + s * s /\ e > 0
  <2>1. s * s >= 0 /\ s * s \in Int
    OBVIOUS
  <2> QED BY <1>8, <2>1
<1>10. PICK f \in Nat : f = e * n /\ f > 0
  BY <1>2, <1>9, ProductPositive
<1>11. PICK c \in Int : c = 100 * (q * n * n - s * s)
  OBVIOUS
<1>12. c \div f \in Int
  BY <1>10
<1>13. Contradiction(p) = c \div f
  BY <1>1, <1>4, <1>5, <1>7, <1>8, <1>9, <1>10, <1>11 DEF Contradiction
<1> QED BY <1>12, <1>13

LEMMA AdjustmentTyped ==
  ASSUME NEW cues, IsFiniteSet(DOMAIN cues), NEW n \in Nat, n > 0
  PROVE  NegationAdjustment(cues, n) \in Int
<1>1. \A c : Explains(c) \in Int
  BY DEF Explains
<1>2. PICK w : w = [i \in DOMAIN cues |-> Explains(cues[i])]
  OBVIOUS
<1>3. DOMAIN w = DOMAIN cues /\ \A i \in DOMAIN w : w[i] \in Int
  BY <1>1, <1>2
<1>4. PICK s \in Int : s = SumOf(w)
  BY <1>3, SumTyped
<1>5. PICK t \in Int : t = s \div n
  OBVIOUS
<1>6. NegationAdjustment(cues, n) = AtMost(t, 100)
  BY <1>2, <1>4, <1>5 DEF NegationAdjustment
<1> QED BY <1>6 DEF AtMost

LEMMA DivergenceTyped ==
  ASSUME NEW a \in Analyses
  PROVE  SentimentRiskDivergence(a) \in Int
<1>1. CASE a.polarities = <<>>
  BY <1>1 DEF SentimentRiskDivergence, Nothing
<1>2. CASE a.polarities # <<>>
  <2>1. PICK p : p = a.polarities
    OBVIOUS
  <2>2. p \in Seq(-100..100) /\ p # <<>>
    BY <1>2, <2>1, ScoringAssumption DEF Analyses
  <2>3. PICK n \in Nat : n = Len(p) /\ n > 0
    BY <2>2
  <2>4. IsFiniteSet(DOMAIN a.cues)
    <3>1. PICK C : C = [type : STRING, confident : BOOLEAN, scoped : BOOLEAN]
      OBVIOUS
    <3>2. a.cues \in Seq(C)
      BY <3>1, ScoringAssumption DEF Analyses
    <3>3. Len(a.cues) \in Nat /\ DOMAIN a.cues = 1..Len(a.cues)
      BY <3>2
    <3> QED BY <3>3, FS_Interval
  <2>5. PICK c \in Int : c = Contradiction(p)
    BY <2>2, ContradictionTyped
  <2>6. PICK d \in Int : d = NegationAdjustment(a.cues, n)
    BY <2>3, <2>4, AdjustmentTyped
  <2>7. Adjusted(p, a.cues) = IF c - d < 0 THEN 0 ELSE c - d
    BY <2>3, <2>5, <2>6 DEF Adjusted
  <2>8. Adjusted(p, a.cues) \in Int
    BY <2>7
  <2> QED BY <2>1, <2>8 DEF SentimentRiskDivergence, Nothing
<1> QED BY <1>1, <1>2

LEMMA AsymmetryTyped ==
  ASSUME NEW a \in Analyses
  PROVE  PowerAsymmetry(a) \in Int
<1>1. CASE Len(a.powers) >= 2
  <2>1. PICK P : P = a.powers
    OBVIOUS
  <2>2. P \in Seq([of : STRING, index : Nat]) /\ Len(P) >= 2
    BY <1>1, <2>1, ScoringAssumption DEF Analyses
  <2>3. P[1] \in [of : STRING, index : Nat] /\ P[2] \in [of : STRING, index : Nat]
    <3>1. PICK C : C = [of : STRING, index : Nat]
      OBVIOUS
    <3>2. P \in Seq(C) /\ Len(P) >= 2
      BY <2>2, <3>1
    <3>3. P[1] \in C /\ P[2] \in C
      BY <3>2
    <3> QED BY <3>1, <3>3
  <2>4. PICK x, y \in Nat : x = P[1].index /\ y = P[2].index
    <3>1. \A p \in [of : STRING, index : Nat] : p.index \in Nat
      OBVIOUS
    <3> QED BY <2>3, <3>1, Zenon
  <2>5. PICK g \in Nat : g = IF x < y THEN y ELSE x
    BY <2>4
  <2>6. PICK d \in Int : d = Distance(x, y)
    <3>1. Distance(x, y) \in Int
      BY DEF Distance
    <3> QED BY <3>1
  <2>7. PICK z : z = IF g > 0 THEN (100 * d) \div g ELSE 0
    OBVIOUS
  <2>8. z \in Int
    BY <2>7
  <2>9. z \div 2 \in Int
    BY <2>8
  <2>10. PowerAsymmetry(a) = IF Len(P) >= 2 /\ z > 50 /\ Effective(a.sentiment) < -30 THEN z \div 2 ELSE 0
    BY <2>1, <2>4, <2>5, <2>6, <2>7 DEF PowerAsymmetry, Nothing
  <2> QED BY <2>9, <2>10
<1>2. CASE ~(Len(a.powers) >= 2)
  BY <1>2 DEF PowerAsymmetry, Nothing
<1> QED BY <1>1, <1>2

LEMMA ScoresKnown ==
  /\ \A x \in RiskScores : x \in 0..100 \/ x = NoScore
  /\ \A x \in Sentiments : x \in Int
<1>1. RiskScores \subseteq (0..100) \cup {NoScore} /\ Sentiments \subseteq (-100..100) \cup {NoScore}
  BY ScoringAssumption, Zenon
<1> QED BY <1>1 DEF NoScore

\* What the rules add that do not look at the risk.
Others(a) == SentimentRiskDivergence(a) + NegativeSentiment(a) + PowerAsymmetry(a) + CheapTalk(a)

LEMMA OthersTyped ==
  ASSUME NEW a \in Analyses
  PROVE  /\ SentimentRiskDivergence(a) \in Int /\ NegativeSentiment(a) \in Int
         /\ PowerAsymmetry(a) \in Int /\ CheapTalk(a) \in Int
<1>1. Effective(a.sentiment) \in Int
  BY ScoresKnown DEF Analyses, Effective, NoScore
<1>2. PICK e \in Int : e = Effective(a.sentiment)
  BY <1>1
<1>3. (-e * 30) \div 100 \in Int
  OBVIOUS
<1>4. NegativeSentiment(a) \in Int
  BY <1>2, <1>3 DEF NegativeSentiment, AtMost, Nothing
<1>5. CheapTalk(a) \in Int
  BY DEF CheapTalk, Nothing
<1> QED BY <1>4, <1>5, DivergenceTyped, AsymmetryTyped

-----------------------------------------------------------------------------
(* Levels.                                                                 *)

LEMMA RankIs == ASSUME NEW k \in 1..4 PROVE RankOf(Levels[k]) = k
<1>1. DOMAIN Levels = 1..4
  BY DEF Levels
<1>2. \A i, j \in 1..4 : Levels[i] = Levels[j] => i = j
  BY DEF Levels
<1>3. \A j \in DOMAIN Levels : Levels[j] = Levels[k] => j = k
  BY <1>1, <1>2
<1> HIDE DEF Levels
<1> QED BY <1>1, <1>3, Zenon DEF RankOf

LEMMA UpTo == \A n \in Nat : IsFiniteSet(1..n) /\ Cardinality(1..n) = n
BY FS_Interval

\* Who reaches more thresholds is not ranked lower.
LEMMA RankGrows ==
  ASSUME NEW t, DOMAIN t = 1..3, NEW c, NEW d,
         {i \in DOMAIN t : c >= t[i]} \subseteq {i \in DOMAIN t : d >= t[i]}
  PROVE  RankOf(Reached(c, t)) <= RankOf(Reached(d, t))
<1>1. PICK C : C = {i \in DOMAIN t : c >= t[i]}
  OBVIOUS
<1>2. PICK D : D = {i \in DOMAIN t : d >= t[i]}
  OBVIOUS
<1>3. C \subseteq D /\ D \subseteq 1..3
  BY <1>1, <1>2
<1>4. IsFiniteSet(1..3) /\ Cardinality(1..3) = 3
  BY UpTo, Zenon
<1>5. IsFiniteSet(D) /\ Cardinality(D) <= 3
  <2>1. Cardinality(D) <= Cardinality(1..3) /\ IsFiniteSet(D)
    BY <1>3, <1>4, FS_Subset, Zenon
  <2> QED BY <1>4, <2>1
<1>6. IsFiniteSet(C) /\ Cardinality(C) <= Cardinality(D)
  BY <1>3, <1>5, FS_Subset
<1>7. Cardinality(C) \in Nat /\ Cardinality(D) \in Nat
  BY <1>5, <1>6, FS_CardinalityType
<1>8. PICK j, k \in 1..4 : j = 1 + Cardinality(C) /\ k = 1 + Cardinality(D) /\ j <= k
  BY <1>5, <1>6, <1>7
<1>9. Reached(c, t) = Levels[j] /\ Reached(d, t) = Levels[k]
  BY <1>1, <1>2, <1>8 DEF Reached
<1> QED BY <1>8, <1>9, RankIs

\* No rank is lower than that of a composite of nothing.
LEMMA RankOfNothing ==
  ASSUME NEW t, DOMAIN t = 1..3, NEW c
  PROVE  RankOf(Reached(0, <<1, 4000, 7000>>)) <= RankOf(Reached(c, t))
<1>1. PICK C : C = {i \in DOMAIN t : c >= t[i]}
  OBVIOUS
<1>2. IsFiniteSet(1..3) /\ Cardinality(1..3) = 3
  BY UpTo, Zenon
<1>3. IsFiniteSet(C) /\ Cardinality(C) <= 3
  BY <1>1, <1>2, FS_Subset
<1>4. Cardinality(C) \in Nat
  BY <1>3, FS_CardinalityType
<1>5. PICK k \in 1..4 : k = 1 + Cardinality(C)
  BY <1>3, <1>4
<1>6. RankOf(Reached(c, t)) = k
  BY <1>1, <1>5, RankIs DEF Reached
<1> DEFINE u == <<1, 4000, 7000>>
<1>7. u = <<1, 4000, 7000>>
  OBVIOUS
<1>11. DOMAIN u = 1..3 /\ u[1] = 1 /\ u[2] = 4000 /\ u[3] = 7000
  OBVIOUS
<1> HIDE DEF u
<1>8. {i \in DOMAIN u : 0 >= u[i]} = {}
  BY <1>11
<1>9. 1 + Cardinality({i \in DOMAIN u : 0 >= u[i]}) = 1
  BY <1>8, FS_EmptySet
<1>10. RankOf(Reached(0, u)) = 1
  BY <1>9, RankIs DEF Reached
<1> QED BY <1>6, <1>7, <1>10

LEMMA LevelGrows ==
  ASSUME NEW a \in Analyses, NEW r \in RiskScores, r >= Effective(a.risk)
  PROVE  RankOf(RiskLevel(a)) <= RankOf(RiskLevel([a EXCEPT !.risk = r]))
<1>1. PICK b : b = [a EXCEPT !.risk = r]
  OBVIOUS
<1>2. /\ b.risk = r /\ b.sentiment = a.sentiment /\ b.polarities = a.polarities
      /\ b.cues = a.cues /\ b.powers = a.powers /\ b.signals = a.signals
  BY <1>1 DEF Analyses
<1>14. a.risk \in RiskScores
  BY DEF Analyses
<1>15. Effective(a.risk) \in 0..100
  BY <1>14, ScoresKnown DEF Effective, NoScore
<1>3. PICK x \in 0..100 : x = Effective(a.risk)
  BY <1>15
<1>4. r \in 0..100 /\ r >= x /\ Effective(r) = r /\ r # NoScore
  BY <1>3, ScoresKnown DEF Effective, NoScore
<1> DEFINE t == <<3000, 6000, 8000>>
<1>5. t = <<3000, 6000, 8000>>
  OBVIOUS
<1>6. DOMAIN t = 1..3 /\ t[1] = 3000 /\ t[2] = 6000 /\ t[3] = 8000
  OBVIOUS
<1> HIDE DEF t
<1>7. HasAiOutput(b)
  BY <1>2, <1>4 DEF HasAiOutput
<1>8. RiskLevel(b) = Reached(Escalated(60 * r + 40 * AnomalyScore(b), AnomalyScore(b)), t)
  BY <1>2, <1>4, <1>5, <1>7 DEF RiskLevel
<1>9. CASE ~HasAiOutput(a)
  <2>1. AnomalyScore(a) = 0
    BY <1>9 DEF AnomalyScore
  <2>2. RiskLevel(a) = Reached(0, <<1, 4000, 7000>>)
    BY <1>9, <2>1 DEF RiskLevel
  <2> QED BY <1>1, <1>6, <1>8, <2>2, RankOfNothing
<1>10. CASE HasAiOutput(a)
  <2>1. PICK k1, k2, k3, k4 \in Int : /\ SentimentRiskDivergence(a) = k1 /\ NegativeSentiment(a) = k2
                                      /\ PowerAsymmetry(a) = k3 /\ CheapTalk(a) = k4
    BY OthersTyped
  <2>2. SentimentRiskDivergence(b) = k1
    BY <1>2, <2>1 DEF SentimentRiskDivergence
  <2>3. NegativeSentiment(b) = k2
    BY <1>2, <2>1 DEF NegativeSentiment
  <2>4. PowerAsymmetry(b) = k3
    BY <1>2, <2>1 DEF PowerAsymmetry
  <2>5. CheapTalk(b) = k4
    BY <1>2, <2>1 DEF CheapTalk
  <2>6. PICK h, g \in Int : HighRisk(a) = h /\ HighRisk(b) = g /\ h <= g
    BY <1>2, <1>3, <1>4 DEF HighRisk, Nothing
  <2>7. PICK A \in Int : A = AnomalyScore(a) /\ A = AtMost(k1 + h + k2 + k3 + k4, 100)
    BY <1>10, <2>1, <2>6 DEF AnomalyScore, AtMost
  <2>8. PICK B \in Int : B = AnomalyScore(b) /\ B = AtMost(k1 + g + k2 + k3 + k4, 100)
    BY <1>7, <2>2, <2>3, <2>4, <2>5, <2>6 DEF AnomalyScore, AtMost
  <2>9. A <= B
    BY <2>6, <2>7, <2>8 DEF AtMost
  <2>10. PICK c, d \in Int : c = Escalated(60 * x + 40 * A, A) /\ d = Escalated(60 * r + 40 * B, B)
    BY <1>4 DEF Escalated
  <2>11. \A i \in 1..3 : c >= t[i] => d >= t[i]
    BY <1>4, <1>6, <2>9, <2>10 DEF Escalated
  <2>12. {i \in DOMAIN t : c >= t[i]} \subseteq {i \in DOMAIN t : d >= t[i]}
    BY <1>6, <2>11
  <2>13. RiskLevel(a) = Reached(c, t) /\ RiskLevel(b) = Reached(d, t)
    BY <1>3, <1>5, <1>8, <1>10, <2>7, <2>8, <2>10 DEF RiskLevel
  <2> QED BY <1>1, <1>6, <2>12, <2>13, RankGrows
<1> QED BY <1>9, <1>10

-----------------------------------------------------------------------------
(* The level of a detection is that of the analysis it keeps.              *)

ScoringInv ==
    /\ detection.at # "none" => detection.analysis \in Analyses
    /\ detection.at = "detected" => detection.level = RiskLevel(detection.analysis)

LEMMA ScoringStarts == Init => ScoringInv
<1> SUFFICES ASSUME Init PROVE ScoringInv
  OBVIOUS
<1>1. CASE part = "scoring"
  <2>1. PICK a \in Analyses : detection = [at |-> "called", analysis |-> a]
    BY <1>1 DEF Init, ScoringInit
  <2>2. detection.at = "called" /\ detection.analysis = a
    BY <2>1
  <2> QED BY <2>2 DEF ScoringInv
<1>2. CASE part # "scoring"
  <2>1. detection = [at |-> "none"]
    BY <1>2 DEF Init
  <2>2. detection.at = "none"
    BY <2>1
  <2> QED BY <2>2 DEF ScoringInv
<1> QED BY <1>1, <1>2

LEMMA ScoringMove == [Next]_vars => [ScoringNext]_scoring
BY DEF Next, vars, scoring

LEMMA ScoringSteps == ScoringInv /\ [ScoringNext]_scoring => ScoringInv'
<1> SUFFICES ASSUME ScoringInv, [ScoringNext]_scoring PROVE ScoringInv'
  OBVIOUS
<1>1. CASE Detect
  <2>1. PICK a : a = detection.analysis
    OBVIOUS
  <2>2. a \in Analyses
    BY <1>1, <2>1 DEF ScoringInv, Detect
  <2>3. detection' = [at |-> "detected", analysis |-> a, score |-> AnomalyScore(a), level |-> RiskLevel(a)]
    BY <1>1, <2>1 DEF Detect
  <2>4. PICK l : l = RiskLevel(a)
    OBVIOUS
  <2>5. detection'.at = "detected" /\ detection'.analysis = a /\ detection'.level = l
    BY <2>3, <2>4
  <2>6. detection'.level = RiskLevel(detection'.analysis)
    BY <2>4, <2>5
  <2> QED BY <2>2, <2>5, <2>6 DEF ScoringInv
<1>2. CASE DetectDivergence
  <2>1. detection'.at = "measured" /\ detection'.analysis = detection.analysis
    BY <1>2 DEF DetectDivergence
  <2>2. detection.analysis \in Analyses
    BY <1>2 DEF ScoringInv, DetectDivergence
  <2> QED BY <2>1, <2>2 DEF ScoringInv
<1>3. CASE UNCHANGED scoring
  BY <1>3 DEF ScoringInv, scoring
<1> QED BY <1>1, <1>2, <1>3 DEF ScoringNext

\* A higher risk score never lowers the level that detect reports, whatever
\* the AI, the sentences, the cues, the powers and the signals are.
THEOREM HigherRiskIsNoLower == Spec => []RiskMonotone
<1>1. ScoringInv => RiskMonotone
  BY LevelGrows DEF ScoringInv, RiskMonotone
<1> QED BY <1>1, ScoringStarts, ScoringMove, ScoringSteps, PTL DEF Spec

-----------------------------------------------------------------------------
(* The rules and the threads that run them: AnomalyEngine.                 *)

Rule == [id : RuleIds, object : Nat]

\* What rule r finds in analysis a.
Finds(r, a) == Found1(r, RuleFinds(r.id, Transcripts[a]))
Analyzed == DOMAIN Transcripts \cup {"none"}
Findings == UNION {Finds(r, a) : r \in Rule, a \in Analyzed}

Evaluation ==
    [at : {"idle", "submitting", "collecting", "returned", "raised"}, analysis : Analyzed,
     snapshot : SUBSET Rule, left : Seq(Rule), tasks : SUBSET Rule, results : SUBSET Findings,
     failed : SUBSET Rule]
Task == [caller : Callers, rule : Rule]

EngineTyped ==
    /\ rules \in Seq(Rule)
    /\ pool \in [queue : Seq(Task), running : SUBSET Task, open : BOOLEAN]
    /\ evaluation \in [Callers -> Evaluation]
    /\ registrations \in Nat

Distinct(s) == \A i, j \in DOMAIN s : s[i] = s[j] => i = j

\* The dict has one rule of each id.
OneOfEach == \A i, j \in DOMAIN rules : rules[i].id = rules[j].id => i = j

\* The rules of the snapshot that have run, and did not raise, are those whose
\* findings a call has.
Ran(e) == e.snapshot \ (Range(e.left) \cup e.tasks \cup e.failed)
Collected(e) == e.results = UNION {Finds(r, e.analysis) : r \in Ran(e)}

CallInv(e) ==
    /\ Distinct(e.left)
    /\ Range(e.left) \cap e.tasks = {}
    /\ Range(e.left) \cup e.tasks \subseteq e.snapshot
    /\ e.failed \cap (Range(e.left) \cup e.tasks) = {}
    /\ Collected(e)
    /\ e.at # "submitting" /\ e.at # "raised" => e.left = <<>>
    /\ e.at \in {"idle", "returned"} => e.tasks = {}

\* Every task is in the pool once, and its caller waits for it.
PoolInv ==
    /\ Distinct(pool.queue)
    /\ Range(pool.queue) \cap pool.running = {}
    /\ \A t \in Range(pool.queue) \cup pool.running : t.rule \in evaluation[t.caller].tasks

EngineInv == EngineTyped /\ OneOfEach /\ (\A c \in Callers : CallInv(evaluation[c])) /\ PoolInv

-----------------------------------------------------------------------------
(* Lemmas on sequences without repetition.                                 *)
LEMMA AppendRange ==
    ASSUME NEW S, NEW s \in Seq(S), NEW x \in S
    PROVE  /\ Append(s, x) \in Seq(S)
           /\ Range(Append(s, x)) = Range(s) \cup {x}
           /\ Distinct(s) /\ x \notin Range(s) => Distinct(Append(s, x))
<1>1. Append(s, x) \in Seq(S) /\ Len(Append(s, x)) = Len(s) + 1 /\ DOMAIN Append(s, x) = 1..Len(s) + 1
  OBVIOUS
<1>2. Append(s, x)[Len(s) + 1] = x /\ \A i \in 1..Len(s) : Append(s, x)[i] = s[i]
  OBVIOUS
<1>3. DOMAIN s = 1..Len(s) /\ Len(s) \in Nat
  OBVIOUS
<1>4. Range(Append(s, x)) = Range(s) \cup {x}
  BY <1>1, <1>2, <1>3 DEF Range
<1>5. ASSUME Distinct(s), x \notin Range(s) PROVE Distinct(Append(s, x))
  BY <1>1, <1>2, <1>3, <1>5 DEF Range, Distinct
<1> QED BY <1>1, <1>4, <1>5

LEMMA TailRange ==
    ASSUME NEW S, NEW s \in Seq(S), s # <<>>
    PROVE  /\ Head(s) \in S /\ Tail(s) \in Seq(S)
           /\ Range(s) = Range(Tail(s)) \cup {Head(s)}
           /\ Distinct(s) => Distinct(Tail(s)) /\ Head(s) \notin Range(Tail(s))
<1>1. Len(s) \in Nat \ {0} /\ DOMAIN s = 1..Len(s)
  OBVIOUS
<1>2. Tail(s) \in Seq(S) /\ Len(Tail(s)) = Len(s) - 1 /\ DOMAIN Tail(s) = 1..Len(s) - 1
  BY <1>1
<1>3. Head(s) = s[1] /\ Head(s) \in S /\ \A i \in 1..Len(s) - 1 : Tail(s)[i] = s[i + 1]
  BY <1>1
<1>4. Range(Tail(s)) = {s[i] : i \in 2..Len(s)}
  <2>1. Range(Tail(s)) = {Tail(s)[i] : i \in 1..Len(s) - 1}
    BY <1>2 DEF Range
  <2>2. Range(Tail(s)) \subseteq {s[i] : i \in 2..Len(s)}
    <3>1. ASSUME NEW i \in 1..Len(s) - 1 PROVE Tail(s)[i] \in {s[j] : j \in 2..Len(s)}
      <4>1. i + 1 \in 2..Len(s) /\ Tail(s)[i] = s[i + 1]
        BY <1>1, <1>3
      <4> QED BY <4>1
    <3> QED BY <2>1, <3>1
  <2>3. {s[i] : i \in 2..Len(s)} \subseteq Range(Tail(s))
    <3>1. ASSUME NEW i \in 2..Len(s) PROVE s[i] \in {Tail(s)[j] : j \in 1..Len(s) - 1}
      <4>1. i - 1 \in 1..Len(s) - 1 /\ (i - 1) + 1 = i
        BY <1>1
      <4>2. Tail(s)[i - 1] = s[i]
        BY <1>3, <4>1
      <4> QED BY <4>1, <4>2
    <3> QED BY <2>1, <3>1
  <2> QED BY <2>2, <2>3
<1>5. Range(s) = Range(Tail(s)) \cup {Head(s)}
  <2>1. \A x : x \in Range(s) <=> \E i \in 1..Len(s) : x = s[i]
    BY <1>1 DEF Range
  <2>2. \A i : i \in 1..Len(s) <=> i = 1 \/ i \in 2..Len(s)
    BY <1>1
  <2> QED BY <1>3, <1>4, <2>1, <2>2
<1>6. ASSUME Distinct(s) PROVE Distinct(Tail(s)) /\ Head(s) \notin Range(Tail(s))
  <2>1. Distinct(Tail(s))
    <3> SUFFICES ASSUME NEW i \in 1..Len(s) - 1, NEW j \in 1..Len(s) - 1, Tail(s)[i] = Tail(s)[j]
                 PROVE i = j
      BY <1>2 DEF Distinct
    <3>1. s[i + 1] = s[j + 1] /\ i + 1 \in DOMAIN s /\ j + 1 \in DOMAIN s
      BY <1>1, <1>3
    <3> QED BY <1>1, <1>6, <3>1 DEF Distinct
  <2>2. \A i \in 2..Len(s) : s[i] # s[1]
    BY <1>1, <1>6 DEF Distinct
  <2> QED BY <1>3, <1>4, <2>1, <2>2
<1> QED BY <1>2, <1>3, <1>5, <1>6

-----------------------------------------------------------------------------
LEMMA EngineInitInv == EngineInit => EngineInv
<1> SUFFICES ASSUME EngineInit PROVE EngineInv
  OBVIOUS
<1>1. PICK ids \in InitialRules : rules = [i \in DOMAIN ids |-> [id |-> ids[i], object |-> 0]]
  BY DEF EngineInit
<1>2. ids \in Seq(RuleIds) /\ \A i, j \in DOMAIN ids : ids[i] = ids[j] => i = j
  BY EngineAssumption
<1>3. rules \in Seq(Rule) /\ DOMAIN rules = DOMAIN ids
  <2>1. DOMAIN ids = 1..Len(ids) /\ Len(ids) \in Nat /\ \A i \in DOMAIN ids : ids[i] \in RuleIds
    BY <1>2
  <2> QED BY <1>1, <2>1 DEF Rule
<1>4. Idle \in Evaluation /\ CallInv(Idle)
  BY DEF Idle, Evaluation, CallInv, Collected, Ran, Analyzed, Distinct, Range
<1>5. EngineTyped
  BY <1>3, <1>4 DEF EngineInit, EngineTyped
<1>6. OneOfEach
  BY <1>1, <1>2, <1>3 DEF OneOfEach
<1>7. \A c \in Callers : CallInv(evaluation[c])
  BY <1>4 DEF EngineInit
<1>8. PoolInv
  BY DEF EngineInit, PoolInv, Distinct, Range
<1> QED BY <1>5, <1>6, <1>7, <1>8 DEF EngineInv
-----------------------------------------------------------------------------
\* Calls and pool are as they were when only the rules change.
LEMMA RulesStep ==
    ASSUME EngineInv, UNCHANGED <<pool, evaluation>>, rules' \in Seq(Rule), OneOfEach', registrations' \in Nat
    PROVE  EngineInv'
<1>1. EngineTyped' /\ PoolInv' /\ \A c \in Callers : CallInv(evaluation[c])'
  BY DEF EngineInv, EngineTyped, PoolInv
<1> QED BY <1>1 DEF EngineInv

LEMMA RegisterStep == ASSUME EngineInv, NEW id \in Named, Register1(id) PROVE EngineInv'
<1> DEFINE new == [id |-> id, object |-> registrations + 1]
           at == {i \in DOMAIN rules : rules[i].id = id}
<1>1. rules \in Seq(Rule) /\ registrations \in Nat /\ new \in Rule /\ OneOfEach
  BY EngineAssumption DEF EngineInv, EngineTyped, Rule
<1>2. rules' = IF at = {} THEN Append(rules, new) ELSE [i \in DOMAIN rules |-> IF i \in at THEN new ELSE rules[i]]
  BY DEF Register1
<1>3. DOMAIN rules = 1..Len(rules) /\ Len(rules) \in Nat /\ \A i \in DOMAIN rules : rules[i] \in Rule
  BY <1>1
<1>4. CASE at = {}
  <2>1. rules' = Append(rules, new)
    BY <1>2, <1>4
  <2>2. DOMAIN rules' = 1..Len(rules) + 1 /\ rules'[Len(rules) + 1] = new /\ \A i \in DOMAIN rules : rules'[i] = rules[i]
    BY <1>1, <1>3, <2>1
  <2>3. \A i \in DOMAIN rules : rules[i].id # new.id
    BY <1>4
  <2>4. OneOfEach'
    BY <1>1, <1>3, <2>2, <2>3 DEF OneOfEach
  <2>5. rules' \in Seq(Rule)
    BY <1>1, <2>1
  <2> QED BY <1>1, <2>4, <2>5, RulesStep DEF Register1
<1>5. CASE at # {}
  <2>1. rules' = [i \in DOMAIN rules |-> IF i \in at THEN new ELSE rules[i]]
    BY <1>2, <1>5
  <2>2. DOMAIN rules' = DOMAIN rules /\ \A i \in DOMAIN rules : rules'[i].id = rules[i].id
    BY <2>1
  <2>3. OneOfEach'
    BY <1>1, <2>2 DEF OneOfEach
  <2>4. \A i \in DOMAIN rules : rules'[i] \in Rule
    BY <1>1, <1>3, <2>1
  <2>5. rules' \in Seq(Rule)
    BY <1>3, <2>1, <2>4
  <2> QED BY <1>1, <2>3, <2>5, RulesStep DEF Register1
<1> QED BY <1>4, <1>5

LEMMA UnregisterStep == ASSUME EngineInv, NEW id \in Named, Unregister(id) PROVE EngineInv'
<1>1. rules \in Seq(Rule) /\ registrations \in Nat /\ OneOfEach /\ registrations' \in Nat
  BY DEF EngineInv, EngineTyped, Unregister
<1>2. CASE UNCHANGED rules
  <2>1. OneOfEach'
    BY <1>1, <1>2 DEF OneOfEach
  <2> QED BY <1>1, <1>2, <2>1, RulesStep DEF Unregister
<1>3. ASSUME NEW i \in DOMAIN rules, rules' = RemoveAt(rules, i) PROVE EngineInv'
  <2>1. DOMAIN rules = 1..Len(rules) /\ Len(rules) \in Nat /\ i \in 1..Len(rules)
    BY <1>1, <1>3
  <2> DEFINE before == SubSeq(rules, 1, i - 1)
             after == SubSeq(rules, i + 1, Len(rules))
  <2>2. before \in Seq(Rule) /\ Len(before) = i - 1 /\ \A k \in 1..i - 1 : before[k] = rules[k]
    <3>1. \A k \in 1..i - 1 : rules[k] \in Rule
      BY <1>1, <2>1
    <3> QED BY <2>1, <3>1, SubSeqProperties
  <2>3. after \in Seq(Rule) /\ Len(after) = Len(rules) - i /\ \A k \in 1..Len(rules) - i : after[k] = rules[i + k]
    <3>1. \A k \in i + 1..Len(rules) : rules[k] \in Rule
      BY <1>1, <2>1
    <3>2. /\ after \in Seq(Rule)
          /\ Len(after) = IF i + 1 <= Len(rules) THEN Len(rules) - (i + 1) + 1 ELSE 0
          /\ \A k \in 1..Len(rules) - (i + 1) + 1 : after[k] = rules[(i + 1) + k - 1]
      BY <2>1, <3>1, SubSeqProperties
    <3> QED BY <2>1, <3>2
  <2>4. rules' = before \o after
    BY <1>3 DEF RemoveAt
  <2>5. /\ rules' \in Seq(Rule) /\ DOMAIN rules' = 1..Len(rules) - 1
        /\ \A k \in 1..Len(rules) - 1 : rules'[k] = IF k <= i - 1 THEN before[k] ELSE after[k - (i - 1)]
    <3> HIDE DEF before, after
    <3>1. /\ rules' \in Seq(Rule) /\ Len(rules') = Len(before) + Len(after)
          /\ \A k \in 1..Len(before) + Len(after) :
                rules'[k] = IF k <= Len(before) THEN before[k] ELSE after[k - Len(before)]
      <4>1. before \in Seq(Rule) /\ after \in Seq(Rule)
        BY <2>2, <2>3
      <4> QED BY <2>4, <4>1, ConcatProperties
    <3>2. Len(before) + Len(after) = Len(rules) - 1 /\ Len(before) = i - 1
      BY <2>1, <2>2, <2>3
    <3> QED BY <2>1, <3>1, <3>2
  <2>6. \A k \in 1..Len(rules) - 1 : rules'[k] = IF k < i THEN rules[k] ELSE rules[k + 1]
    <3> HIDE DEF before, after
    <3> SUFFICES ASSUME NEW k \in 1..Len(rules) - 1
                 PROVE rules'[k] = IF k < i THEN rules[k] ELSE rules[k + 1]
      OBVIOUS
    <3>1. CASE k < i
      BY <2>1, <2>2, <2>5, <3>1
    <3>2. CASE ~(k < i)
      <4>1. k - (i - 1) \in 1..Len(rules) - i /\ i + (k - (i - 1)) = k + 1
        BY <2>1, <3>2
      <4>2. rules'[k] = after[k - (i - 1)]
        BY <2>1, <2>5, <3>2
      <4> QED BY <2>3, <3>2, <4>1, <4>2
    <3> QED BY <3>1, <3>2
  <2>7. OneOfEach'
    <3> SUFFICES ASSUME NEW j \in 1..Len(rules) - 1, NEW k \in 1..Len(rules) - 1, rules'[j].id = rules'[k].id
                 PROVE j = k
      BY <2>5 DEF OneOfEach
    <3> DEFINE J == IF j < i THEN j ELSE j + 1
               K == IF k < i THEN k ELSE k + 1
    <3>1. J \in DOMAIN rules /\ K \in DOMAIN rules /\ rules'[j] = rules[J] /\ rules'[k] = rules[K]
      BY <2>1, <2>6
    <3>2. J = K
      BY <1>1, <3>1 DEF OneOfEach
    <3> QED BY <2>1, <3>2
  <2> QED BY <1>1, <2>5, <2>7, RulesStep DEF Unregister
<1> QED BY <1>2, <1>3 DEF Unregister

-----------------------------------------------------------------------------
\* Every task is of a caller and for a rule.
LEMMA TasksTyped ==
    ASSUME EngineTyped
    PROVE  Range(pool.queue) \cup pool.running \subseteq Task
<1>1. pool.queue \in Seq(Task) /\ pool.running \subseteq Task
  BY DEF EngineTyped
<1>2. \A i \in DOMAIN pool.queue : pool.queue[i] \in Task
  BY <1>1
<1> QED BY <1>1, <1>2 DEF Range

\* A step of the call of one caller, and of the pool.
LEMMA StepInv ==
    ASSUME EngineInv, NEW c \in Callers, NEW e \in Evaluation, evaluation' = [evaluation EXCEPT ![c] = e], CallInv(e),
           pool' \in [queue : Seq(Task), running : SUBSET Task, open : BOOLEAN], PoolInv',
           UNCHANGED <<rules, registrations>>
    PROVE  EngineInv'
<1>1. evaluation \in [Callers -> Evaluation]
  BY DEF EngineInv, EngineTyped
<1>2. evaluation'[c] = e /\ \A d \in Callers \ {c} : evaluation'[d] = evaluation[d]
  BY <1>1
<1>3. EngineTyped' /\ OneOfEach'
  BY <1>1 DEF EngineInv, EngineTyped, OneOfEach
<1>4. \A d \in Callers : CallInv(evaluation'[d])
  BY <1>2 DEF EngineInv
<1> QED BY <1>3, <1>4 DEF EngineInv

\* A step of one caller that leaves its tasks and the pool alone.
LEMMA CallStep ==
    ASSUME EngineInv, NEW c \in Callers, NEW e \in Evaluation, evaluation' = [evaluation EXCEPT ![c] = e],
           CallInv(e), e.tasks = evaluation[c].tasks, UNCHANGED <<rules, pool, registrations>>
    PROVE  EngineInv'
<1>1. evaluation \in [Callers -> Evaluation] /\ pool \in [queue : Seq(Task), running : SUBSET Task, open : BOOLEAN]
  BY DEF EngineInv, EngineTyped
<1>2. Range(pool.queue) \cup pool.running \subseteq Task
  BY TasksTyped DEF EngineInv
<1>3. PoolInv'
  <2>1. \A t \in Range(pool.queue) \cup pool.running : evaluation'[t.caller].tasks = evaluation[t.caller].tasks
    BY <1>1, <1>2 DEF Task
  <2> QED BY <2>1 DEF EngineInv, PoolInv
<1> QED BY <1>1, <1>3, StepInv

\* The snapshot has each rule once, so that no two tasks of a call are one.
LEMMA SnapshotStep == ASSUME EngineInv, NEW c \in Callers, Snapshot(c) PROVE EngineInv'
<1>1. PICK a \in DOMAIN Transcripts :
          evaluation' = [evaluation EXCEPT ![c] =
              [Idle EXCEPT !.at = "submitting", !.analysis = a, !.snapshot = Range(rules), !.left = rules]]
  BY DEF Snapshot
<1> DEFINE e == [at |-> "submitting", analysis |-> a, snapshot |-> Range(rules), left |-> rules,
                 tasks |-> {}, results |-> {}, failed |-> {}]
           f == [Idle EXCEPT !.at = "submitting", !.analysis = a, !.snapshot = Range(rules), !.left = rules]
<1>2. evaluation' = [evaluation EXCEPT ![c] = e]
  <2>1. e = f
    <3>1. f = [i \in DOMAIN f |-> f[i]] /\ DOMAIN f = {"at", "analysis", "snapshot", "left", "tasks", "results", "failed"}
      BY DEF Idle
    <3>2. /\ f.at = "submitting" /\ f.analysis = a /\ f.snapshot = Range(rules) /\ f.left = rules
          /\ f.tasks = {} /\ f.results = {} /\ f.failed = {}
      BY DEF Idle
    <3> HIDE DEF f
    <3> QED BY <3>1, <3>2
  <2> HIDE DEF e
  <2>2. evaluation' = [evaluation EXCEPT ![c] = f]
    BY <1>1
  <2> HIDE DEF f
  <2> QED BY <2>1, <2>2
<1>3. rules \in Seq(Rule) /\ OneOfEach
  BY DEF EngineInv, EngineTyped
<1>4. Range(rules) \subseteq Rule
  <2>1. \A i \in DOMAIN rules : rules[i] \in Rule
    BY <1>3
  <2> QED BY <2>1 DEF Range
<1>5. e \in Evaluation
  BY <1>3, <1>4 DEF Evaluation, Analyzed
<1>6. CallInv(e)
  <2>1. Distinct(rules)
    BY <1>3 DEF OneOfEach, Distinct
  <2>2. Ran(e) = {}
    BY DEF Ran
  <2> QED BY <2>1, <2>2 DEF CallInv, Collected
<1>7. evaluation[c].tasks = {}
  BY DEF EngineInv, CallInv, Snapshot
<1> HIDE DEF e
<1>8. e.tasks = {}
  BY DEF e
<1> QED BY <1>2, <1>5, <1>6, <1>7, <1>8, CallStep DEF Snapshot

\* A submitted rule goes from what is left to the tasks; the pool has not got it yet.
LEMMA SubmitStep == ASSUME EngineInv, NEW c \in Callers, Submit(c) PROVE EngineInv'
<1> DEFINE o == evaluation[c]
           rule == Head(o.left)
           task == [caller |-> c, rule |-> rule]
<1>1. o \in Evaluation /\ CallInv(o) /\ evaluation \in [Callers -> Evaluation] /\ PoolInv
  BY DEF EngineInv, EngineTyped
<1>2. o.at = "submitting" /\ o.left \in Seq(Rule) /\ o.left # <<>>
  BY <1>1 DEF Submit, Left, Evaluation
<1>3. pool.queue \in Seq(Task) /\ pool.running \subseteq Task /\ pool \in [queue : Seq(Task), running : SUBSET Task, open : BOOLEAN]
  BY DEF EngineInv, EngineTyped
<1>4. CASE pool.open
  <2> DEFINE e == [o EXCEPT !.left = Tail(o.left), !.tasks = @ \cup {rule}]
  <2>1. evaluation' = [evaluation EXCEPT ![c] = e] /\ UNCHANGED <<rules, registrations>>
    BY <1>1, <1>4 DEF Submit, Left
  <2>2. pool' = [pool EXCEPT !.queue = Append(@, task)]
    BY <1>4 DEF Submit, Left
  <2>3. /\ rule \in Rule /\ Tail(o.left) \in Seq(Rule)
        /\ Range(o.left) = Range(Tail(o.left)) \cup {rule}
        /\ Distinct(o.left) => Distinct(Tail(o.left)) /\ rule \notin Range(Tail(o.left))
    BY <1>2, TailRange
  <2>4. /\ e.at = o.at /\ e.analysis = o.analysis /\ e.snapshot = o.snapshot /\ e.left = Tail(o.left)
        /\ e.tasks = o.tasks \cup {rule} /\ e.results = o.results /\ e.failed = o.failed
    BY <1>1 DEF Evaluation
  <2>5. e \in Evaluation
    BY <1>1, <2>3 DEF Evaluation
  <2> HIDE DEF e
  <2>6. Ran(e) = Ran(o)
    BY <2>3, <2>4 DEF Ran
  <2>7. CallInv(e)
    <3> HIDE DEF o, rule
    <3> QED BY <1>1, <1>2, <2>3, <2>4, <2>6 DEF CallInv, Collected
  <2>8. rule \notin o.tasks
    BY <1>1, <2>3 DEF CallInv
  <2>9. task \in Task /\ task \notin Range(pool.queue) \cup pool.running
    BY <1>1, <2>3, <2>8 DEF PoolInv, Task
  <2>10. /\ pool'.queue = Append(pool.queue, task) /\ pool'.running = pool.running
         /\ pool' \in [queue : Seq(Task), running : SUBSET Task, open : BOOLEAN]
         /\ Range(pool'.queue) = Range(pool.queue) \cup {task} /\ Distinct(pool'.queue)
    <3>1. pool'.queue = Append(pool.queue, task) /\ pool'.running = pool.running /\ pool'.open = pool.open
      BY <1>3, <2>2
    <3>2. /\ Append(pool.queue, task) \in Seq(Task) /\ Range(Append(pool.queue, task)) = Range(pool.queue) \cup {task}
          /\ Distinct(Append(pool.queue, task))
      <4> HIDE DEF task
      <4> QED BY <1>1, <1>3, <2>9, AppendRange DEF PoolInv
    <3> QED BY <1>3, <2>2, <3>1, <3>2
  <2>11. evaluation'[c] = e /\ \A d \in Callers \ {c} : evaluation'[d] = evaluation[d]
    BY <1>1, <2>1
  <2>12. \A t \in Range(pool'.queue) \cup pool'.running : t.rule \in evaluation'[t.caller].tasks
    <3>1. Range(pool.queue) \cup pool.running \subseteq Task
      BY TasksTyped DEF EngineInv
    <3>2. ASSUME NEW t \in Range(pool.queue) \cup pool.running PROVE t.rule \in evaluation'[t.caller].tasks
      BY <1>1, <2>4, <2>11, <3>1 DEF PoolInv, Task
    <3>3. task.rule \in evaluation'[task.caller].tasks
      BY <2>4, <2>11
    <3> QED BY <2>10, <3>2, <3>3
  <2>13. PoolInv'
    BY <1>1, <2>9, <2>10, <2>12 DEF PoolInv
  <2> QED BY <2>1, <2>5, <2>7, <2>10, <2>13, StepInv
<1>5. CASE ~pool.open
  <2> DEFINE e == [o EXCEPT !.at = "raised"]
  <2>1. evaluation' = [evaluation EXCEPT ![c] = e] /\ UNCHANGED <<rules, pool, registrations>>
    BY <1>1, <1>5 DEF Submit
  <2>2. /\ e \in Evaluation /\ e.at = "raised" /\ e.analysis = o.analysis /\ e.snapshot = o.snapshot /\ e.left = o.left
        /\ e.tasks = o.tasks /\ e.results = o.results /\ e.failed = o.failed
    BY <1>1 DEF Evaluation
  <2> HIDE DEF e
  <2>3. CallInv(e)
    BY <1>1, <2>2 DEF CallInv, Collected, Ran
  <2> QED BY <2>1, <2>2, <2>3, CallStep
<1> QED BY <1>4, <1>5

LEMMA SubmittedStep == ASSUME EngineInv, NEW c \in Callers, Submitted(c) PROVE EngineInv'
<1> DEFINE o == evaluation[c]
           e == [o EXCEPT !.at = "collecting"]
<1>1. o \in Evaluation /\ CallInv(o) /\ evaluation \in [Callers -> Evaluation] /\ o.left = <<>>
  BY DEF EngineInv, EngineTyped, Submitted, Left
<1>2. evaluation' = [evaluation EXCEPT ![c] = e] /\ UNCHANGED <<rules, pool, registrations>>
  BY <1>1 DEF Submitted
<1>3. /\ e \in Evaluation /\ e.at = "collecting" /\ e.analysis = o.analysis /\ e.snapshot = o.snapshot /\ e.left = o.left
      /\ e.tasks = o.tasks /\ e.results = o.results /\ e.failed = o.failed
  BY <1>1 DEF Evaluation
<1> HIDE DEF e
<1>4. CallInv(e)
  BY <1>1, <1>3 DEF CallInv, Collected, Ran
<1> QED BY <1>2, <1>3, <1>4, CallStep

LEMMA ReturnStep == ASSUME EngineInv, NEW c \in Callers, Return(c) PROVE EngineInv'
<1> DEFINE o == evaluation[c]
           e == [o EXCEPT !.at = "returned"]
<1>1. o \in Evaluation /\ CallInv(o) /\ evaluation \in [Callers -> Evaluation] /\ o.tasks = {} /\ o.at = "collecting"
  BY DEF EngineInv, EngineTyped, Return
<1>2. evaluation' = [evaluation EXCEPT ![c] = e] /\ UNCHANGED <<rules, pool, registrations>>
  BY <1>1 DEF Return
<1>3. /\ e \in Evaluation /\ e.at = "returned" /\ e.analysis = o.analysis /\ e.snapshot = o.snapshot /\ e.left = o.left
      /\ e.tasks = o.tasks /\ e.results = o.results /\ e.failed = o.failed
  BY <1>1 DEF Evaluation
<1> HIDE DEF e
<1>4. CallInv(e)
  BY <1>1, <1>3 DEF CallInv, Collected, Ran
<1> QED BY <1>2, <1>3, <1>4, CallStep

LEMMA EvaluateSingleStep == ASSUME EngineInv, NEW c \in Callers, EvaluateSingle(c) PROVE EngineInv'
<1> DEFINE one(id) == {rules[i] : i \in {j \in DOMAIN rules : rules[j].id = id}}
<1>1. PICK a \in DOMAIN Transcripts, id \in Named :
          evaluation' = [evaluation EXCEPT ![c] =
              [Idle EXCEPT !.at = "returned", !.analysis = a, !.snapshot = one(id),
                           !.results = UNION {Found1(r, RuleFinds(r.id, Transcripts[a])) : r \in one(id)}]]
  BY DEF EvaluateSingle
<1> DEFINE found == UNION {Finds(r, a) : r \in one(id)}
           e == [at |-> "returned", analysis |-> a, snapshot |-> one(id), left |-> <<>>,
                 tasks |-> {}, results |-> found, failed |-> {}]
           f == [Idle EXCEPT !.at = "returned", !.analysis = a, !.snapshot = one(id), !.results = found]
<1>2. one(id) \subseteq Rule
  <2>1. rules \in Seq(Rule)
    BY DEF EngineInv, EngineTyped
  <2>2. \A i \in DOMAIN rules : rules[i] \in Rule
    BY <2>1
  <2> QED BY <2>2
<1>3. found = UNION {Found1(r, RuleFinds(r.id, Transcripts[a])) : r \in one(id)}
  BY DEF Finds
<1> HIDE DEF one
<1>4. found \subseteq Findings
  BY <1>2 DEF Findings, Analyzed
<1> HIDE DEF found
<1>5. evaluation' = [evaluation EXCEPT ![c] = e]
  <2>1. e = f
    <3>1. f = [i \in DOMAIN f |-> f[i]] /\ DOMAIN f = {"at", "analysis", "snapshot", "left", "tasks", "results", "failed"}
      BY DEF Idle
    <3>2. /\ f.at = "returned" /\ f.analysis = a /\ f.snapshot = one(id) /\ f.left = <<>>
          /\ f.tasks = {} /\ f.results = found /\ f.failed = {}
      BY DEF Idle
    <3> HIDE DEF f
    <3> QED BY <3>1, <3>2
  <2> HIDE DEF e
  <2>2. evaluation' = [evaluation EXCEPT ![c] = f]
    BY <1>1, <1>3
  <2> HIDE DEF f
  <2> QED BY <2>1, <2>2
<1>6. e \in Evaluation
  BY <1>2, <1>4 DEF Evaluation, Analyzed
<1>7. CallInv(e)
  <2>1. Distinct(<<>>) /\ Range(<<>>) = {}
    BY DEF Distinct, Range
  <2>2. Ran(e) = one(id)
    BY <2>1 DEF Ran
  <2>3. Collected(e)
    BY <2>2 DEF Collected, found
  <2> QED BY <2>1, <2>3 DEF CallInv
<1>8. evaluation[c].tasks = {} /\ e.tasks = {}
  BY DEF EngineInv, CallInv, EvaluateSingle
<1> HIDE DEF e
<1> QED BY <1>5, <1>6, <1>7, <1>8, CallStep DEF EvaluateSingle

-----------------------------------------------------------------------------
\* The oldest task goes from the queue to a thread.
LEMMA StartStep == ASSUME EngineInv, Start PROVE EngineInv'
<1>1. /\ pool.queue \in Seq(Task) /\ pool.running \subseteq Task /\ pool.queue # <<>> /\ PoolInv
      /\ pool \in [queue : Seq(Task), running : SUBSET Task, open : BOOLEAN]
  BY DEF EngineInv, EngineTyped, Start
<1>2. /\ Head(pool.queue) \in Task /\ Tail(pool.queue) \in Seq(Task)
      /\ Range(pool.queue) = Range(Tail(pool.queue)) \cup {Head(pool.queue)}
      /\ Distinct(Tail(pool.queue)) /\ Head(pool.queue) \notin Range(Tail(pool.queue))
  BY <1>1, TailRange DEF PoolInv
<1>3. /\ pool'.queue = Tail(pool.queue) /\ pool'.running = pool.running \cup {Head(pool.queue)}
      /\ pool'.open = pool.open /\ pool' \in [queue : Seq(Task), running : SUBSET Task, open : BOOLEAN]
  BY <1>1, <1>2 DEF Start
<1>4. UNCHANGED <<rules, evaluation, registrations>>
  BY DEF Start
<1>5. PoolInv'
  BY <1>1, <1>2, <1>3, <1>4 DEF PoolInv
<1>6. EngineTyped' /\ OneOfEach' /\ \A c \in Callers : CallInv(evaluation[c])'
  BY <1>3, <1>4 DEF EngineInv, EngineTyped, OneOfEach
<1> QED BY <1>5, <1>6 DEF EngineInv

\* A task that ends is no other's: its rule leaves the tasks of its caller, and
\* what the call has found is still that of the rules that ran.
LEMMA EndStep ==
    ASSUME EngineInv, NEW t \in pool.running, NEW e \in Evaluation,
           pool' = [pool EXCEPT !.running = @ \ {t}],
           evaluation' = [evaluation EXCEPT ![t.caller] = e],
           e.tasks = evaluation[t.caller].tasks \ {t.rule}, CallInv(e),
           UNCHANGED <<rules, registrations>>
    PROVE  EngineInv'
<1>1. /\ pool \in [queue : Seq(Task), running : SUBSET Task, open : BOOLEAN] /\ PoolInv
      /\ evaluation \in [Callers -> Evaluation] /\ t \in Task /\ t.caller \in Callers
  BY DEF EngineInv, EngineTyped, Task
<1>2. /\ pool'.queue = pool.queue /\ pool'.running = pool.running \ {t}
      /\ pool' \in [queue : Seq(Task), running : SUBSET Task, open : BOOLEAN]
  BY <1>1
<1>3. evaluation'[t.caller] = e /\ \A d \in Callers \ {t.caller} : evaluation'[d] = evaluation[d]
  BY <1>1
<1>4. Range(pool.queue) \cup pool.running \subseteq Task
  BY TasksTyped DEF EngineInv
<1>5. ASSUME NEW u \in Range(pool'.queue) \cup pool'.running PROVE u.rule \in evaluation'[u.caller].tasks
  <2>1. u \in Range(pool.queue) \cup pool.running /\ u # t /\ u \in Task /\ u.caller \in Callers
    BY <1>1, <1>2, <1>4, <1>5 DEF PoolInv, Task
  <2>2. u.rule \in evaluation[u.caller].tasks
    BY <1>1, <2>1 DEF PoolInv
  <2>3. CASE u.caller = t.caller
    <3>1. u.rule # t.rule
      BY <1>1, <2>1, <2>3 DEF Task
    <3> QED BY <1>3, <2>2, <2>3, <3>1
  <2>4. CASE u.caller # t.caller
    BY <1>3, <2>1, <2>2, <2>4
  <2> QED BY <2>3, <2>4
<1>6. PoolInv'
  BY <1>1, <1>2, <1>5 DEF PoolInv
<1> QED BY <1>1, <1>2, <1>6, StepInv

LEMMA FinishStep == ASSUME EngineInv, Finish PROVE EngineInv'
<1>1. PICK t \in pool.running :
          /\ pool' = [pool EXCEPT !.running = @ \ {t}]
          /\ evaluation' = [evaluation EXCEPT ![t.caller].tasks = @ \ {t.rule},
                 ![t.caller].results = @ \cup Found1(t.rule, RuleFinds(t.rule.id, Transcripts[evaluation[t.caller].analysis]))]
  BY DEF Finish
<1> DEFINE o == evaluation[t.caller]
           found == Finds(t.rule, o.analysis)
           e == [o EXCEPT !.tasks = @ \ {t.rule}, !.results = @ \cup found]
<1>2. evaluation \in [Callers -> Evaluation] /\ t \in Task /\ t.caller \in Callers /\ t.rule \in Rule /\ PoolInv
  BY DEF EngineInv, EngineTyped, Task
<1>3. o \in Evaluation /\ CallInv(o) /\ t.rule \in o.tasks
  BY <1>2 DEF EngineInv, PoolInv
<1>4. Found1(t.rule, RuleFinds(t.rule.id, Transcripts[o.analysis])) = found
  BY DEF Finds
<1>5. found \subseteq Findings
  BY <1>2, <1>3 DEF Findings, Evaluation
<1> HIDE DEF found
<1>6. evaluation' = [evaluation EXCEPT ![t.caller] = e]
  BY <1>1, <1>2, <1>4
<1>7. /\ e \in Evaluation /\ e.at = o.at /\ e.analysis = o.analysis /\ e.snapshot = o.snapshot /\ e.left = o.left
      /\ e.tasks = o.tasks \ {t.rule} /\ e.results = o.results \cup found /\ e.failed = o.failed
  BY <1>3, <1>5 DEF Evaluation
<1> HIDE DEF e
<1>8. Ran(e) = Ran(o) \cup {t.rule}
  BY <1>3, <1>7 DEF Ran, CallInv
<1>9. Collected(e)
  <2>1. o.results = UNION {Finds(r, o.analysis) : r \in Ran(o)}
    BY <1>3 DEF CallInv, Collected
  <2>2. UNION {Finds(r, o.analysis) : r \in Ran(o) \cup {t.rule}} =
           (UNION {Finds(r, o.analysis) : r \in Ran(o)}) \cup Finds(t.rule, o.analysis)
    OBVIOUS
  <2> QED BY <1>7, <1>8, <2>1, <2>2 DEF Collected, found
<1>10. CallInv(e)
  BY <1>3, <1>7, <1>9 DEF CallInv
<1> QED BY <1>1, <1>6, <1>7, <1>10, EndStep DEF Finish

LEMMA FinishRaisedStep == ASSUME EngineInv, FinishRaised PROVE EngineInv'
<1>1. PICK t \in pool.running :
          /\ pool' = [pool EXCEPT !.running = @ \ {t}]
          /\ evaluation' = [evaluation EXCEPT ![t.caller].tasks = @ \ {t.rule}, ![t.caller].failed = @ \cup {t.rule}]
  BY DEF FinishRaised
<1> DEFINE o == evaluation[t.caller]
           e == [o EXCEPT !.tasks = @ \ {t.rule}, !.failed = @ \cup {t.rule}]
<1>2. evaluation \in [Callers -> Evaluation] /\ t \in Task /\ t.caller \in Callers /\ t.rule \in Rule /\ PoolInv
  BY DEF EngineInv, EngineTyped, Task
<1>3. o \in Evaluation /\ CallInv(o) /\ t.rule \in o.tasks
  BY <1>2 DEF EngineInv, PoolInv
<1>4. evaluation' = [evaluation EXCEPT ![t.caller] = e]
  BY <1>1, <1>2
<1>5. /\ e \in Evaluation /\ e.at = o.at /\ e.analysis = o.analysis /\ e.snapshot = o.snapshot /\ e.left = o.left
      /\ e.tasks = o.tasks \ {t.rule} /\ e.results = o.results /\ e.failed = o.failed \cup {t.rule}
  BY <1>2, <1>3 DEF Evaluation
<1> HIDE DEF e
<1>6. Ran(e) = Ran(o)
  BY <1>3, <1>5 DEF Ran
<1>7. CallInv(e)
  BY <1>3, <1>5, <1>6 DEF CallInv, Collected
<1> QED BY <1>1, <1>4, <1>5, <1>7, EndStep DEF FinishRaised

LEMMA ShutdownStep == ASSUME EngineInv, Shutdown PROVE EngineInv'
<1>1. pool \in [queue : Seq(Task), running : SUBSET Task, open : BOOLEAN]
  BY DEF EngineInv, EngineTyped
<1>2. /\ pool'.queue = pool.queue /\ pool'.running = pool.running
      /\ pool' \in [queue : Seq(Task), running : SUBSET Task, open : BOOLEAN]
      /\ UNCHANGED <<rules, evaluation, registrations>>
  BY <1>1 DEF Shutdown
<1> QED BY <1>2 DEF EngineInv, EngineTyped, OneOfEach, PoolInv

LEMMA EngineStepsInv == EngineInv /\ [EngineNext]_engine => EngineInv'
<1> SUFFICES ASSUME EngineInv, [EngineNext]_engine PROVE EngineInv'
  OBVIOUS
<1>1. CASE UNCHANGED engine
  BY <1>1 DEF engine, EngineInv, EngineTyped, OneOfEach, PoolInv
<1>2. CASE \E id \in Named : Register1(id) \/ Unregister(id)
  BY <1>2, RegisterStep, UnregisterStep
<1>3. CASE \E c \in Callers : Snapshot(c) \/ Submit(c) \/ Submitted(c) \/ Return(c) \/ EvaluateSingle(c)
  BY <1>3, SnapshotStep, SubmitStep, SubmittedStep, ReturnStep, EvaluateSingleStep
<1>4. CASE Start \/ Finish \/ FinishRaised \/ Shutdown
  BY <1>4, StartStep, FinishStep, FinishRaisedStep, ShutdownStep
<1> QED BY <1>1, <1>2, <1>3, <1>4 DEF EngineNext

\* Where the behaviour is about another part, nobody evaluates.
EngineKept ==
    /\ part = "engine" => EngineInv
    /\ part # "engine" => evaluation = <<>>

LEMMA EngineKeptInit == Init => EngineKept
BY EngineInitInv DEF Init, EngineKept

LEMMA EngineMove ==
  [Next]_vars => /\ part' = part
                 /\ part = "engine" => [EngineNext]_engine
                 /\ part # "engine" => UNCHANGED engine
BY DEF Next, vars

LEMMA EngineKeptSteps == EngineKept /\ [Next]_vars => EngineKept'
<1> SUFFICES ASSUME EngineKept, [Next]_vars PROVE EngineKept'
  OBVIOUS
<1>1. CASE part = "engine"
  <2>1. EngineInv /\ [EngineNext]_engine /\ part' = "engine"
    BY <1>1, EngineMove DEF EngineKept
  <2>2. EngineInv'
    BY <2>1, EngineStepsInv
  <2> QED BY <2>1, <2>2 DEF EngineKept
<1>2. CASE part # "engine"
  <2>1. evaluation' = <<>> /\ part' # "engine"
    BY <1>2, EngineMove DEF EngineKept, engine
  <2> QED BY <2>1 DEF EngineKept
<1> QED BY <1>1, <1>2

\* Calls, tasks and rules keep their types, each task is in the pool once, and a
\* call has at every moment what the rules found that ran for it.
THEOREM EngineInvariant == Spec => [](part = "engine" => EngineInv)
<1>1. EngineKept => (part = "engine" => EngineInv)
  BY DEF EngineKept
<1> QED BY <1>1, EngineKeptInit, EngineKeptSteps, PTL DEF Spec

\* evaluate() returns what the rules of its snapshot found, but for those that
\* raised: for any callers that share the pool, any rules and transcripts, and
\* whoever registers, replaces or removes rules or closes the pool meanwhile.
THEOREM Snapshots == Spec => []EvaluatesSnapshot
<1>1. ASSUME EngineInv PROVE EvaluatesSnapshot
  <2> SUFFICES ASSUME NEW c \in DOMAIN evaluation, evaluation[c].at = "returned"
               PROVE  evaluation[c].results =
                          UNION {Found1(r, RuleFinds(r.id, Transcripts[evaluation[c].analysis])) :
                                    r \in evaluation[c].snapshot \ evaluation[c].failed}
    BY DEF EvaluatesSnapshot
  <2>1. CallInv(evaluation[c])
    BY <1>1 DEF EngineInv, EngineTyped
  <2>2. Range(evaluation[c].left) = {} /\ evaluation[c].tasks = {}
    BY <2>1 DEF CallInv, Range
  <2>3. Ran(evaluation[c]) = evaluation[c].snapshot \ evaluation[c].failed
    BY <2>2 DEF Ran
  <2> QED BY <2>1, <2>3 DEF CallInv, Collected, Finds
<1>2. evaluation = <<>> => EvaluatesSnapshot
  BY DEF EvaluatesSnapshot
<1>3. EngineKept => EvaluatesSnapshot
  BY <1>1, <1>2 DEF EngineKept
<1> QED BY <1>3, EngineKeptInit, EngineKeptSteps, PTL DEF Spec
=============================================================================
