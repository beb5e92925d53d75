------------------------------ MODULE AiAnalyst ------------------------------
(***************************************************************************)
(* AIAnalyst (infrastructure/ai/analyst.py): requests to one of two        *)
(* backends, whose replies a recovery of its own turns into a dict, and a  *)
(* dict of the responses so far.  The responses are shared: what the cache *)
(* holds is the object its first caller has.                               *)
(***************************************************************************)
EXTENDS Integers, Sequences

CONSTANTS
    Texts_, Contexts,   \* texts and contexts, each a sequence of words; "|" is a word
    Models,             \* models callers name, "" for none
    MaxResponses        \* bound: responses made

ASSUME AnalystAssumption == Texts_ \cup Contexts \subseteq Seq(STRING) /\ Models \subseteq STRING

VARIABLES
    backends,   \* the initialised backends
    made,       \* the responses made, in order
    kept,       \* self.cache: key -> which of them
    answer      \* the last call: its request and which response it got

analyst == <<backends, made, kept, answer>>

Request == [text : Texts_, context : Contexts, backend : {"ollama", "anthropic"}, model : Models]

\* What a backend writes, and what is left of it: the quotes are evened out
\* and only what stands between the first and the last brace is read.
Replies_ == {"object", "apostrophe", "objects", "numbers", "refused", "prose"}

RecoverJson(reply) ==
    CASE reply \in {"object", "refused"} -> "whole"
      [] reply \in {"apostrophe", "objects"} -> "pairs"
      [] reply = "numbers" -> "list"
      [] reply = "prose" -> "nothing"

\* content.get("success", True): FALSE for the error response, and when the
\* model says so itself.
Response(request, reply) ==
    [request |-> request, content |-> RecoverJson(reply), success |-> reply # "refused", cached |-> FALSE]
ErrorResponse(request) ==
    [request |-> request, content |-> "error", success |-> FALSE, cached |-> FALSE]

NoAnswer == [request |-> [text |-> <<>>, context |-> <<>>, backend |-> "ollama", model |-> ""], response |-> 0]

AnalystInit ==
    /\ backends \in {{"ollama"}, {"ollama", "anthropic"}}
    /\ made = <<>>
    /\ kept = <<>>
    /\ answer = NoAnswer

\* Mutant: the model is no part of the key.
KeyWithoutModel(r) == r.text \o <<"|">> \o r.context \o <<"|", r.backend>>

\* _get_cache_key: the four joined with bars.
Key(r) == r.text \o <<"|">> \o r.context \o <<"|", r.backend, "|", r.model>>

AnalyzeText(r, response) ==
    /\ made' = Append(made, response)
    /\ kept' = IF response.success
               THEN [k \in DOMAIN kept \cup {Key(r)} |-> IF k = Key(r) THEN Len(made) + 1 ELSE kept[k]]
               ELSE kept
    /\ answer' = [request |-> r, response |-> Len(made) + 1]
    /\ UNCHANGED backends

\* A backend that is not there is a ValueError: nothing happens.
Asked(r) == r.backend \in backends /\ Key(r) \notin DOMAIN kept /\ Len(made) < MaxResponses

AskBackend ==
    \E r \in Request, reply \in Replies_ \ {"numbers"} : Asked(r) /\ AnalyzeText(r, Response(r, reply))

BackendFails == \E r \in Request : Asked(r) /\ AnalyzeText(r, ErrorResponse(r))

\* A list has no get(): the AttributeError leaves analyze_text.
NotADict ==
    \E r \in Request :
        /\ Asked(r)
        /\ RecoverJson("numbers") = "list"
        /\ answer' = NoAnswer
        /\ UNCHANGED <<backends, made, kept>>

Hit ==
    \E r \in Request :
        /\ r.backend \in backends /\ Key(r) \in DOMAIN kept
        /\ made' = [made EXCEPT ![kept[Key(r)]].cached = TRUE]
        /\ answer' = [request |-> r, response |-> kept[Key(r)]]
        /\ UNCHANGED <<backends, kept>>

ClearCache == kept' = <<>> /\ UNCHANGED <<backends, made, answer>>

AnalystNext == AskBackend \/ BackendFails \/ NotADict \/ Hit \/ ClearCache

-----------------------------------------------------------------------------
NoBar(s) == \A i \in DOMAIN s : s[i] # "|"

\* The response a call returns was made by the backend and the model it asks
\* for, and, when no text or context holds the bar that separates them in the
\* key, for its text and its context; what the cache gives is no failure.
AnswersFit ==
    answer # NoAnswer =>
        LET r == answer.request
            got == made[answer.response]
        IN /\ got.request.backend = r.backend /\ got.request.model = r.model
           /\ NoBar(r.text) /\ NoBar(r.context) /\ NoBar(got.request.text) /\ NoBar(got.request.context)
              => got.request = r
           /\ got.cached => got.success
=============================================================================
