------------------------------ MODULE AiClients ------------------------------
(***************************************************************************)
(* The AI clients of infrastructure/ai: AIClientFactory builds one from    *)
(* the settings, complete_batch asks it one message after the other, and   *)
(* its caller takes the data out of each text with the recovery engine.    *)
(* Every client has its own way to ask for JSON and its own way to read    *)
(* the reply; none of them lets an exception out of complete().            *)
(***************************************************************************)
EXTENDS JsonRecovery

CONSTANT MaxMessages    \* messages of one complete_batch

VARIABLE call       \* one batch: its client, its options, its completions

clients == <<call>>

Backends == {"local", "api", "gemini", "groq"}

\* ai_backend as written in the settings; exact tells whether it is in lower
\* case, key whether the API key of that backend is set, model whether
\* ai_model is.
Settings == [backend : Backends \cup {"other"}, exact : BOOLEAN, key : BOOLEAN, model : BOOLEAN]

ClientsInit ==
    call = [at |-> "new", client |-> "none", json |-> FALSE, schema |-> FALSE, left |-> 0,
            completions |-> <<>>, recovered |-> <<>>]

-----------------------------------------------------------------------------
\* AIClientFactory.create: ValueError for a backend it does not know, with or
\* without a model, and for a remote one without key.
Create(backend, key) ==
    CASE backend = "other" -> "refused"
      [] backend \in Backends \ {"local"} /\ ~key -> "refused"
      [] OTHER -> backend

\* from_settings looks for the key under the name as it is written, create
\* lowers the case.
FromSettings(s) == Create(s.backend, s.key /\ s.exact)

NewClient ==
    /\ call.at = "new"
    /\ \E s \in Settings :
          call' = [call EXCEPT !.client = FromSettings(s),
                               !.at = IF FromSettings(s) = "refused" THEN "done" ELSE "ready"]

Ask ==
    /\ call.at = "ready"
    /\ \E n \in 1..MaxMessages, json \in BOOLEAN, schema \in BOOLEAN :
          call' = [call EXCEPT !.at = "asking", !.left = n, !.json = json, !.schema = schema]

-----------------------------------------------------------------------------
\* content is a text, "" or null; parsed tells whether json.loads took it.
Completion(content, text, parsed, json) ==
    [success |-> TRUE, content |-> content, text |-> text, parsed |-> parsed /\ json]
NoText == [body |-> "prose", around |-> "alone", head |-> "missing", cut |-> TRUE]
Failure == [success |-> FALSE, content |-> "empty", text |-> NoText, parsed |-> FALSE]
Without(content) == Completion(content, NoText, FALSE, FALSE)

\* Texts the models write: what is lost is lost at the end of a value with
\* brackets.
Written == {t \in Texts : t.head = "kept" /\ (t.cut => t.body \in Objects \cup {"list"})}

(* The request ends in an assistant message `{', so the model goes on behind *)
(* that brace or, now and then, starts over.                                 *)
Continued(t) == IF t.body \in Objects /\ t.around = "alone" THEN {[t EXCEPT !.head = "missing"], t} ELSE {t}

\* `if content.startswith("{"): content = "{" + content'.
Prefilled(t) ==
    IF t.body \in Objects /\ t.around = "alone" /\ t.head = "kept"
    THEN [t EXCEPT !.head = "doubled"] ELSE t

Local(json) ==
    {Without("empty"), Without("null")} \cup {Completion("text", t, Parses(t), json) : t \in Written}

\* A reply without choices, or without candidates, is an error of its own.
Groq(json) == {Failure} \cup Local(json)
Gemini(json) == {Failure} \cup Local(json)

Anthropic(json) ==
    {Without("empty")} \cup
    IF json THEN {Failure} \cup {Completion("text", Prefilled(c), Parses(Prefilled(c)), json) :
                                    c \in UNION {Continued(t) : t \in Written}}
    ELSE {Without("null")} \cup {Completion("text", t, FALSE, json) : t \in Written}

Answers(client, json) ==
    CASE client = "local" -> Local(json)
      [] client = "groq" -> Groq(json)
      [] client = "gemini" -> Gemini(json)
      [] client = "api" -> Anthropic(json)

\* complete() for the next message of the batch.
Append1(completion) ==
    call' = [call EXCEPT !.completions = Append(call.completions, completion),
                         !.left = call.left - 1,
                         !.at = IF call.left = 1 THEN "answered" ELSE "asking"]

Complete ==
    /\ call.at = "asking"
    /\ \E completion \in Answers(call.client, call.json) : Append1(completion)

\* The request times out, is refused, or its reply is no JSON or lacks a part.
CompleteFails == call.at = "asking" /\ Append1(Failure)

-----------------------------------------------------------------------------
(* The caller recovers the content of a completion that succeeded; on null *)
(* the engine fails between two levels, where it takes the text's length.  *)
Recovered(completion, schema) ==
    IF ~completion.success THEN [success |-> FALSE, data |-> "none", level |-> "none"]
    ELSE IF completion.content = "null" THEN [success |-> FALSE, data |-> "raised", level |-> "none"]
    ELSE Recover(completion.text, schema)

RecoverAll ==
    /\ call.at = "answered"
    /\ call' = [call EXCEPT !.at = "done",
                            !.recovered = [i \in DOMAIN call.completions |->
                                              Recovered(call.completions[i], call.schema)]]

HangUp == call.at = "done" /\ UNCHANGED clients

ClientsNext == NewClient \/ Ask \/ Complete \/ CompleteFails \/ RecoverAll \/ HangUp

-----------------------------------------------------------------------------
\* A complete object that is the reply of a local, Gemini or Groq model, alone
\* or in a fence, and a flat one among any words, comes out of the six levels
\* of the recovery engine as it was sent: not as one of its parts, not as the
\* pairs of several objects in one, and not as the default schema.  (The
\* Anthropic client adds its brace to the wrong texts.)
RecoveredWhole ==
    \A i \in DOMAIN call.recovered :
        LET t == call.completions[i].text
        IN (/\ call.client # "api"
            /\ call.completions[i].content = "text"
            /\ WellFormed(t) /\ t.body \in Objects \ {"empty"}
            /\ t.around \in {"alone", "fence"} \/ t.body \in {"object", "pair"})
           => call.recovered[i].data = "whole"
=============================================================================
