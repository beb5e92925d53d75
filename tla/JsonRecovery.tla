---------------------------- MODULE JsonRecovery ----------------------------
(***************************************************************************)
(* RecoveryEngine.recover (infrastructure/ai/recovery.py): six ways to get *)
(* data out of the text an AI backend returned, tried in turn until one of *)
(* them returns something that is not empty.  A text is told by what stands*)
(* in it, by what stands around that, and by what it lost.                 *)
(***************************************************************************)
EXTENDS Integers, Sequences, FiniteSetsExt

Objects == {"object",   \* a flat object of two pairs or more
            "pair",     \* a flat object of one pair
            "inner",    \* an object around one flat object
            "items",    \* an object around a list of flat objects
            "empty"}    \* {}
Bodies == Objects \cup {"list",     \* a list of flat objects
                        "number",   \* a bare number
                        "lines",    \* lines of `key: value', without quotes
                        "prose"}
Arounds == {"alone", "words", "intro", "fence"}   \* intro: `Here is the result:'

\* head: is the first brace there, missing or doubled?  cut: the text ends
\* before its last bracket, and before the closing fence.
Texts == [body : Bodies, around : Arounds,
          head : {"kept", "missing", "doubled"}, cut : BOOLEAN]

WellFormed(t) ==
    /\ t.body \notin {"lines", "prose"}
    /\ t.head = "kept"
    /\ ~t.cut

\* json.loads of the whole text, which tolerates nothing around the value.
Parses(t) == WellFormed(t) /\ t.around = "alone"

\* What a level returns: the value, one object out of it, the `key: value'
\* pairs of all its objects in one, pairs made of the words around it, the
\* default, or nothing; {} counts as nothing.
ValueOf(t) == IF t.body = "empty" THEN "none" ELSE "whole"

Direct(t) == IF Parses(t) THEN ValueOf(t) ELSE "none"

Stripped(t) ==
    IF WellFormed(t) /\ t.around \in {"alone", "fence"} THEN ValueOf(t) ELSE "none"

(* The blocks run from an opening brace to the next closing one: of nested *)
(* objects the first block has one closing brace too few.                  *)
FirstBlock(t) ==
    CASE t.body \in {"object", "pair", "empty"} /\ t.head = "kept" /\ ~t.cut -> ValueOf(t)
      [] t.body = "inner" /\ t.head = "missing" -> "item"
      [] t.body \in {"items", "list"} -> "item"
      [] OTHER -> "none"

Partial(t) == IF t.body \in {"object", "inner", "items", "list"} THEN "pairs" ELSE "none"

KeyValue(t) ==
    IF t.around = "intro" THEN "invented"
    ELSE IF t.body \in {"number", "empty", "prose"} THEN "none" ELSE "pairs"

SchemaDefault(schema) == IF schema THEN "default" ELSE "none"

Level == <<"direct", "stripped", "first_block", "partial", "key_value", "schema_default">>
Try(t, schema) ==
    <<Direct(t), Stripped(t), FirstBlock(t), Partial(t), KeyValue(t), SchemaDefault(schema)>>

FirstOf(tried) ==
    LET found == {i \in DOMAIN tried : tried[i] # "none"}
    IN IF found = {} THEN [success |-> FALSE, data |-> "none", level |-> "none"]
       ELSE [success |-> TRUE, data |-> tried[Min(found)], level |-> Level[Min(found)]]

\* Mutant: blocks are looked for before the fences are taken off.
BlocksFirst(t, schema) ==
    FirstOf(<<Direct(t), FirstBlock(t), Stripped(t), Partial(t), KeyValue(t), SchemaDefault(schema)>>)

Recover(t, schema) == FirstOf(Try(t, schema))
=============================================================================
