---------------------------- MODULE ModelAnswer ----------------------------
(***************************************************************************)
(* What the text of a model's answer is to the response normalizer, what   *)
(* its configuration is, and the canonical answer that configuration       *)
(* promises for a text.  A JSON object is the order its keys were written  *)
(* in and a content for every field name; a name that is not in the object *)
(* is Absent, a JSON null is Null.                                         *)
(***************************************************************************)
EXTENDS Integers, Sequences

CONSTANTS None, Null, Absent,
          Keys,   \* the field names a model or the configuration uses
          Values  \* the values other than null

Content == Values \cup {Null, Absent}
Fields  == [Keys -> Content]

\* field_aliases, drop_fields and defaults, as the loader accepts them: names
\* are free, and an alias may point to a name that is itself an alias.
ResponseNormalizerConfig == [aliases  : [Keys -> Keys \cup {None}],
                             drop     : SUBSET Keys,
                             defaults : [Keys -> Values \cup {None}]]

\* The markers around the JSON, from the outside in, and what is inside them:
\* no JSON, JSON but no object, an object, or what json.loads gives up on with
\* an exception of its own (an integer of too many digits, nesting too deep).
Text == {t \in [wrappers : Seq({"harmony", "fence"}),
                kind     : {"prose", "json", "object", "excessive"},
                keys     : Seq(Keys),
                fields   : Fields] :
            /\ \A i, j \in DOMAIN t.keys : t.keys[i] = t.keys[j] => i = j
            /\ \A k \in Keys : t.fields[k] # Absent <=> \E i \in DOMAIN t.keys : t.keys[i] = k}

AnswerAssumption == /\ None \notin Keys /\ None \notin Values /\ None \notin Fields
                    /\ Null \notin Values /\ Absent \notin Values
                    /\ Null # Absent /\ None # Null /\ None # Absent
ASSUME AnswerAssumption
-----------------------------------------------------------------------------
\* One harmony prefix is taken off, then one fence.
WithoutHarmony(wrappers) ==
    IF wrappers # <<>> /\ Head(wrappers) = "harmony" THEN Tail(wrappers) ELSE wrappers
WithoutFence(wrappers) ==
    IF wrappers # <<>> /\ Head(wrappers) = "fence" THEN Tail(wrappers) ELSE wrappers

\* A marker that is left is no JSON, whatever follows it.
Bare(t)        == WithoutFence(WithoutHarmony(t.wrappers)) = <<>>
Parsable(t)    == t.kind = "object" /\ Bare(t)
LoadsRaises(t) == t.kind = "excessive" /\ Bare(t)
-----------------------------------------------------------------------------
\* No alias points to a name that is dropped or is an alias itself.
ChainFree(config) == \A k \in Keys \ config.drop :
    LET name == config.aliases[k]
    IN  name # None => name \notin config.drop /\ config.aliases[name] = None

\* The positions, among the first n keys, of the other spellings of a field.
Spellings(config, t, n, field) ==
    {i \in 1..n : t.keys[i] \notin config.drop /\ config.aliases[t.keys[i]] = field}

\* A name the normalizer takes out of an answer.
Removed(config, field) == field \in config.drop \/ config.aliases[field] # None

\* What the first n keys leave of a field: the last other spelling of it wins
\* over the field itself, wherever the field stands.
FieldAfter(config, t, n, field) ==
    LET found == Spellings(config, t, n, field)
    IN  IF found # {}
        THEN t.fields[t.keys[CHOOSE i \in found : \A j \in found : j <= i]]
        ELSE IF Removed(config, field) /\ (\E i \in 1..n : t.keys[i] = field)
        THEN Absent
        ELSE t.fields[field]

\* A default stands in for a field that is missing or null.
WithDefault(config, field, content) ==
    IF content \in {Absent, Null} /\ config.defaults[field] # None
    THEN config.defaults[field] ELSE content

\* The canonical answer: promised only under a configuration without chains.
Canonical(config, t) ==
    [f \in Keys |-> WithDefault(config, f, FieldAfter(config, t, Len(t.keys), f))]
=============================================================================
