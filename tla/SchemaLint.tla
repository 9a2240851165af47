----------------------------- MODULE SchemaLint -----------------------------
(***************************************************************************)
(* The linter that decides whether an edition of a published version may   *)
(* be replaced by another.  A schema is the function of the keywords it    *)
(* uses; a document is a typed value whose fields are those of an object   *)
(* or the items of an array.                                               *)
(***************************************************************************)
EXTENDS Integers

NoSchema == [absent |-> TRUE]

Absent(s) == s = NoSchema

Keyword(s, k, default) == IF k \in DOMAIN s THEN s[k] ELSE default

Required(s) == Keyword(s, "required", {})
Properties(s) == Keyword(s, "properties", [f \in {} |-> NoSchema])

-----------------------------------------------------------------------------

RECURSIVE Admits(_, _)

(* huma.Validate.                                                          *)
Admits(s, d) ==
    \/ Absent(s)
    \/ /\ Keyword(s, "type", d.type) = d.type
       /\ d.type = "integer" =>
             /\ "enum" \in DOMAIN s => d.n \in s.enum
             /\ Keyword(s, "minimum", d.n) <= d.n /\ d.n <= Keyword(s, "maximum", d.n)
       /\ d.type = "array" => \A i \in DOMAIN d.fields : Admits(Keyword(s, "items", NoSchema), d.fields[i])
       /\ d.type = "object" =>
             /\ Required(s) \subseteq DOMAIN d.fields
             /\ \A f \in DOMAIN d.fields :
                   IF f \in DOMAIN Properties(s) THEN Admits(Properties(s)[f], d.fields[f])
                   ELSE Keyword(s, "additionalProperties", TRUE)

-----------------------------------------------------------------------------

(* boundKeywords: whether a keyword tightens as it increases; one for each *)
(* of the two families.                                                    *)
MinFamily == [minimum |-> TRUE, maximum |-> FALSE]

EnumBreaks(old, new, output) ==
    LET had == "enum" \in DOMAIN old
        has == "enum" \in DOMAIN new
    IN  IF had /\ has THEN ~(old.enum \subseteq new.enum)
        ELSE had # has /\ has # output

BoundBreaks(old, new, output, kw) ==
    LET had == kw \in DOMAIN old
        has == kw \in DOMAIN new
    IN  IF had /\ has
        THEN old[kw] # new[kw] /\ (MinFamily[kw] = (new[kw] > old[kw])) # output
        ELSE had # has /\ has # output

ConstraintReasons(old, new, output) ==
    \/ EnumBreaks(old, new, output)
    \/ \E kw \in DOMAIN MinFamily : BoundBreaks(old, new, output, kw)

RECURSIVE CompatNode(_, _, _)

(* Whether the list of reasons is empty.  Keywords it does not know are    *)
(* not looked at.                                                          *)
CompatNode(old, new, output) ==
    /\ Keyword(old, "type", "") \in {"", Keyword(new, "type", "")} \/ Keyword(new, "type", "") = ""
    /\ IF output THEN Required(old) \subseteq Required(new) ELSE Required(new) \subseteq Required(old)
    /\ \A f \in DOMAIN Properties(old) :
          f \in DOMAIN Properties(new) /\ CompatNode(Properties(old)[f], Properties(new)[f], output)
    /\ ~ConstraintReasons(old, new, output)

(* An input may lose its schema, an output may get one.                    *)
AxisCompat(old, new, output) ==
    IF Absent(old) \/ Absent(new)
    THEN Absent(old) = Absent(new) \/ Absent(old) = output
    ELSE CompatNode(old, new, output)

ManifestSchemaCompat(old, new) ==
    /\ AxisCompat(old.spec, new.spec, FALSE)
    /\ AxisCompat(old.config, new.config, FALSE)
    /\ AxisCompat(old.status, new.status, TRUE)

-----------------------------------------------------------------------------

RECURSIVE Unlinted(_, _)

(* The schemas differ where CompatNode does not look: in a keyword it does *)
(* not know, a type that is added, or a new property where the old schema  *)
(* let any property pass.                                                  *)
Unlinted(old, new) ==
    /\ ~Absent(old) /\ ~Absent(new)
    /\ \/ \E k \in {"type", "items", "additionalProperties"} :
             k \in DOMAIN new /\ (k \in DOMAIN old => old[k] # new[k])
       \/ Keyword(old, "additionalProperties", TRUE) /\ ~(DOMAIN Properties(new) \subseteq DOMAIN Properties(old))
       \/ \E f \in DOMAIN Properties(old) \cap DOMAIN Properties(new) : Unlinted(Properties(old)[f], Properties(new)[f])
=============================================================================
