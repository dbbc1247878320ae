--------------------------- MODULE SchemaKeywords ---------------------------
(***************************************************************************)
(* Which keywords a JSON Schema uses (_collect_schema_keywords of the      *)
(* capability-fallback lesson).  A schema is a tree of JSON values: value  *)
(* gives the kind of each value in it, by the path of keys (or of indexes, *)
(* as strings) that leads there; dialect is what its "$schema" says.  The  *)
(* same word can be a keyword, the name of a property or plain data: it    *)
(* depends on the path.                                                    *)
(***************************************************************************)
EXTENDS Integers, Sequences

Parent(path) == SubSeq(path, 1, Len(path) - 1)
Key(path) == path[Len(path)]

IsSchema(schema) ==
    LET paths == DOMAIN schema.value IN
    /\ paths \subseteq Seq(STRING)
    /\ <<>> \in paths /\ schema.value[<<>>] = "object"
    /\ \A p \in paths :
          /\ schema.value[p] \in {"object", "array", "data"}
          /\ p # <<>> => Parent(p) \in paths /\ schema.value[Parent(p)] # "data"

----------------------------------------------------------------------------
MapContainers == {"$defs", "definitions", "dependencies", "dependentSchemas",
                  "patternProperties", "properties"}
SingleContainers == {"additionalProperties", "additionalItems", "contains",
                     "contentSchema", "else", "if", "not", "propertyNames",
                     "then", "unevaluatedItems", "unevaluatedProperties"}
SequenceContainers == {"allOf", "anyOf", "oneOf", "prefixItems"}
FlexibleContainers == {"extends", "items"}
SupportedDialects == {"draft-07", "2019-09", "2020-12"}

UnderKeywordFlat(keyword, kind) ==  \* mutant: "items" holds one schema
    CASE keyword \in MapContainers /\ kind = "object" -> "schemas"
      [] keyword \in SingleContainers \cup FlexibleContainers
            /\ kind = "object" -> "schema"
      [] keyword \in SequenceContainers /\ kind = "array" -> "schemas"
      [] OTHER -> "data"

(* What visit makes of the value of a keyword: a schema, a container of    *)
(* schemas or data that is not visited.                                    *)
UnderKeyword(keyword, kind) ==
    CASE keyword \in MapContainers /\ kind = "object" -> "schemas"
      [] keyword \in SingleContainers \cup FlexibleContainers
            /\ kind = "object" -> "schema"
      [] keyword \in SequenceContainers \cup FlexibleContainers
            /\ kind = "array" -> "schemas"
      [] OTHER -> "data"

(* What the walk takes each value for: visit is called with the schemas.   *)
Roles(schema) ==
    LET value == schema.value
        Role[p \in DOMAIN value] ==
            IF p = <<>> THEN "schema"
            ELSE CASE Role[Parent(p)] = "schema" -> UnderKeyword(Key(p), value[p])
                   [] Role[Parent(p)] = "schemas" /\ value[p] = "object" -> "schema"
                   [] OTHER -> "data"
    IN Role

(* The keys of every object that visit is called with.                     *)
CollectedKeywords(schema) ==
    LET role == Roles(schema)
    IN { Key(p) : p \in { q \in DOMAIN schema.value \ {<<>>} :
                             role[Parent(q)] = "schema" } }

----------------------------------------------------------------------------
(* The same keywords without a walk.  A path leads from the root to a      *)
(* subschema if it can be cut into pieces, each of which leads from one    *)
(* object of the schema to a subschema of it.                              *)
Applies(piece) ==
    \/ Len(piece) = 1 /\ piece[1] \in SingleContainers \cup FlexibleContainers
    \/ Len(piece) = 2 /\ piece[1] \in MapContainers \cup SequenceContainers
                                       \cup FlexibleContainers

KindFits(schema, path, piece) ==
    Len(piece) = 2 =>
        schema.value[path \o <<piece[1]>>] =
            (IF piece[1] \in MapContainers THEN "object" ELSE "array")

IsSubschema(schema, path) ==
    \E cuts \in SUBSET (0..Len(path)) :
        /\ {0, Len(path)} \subseteq cuts
        /\ \A c \in cuts : schema.value[SubSeq(path, 1, c)] = "object"
        /\ \A a, b \in cuts :
              a < b /\ (\A c \in cuts : c <= a \/ b <= c) =>
                  /\ Applies(SubSeq(path, a + 1, b))
                  /\ KindFits(schema, SubSeq(path, 1, a), SubSeq(path, a + 1, b))

UsedKeywords(schema) ==
    { Key(p) : p \in { q \in DOMAIN schema.value \ {<<>>} :
                           IsSubschema(schema, Parent(q)) } }
=============================================================================
