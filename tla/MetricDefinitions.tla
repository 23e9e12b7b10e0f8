-------------------------- MODULE MetricDefinitions --------------------------
(***************************************************************************)
(* What define_tags!, define_namespaces! and define_metrics! expand to     *)
(* (src/chalk-metrics-macros/src/lib.rs): tag types, namespace paths, and  *)
(* metric structs that hash their tags, export them as pairs and call the  *)
(* record function of their kind.                                          *)
(*                                                                         *)
(* An Option is a sequence of at most one element.  A name or a namespace  *)
(* segment is the sequence of its words, "request_count" being two of them: *)
(* exporters join names with the character that separates the words.       *)
(***************************************************************************)
EXTENDS Integers, SequencesExt

None == <<>>
Some(x) == <<x>>

-----------------------------------------------------------------------------
(* define_tags!                                                            *)

\* A tag type: the field that holds it unless it has an alias (its name in
\* snake case), the key it is exported under, and for an enum its variants,
\* each with the string it is exported as.
TagDefs == [field : STRING, exportName : STRING, values : Seq(Seq(STRING \X STRING))]
TagDef(field, exportName, values) ==
    [field |-> field, exportName |-> exportName, values |-> values]
EnumTag(field, exportName, variants) == TagDef(field, exportName, Some(variants))
StringTag(field, exportName) == TagDef(field, exportName, None)

IsEnum(ty) == ty.values # None
Variants(ty) == ty.values[1]

\* The values of a tag: the variants, or any of the strings.
TagValues(ty, strings) ==
    IF IsEnum(ty) THEN {Variants(ty)[i][1] : i \in DOMAIN Variants(ty)} ELSE strings

VariantOf(ty, v) == CHOOSE i \in DOMAIN Variants(ty) : Variants(ty)[i][1] = v

ExportValue(ty, v) == IF IsEnum(ty) THEN Variants(ty)[VariantOf(ty, v)][2] ELSE v

\* What the derived Hash feeds to the hasher: the discriminant, unless there
\* is only one, or the bytes of the string and their end.
HashedTag(ty, v) ==
    IF ~IsEnum(ty) THEN <<<<"bytes", v>>>>
    ELSE IF Len(Variants(ty)) = 1 THEN <<>>
    ELSE <<<<"discriminant", VariantOf(ty, v) - 1>>>>

-----------------------------------------------------------------------------
(* define_namespaces!: the path of a namespace                             *)

NoNamespace == <<>>
Namespace(parent, segment) == Append(parent, segment)

-----------------------------------------------------------------------------
(* define_metrics!                                                         *)

TagRefs == [ty : TagDefs, optional : BOOLEAN, alias : Seq(STRING)]
TagRef(ty) == [ty |-> ty, optional |-> FALSE, alias |-> None]
Optional(ref) == [ref EXCEPT !.optional = TRUE]
As(ref, alias) == [ref EXCEPT !.alias = Some(alias)]

MetricDef(kind, ident, name, extraTags) ==
    [kind |-> kind, ident |-> ident, name |-> name, extraTags |-> extraTags]

\* The arguments of a group may come in any order; of repeated ones the last
\* counts, one that is missing has a default.
Argument(args, name, default) ==
    LET given == SelectSeq(args, LAMBDA a : a[1] = name)
    IN  IF given = <<>> THEN default ELSE Last(given)[2]

\* The metrics of group(args) { defs }: the tags of the group, then their own.
Group(args, defs) ==
    {[ident |-> d.ident, kind |-> d.kind, name |-> d.name,
      namespace |-> Argument(args, "namespace", NoNamespace),
      tags |-> Argument(args, "tags", <<>>) \o d.extraTags] : d \in defs}

Field(ref) == IF ref.alias = None THEN ref.ty.field ELSE ref.alias[1]

ExportKey(ref) == IF ref.alias = None THEN ref.ty.exportName ELSE ref.alias[1]

MetricKinds == {"count", "gauge", "histogram"}
Words == Seq(STRING)
MetricStructs == [ident : STRING, kind : MetricKinds, name : Words, namespace : Seq(Words),
            tags : Seq(TagRefs)]

\* A kind that is none, or a struct with two fields of one name, does not compile;
\* two tags may still be exported under one key.
Compiles(metric) ==
    /\ metric \in MetricStructs
    /\ IsInjective([i \in DOMAIN metric.tags |-> Field(metric.tags[i])])

\* The values a field may have, each as an Option.
FieldValues(ref, strings) ==
    {Some(v) : v \in TagValues(ref.ty, strings)} \cup (IF ref.optional THEN {None} ELSE {})

\* What the fields of a metric's structs may hold, string tags being taken from
\* strings.
FieldsOf(metric, strings) ==
    LET n == Len(metric.tags)
        values == UNION {FieldValues(metric.tags[i], strings) : i \in 1 .. n}
    IN  {f \in [1 .. n -> values] : \A i \in 1 .. n : f[i] \in FieldValues(metric.tags[i], strings)}

\* export_pairs: what is None is left out.
ExportPairs(metric, fields) ==
    FlattenSeq([i \in DOMAIN fields |->
        LET ref == metric.tags[i]
        IN  [k \in DOMAIN fields[i] |-> <<ExportKey(ref), ExportValue(ref.ty, fields[i][k])>>]])

\* What a field adds to the hash: an Option its discriminant, and what is in it.
HashedField(ref, option) ==
    LET set == FlattenSeq([k \in DOMAIN option |-> HashedTag(ref.ty, option[k])])
    IN  IF ref.optional THEN <<<<"discriminant", Len(option)>>>> \o set ELSE set

\* Mutant: optional tags are not hashed.
HashedRequired(metric, fields) ==
    FlattenSeq([i \in DOMAIN fields |->
        IF metric.tags[i].optional THEN <<>> ELSE HashedField(metric.tags[i], fields[i])])

\* tags_hash: the fields one after the other.  Neither the metric nor the names
\* of its fields are hashed.
Hashed(metric, fields) ==
    FlattenSeq([i \in DOMAIN fields |-> HashedField(metric.tags[i], fields[i])])

\* record() of a count, and record!(..) without a value.
DefaultDelta == 1
=============================================================================
