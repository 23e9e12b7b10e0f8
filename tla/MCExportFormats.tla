--------------------------- MODULE MCExportFormats ---------------------------
(* Small instances of ExportFormats for TLC.                                *)
EXTENDS ExportFormats

builtinSeries == Structs
builtinKind == KindOfStruct(Structs)
builtinName == NameAddress(Structs)
builtinTags == HashOfStruct(Structs)
defaultValues == {DefaultDelta}

prefix == Some(<<"app">>)
defaultTags == <<<<"env", "prod">>>>
defaultPercentiles == <<500, 900, 950, 990>>
fewBoundaries == <<5, 1000>>

\* What the theorems about OwnSeries and LinesDistinct assume of definitions and
\* options is true of those of generated.rs, with these options.
ASSUME DefinitionsAssumption == LeafNamesDiffer /\ Distinguishable
=============================================================================
