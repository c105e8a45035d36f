-------------------------------- MODULE MCCatalog --------------------------------
(***************************************************************************)
(* Instances of SourceCatalog, ListPages, PathMappings and ScriptRendering *)
(* for TLC.  They share no state: an instance is one of the four, chosen   *)
(* at the start.                                                           *)
(***************************************************************************)
EXTENDS SourceCatalog, ListPages, PathMappings, ScriptRendering, TLC

VARIABLE part

vars == <<part, srcVars, listVars, mapVars, renderVars>>

\* Two names for nested prefixes; the configuration gives the first one twice.
Nested == {<<"film", "share">>, <<"film", "folder">>, <<"clip", "share">>}
Seeds == << [name |-> 1, prefix |-> "share"], [name |-> 2, prefix |-> "folder"],
            [name |-> 1, prefix |-> "folder"] >>
ChunkTexts == <<"0", "1">>

AtRest == template = [t \in Templates |-> Names] /\ hdr = ""

Init == /\ part \in {"sources", "lists", "mappings", "scripts"}
        /\ SourcesInit /\ ListsInit /\ MappingsInit /\ RenderingInit
        /\ part # "lists" => listing.table = "jobs"
        /\ part # "scripts" => AtRest

Next ==
  \/ part = "sources" /\ SourcesNext /\ UNCHANGED <<part, listVars, mapVars, renderVars>>
  \/ part = "lists" /\ ListsNext /\ UNCHANGED <<part, srcVars, mapVars, renderVars>>
  \/ part = "mappings" /\ MappingsNext /\ UNCHANGED <<part, srcVars, listVars, renderVars>>
  \/ part = "scripts" /\ RenderingNext /\ UNCHANGED <<part, srcVars, listVars, mapVars>>

Spec == Init /\ [][Next]_vars

\* Types of the parts.
CatalogTypeOK == SourcesTypeOK /\ ListsTypeOK /\ MappingsTypeOK /\ RenderingTypeOK

Symmetry == Permutations(Callers)

================================================================================
