------------------------------ MODULE PathMappings ------------------------------
(***************************************************************************)
(* path_mappings: how the controller finds a file that was registered      *)
(* under the UNC path the agents use.  The table is seeded from the        *)
(* configuration file at every start, while the API is already served and  *)
(* before the engine runs any analysis; an analysis reads all of it and    *)
(* takes the first mapping that fits.                                      *)
(***************************************************************************)
EXTENDS Integers, Sequences, FiniteSets

CONSTANTS
  MapNames,      \* names of mappings; numbers stand for their alphabetical order
  Shares,      \* Windows prefixes
  Files,         \* UNC paths of sources
  Under,         \* the pairs <<file, prefix>> such that the path starts with the prefix
  Config,        \* the complete entries of controller.yaml, in order: a name and a
                 \* prefix each; a name may occur twice
  NoPrefix,
  MaxMappings,   \* bounds the rows ever created
  MaxEdits,      \* bounds the changes over the API
  MaxStarts      \* bounds the starts of the controller

ASSUME MappingsAssumption ==
  /\ MapNames \subseteq Nat
  /\ Under \subseteq Files \X Shares
  /\ NoPrefix \notin Shares
  /\ Config \in Seq([name : MapNames, prefix : Shares])
  /\ MaxMappings \in Nat /\ MaxEdits \in Nat /\ MaxStarts \in Nat

VARIABLES
  mapping,      \* rows by id
  boot,         \* bootstrapPathMappings: the names it has read, the next entry
  found,        \* what the last analysis of each file could find, and when
  mapAux        \* rows seeded and removed per name; has a statement of a start
                \* failed?; edits over the API; starts

mapVars == <<mapping, boot, found, mapAux>>

--------------------------------------------------------------------------------
RowIds == 1..MaxMappings
NoMapping == [name |-> 0, prefix |-> NoPrefix, enabled |-> FALSE, here |-> FALSE]
Rows  == {m \in RowIds : mapping[m].here}
Unused(m) == mapping[m] = NoMapping /\ \A k \in RowIds : k < m => mapping[k] # NoMapping

Entries(n) == {i \in DOMAIN Config : Config[i].name = n}
\* The engine runs, and analyses with it.
Serving == boot.pc = "serving"

CreatePathMapping(m, n, p) ==
  /\ Unused(m)
  /\ mapping' = [mapping EXCEPT ![m] = [name |-> n, prefix |-> p, enabled |-> TRUE,
                                        here |-> TRUE]]

Edits == mapAux.edits < MaxEdits
Edited == [mapAux EXCEPT !.edits = @ + 1]
\* A name is free again when its row is deleted or renamed.
Released(m) == [Edited EXCEPT !.removed[mapping[m].name] = @ + 1]

--------------------------------------------------------------------------------
(* A start of the controller                                               *)

BootstrapList ==
  /\ boot.pc = "starting"
  /\ boot' = [pc |-> "seeding", next |-> 1,
              existing |-> {mapping[m].name : m \in Rows}]
  /\ UNCHANGED <<mapping, found, mapAux>>

Missing_All(n) == TRUE
Missing(n) == n \notin boot.existing

AtEntry == boot.pc = "seeding" /\ boot.next <= Len(Config)
Name == Config[boot.next].name
NextEntry == boot' = [boot EXCEPT !.next = @ + 1]

\* The names that were read are not extended by what is inserted: a name that
\* the file gives twice is seeded twice, if it is missing.
BootstrapEntry ==
  /\ AtEntry /\ NextEntry
  /\ IF Missing(Name)
     THEN \E m \in RowIds :
            /\ CreatePathMapping(m, Name, Config[boot.next].prefix)
            /\ mapAux' = [mapAux EXCEPT !.seeded[Name] = @ + 1]
     ELSE UNCHANGED <<mapping, mapAux>>
  /\ UNCHANGED found

\* A SELECT or an INSERT that fails is only logged; without the SELECT nothing
\* is seeded.
BootstrapFails ==
  /\ \/ boot.pc = "starting" /\ boot' = [boot EXCEPT !.pc = "serving"]
     \/ AtEntry /\ Missing(Name) /\ NextEntry
  /\ mapAux' = [mapAux EXCEPT !.failed = TRUE]
  /\ UNCHANGED <<mapping, found>>

BootstrapDone ==
  /\ boot.pc = "seeding" /\ ~AtEntry
  /\ boot' = [boot EXCEPT !.pc = "serving"]
  /\ UNCHANGED <<mapping, found, mapAux>>

\* The controller stops, perhaps before it has finished starting.
RestartController ==
  /\ mapAux.starts < MaxStarts
  /\ boot' = [pc |-> "starting", next |-> 1, existing |-> {}]
  /\ mapAux' = [mapAux EXCEPT !.starts = @ + 1]
  /\ UNCHANGED <<mapping, found>>

--------------------------------------------------------------------------------
(* The API                                                                 *)

\* Names are not unique.
HandleCreatePathMapping ==
  /\ Edits
  /\ \E m \in RowIds, n \in MapNames, p \in Shares : CreatePathMapping(m, n, p)
  /\ mapAux' = Edited
  /\ UNCHANGED <<boot, found>>

HandleUpdatePathMapping ==
  /\ Edits
  /\ \E m \in Rows, n \in MapNames, p \in Shares, on \in BOOLEAN :
       /\ mapping' = [mapping EXCEPT ![m] = [name |-> n, prefix |-> p, enabled |-> on,
                                             here |-> TRUE]]
       /\ mapAux' = IF mapping[m].name = n THEN Edited ELSE Released(m)
  /\ UNCHANGED <<boot, found>>

HandleDeletePathMapping ==
  /\ Edits
  /\ \E m \in Rows :
       /\ mapping' = [mapping EXCEPT ![m].here = FALSE]
       /\ mapAux' = Released(m)
  /\ UNCHANGED <<boot, found>>

--------------------------------------------------------------------------------
(* TranslatePath                                                           *)

Fitting(f) == {m \in Rows : mapping[m].enabled /\ <<f, mapping[m].prefix>> \in Under}

\* ORDER BY name; rows of one name come in any order.
Translations(f) ==
  {mapping[m].prefix :
     m \in {k \in Fitting(f) : \A l \in Fitting(f) : mapping[k].name <= mapping[l].name}}

\* An analysis translates by one of Translations(f), or not at all if there is none.
TranslatePath ==
  /\ Serving
  /\ \E f \in Files : found' = [found EXCEPT ![f] = [by |-> Translations(f),
                                                     edits |-> mapAux.edits]]
  /\ UNCHANGED <<mapping, boot, mapAux>>

--------------------------------------------------------------------------------
MappingsInit ==
  /\ mapping = [m \in RowIds |-> NoMapping]
  /\ boot = [pc |-> "starting", next |-> 1, existing |-> {}]
  /\ found = [f \in Files |-> [by |-> {}, edits |-> 0 - 1]]
  /\ mapAux = [seeded |-> [n \in MapNames |-> 0], removed |-> [n \in MapNames |-> 0],
               failed |-> FALSE, edits |-> 0, starts |-> 1]

MappingsNext ==
  \/ BootstrapList \/ BootstrapEntry \/ BootstrapFails \/ BootstrapDone
  \/ RestartController
  \/ HandleCreatePathMapping \/ HandleUpdatePathMapping \/ HandleDeletePathMapping
  \/ TranslatePath

MappingsSpec == MappingsInit /\ [][MappingsNext]_mapVars

--------------------------------------------------------------------------------
(* Properties                                                              *)

MappingsTypeOK ==
  /\ mapping \in [RowIds -> [name : MapNames \cup {0}, prefix : Shares \cup {NoPrefix},
                             enabled : BOOLEAN, here : BOOLEAN]]
  /\ boot \in [pc : {"starting", "seeding", "serving"}, next : 1..Len(Config) + 1,
               existing : SUBSET MapNames]
  /\ found \in [Files -> [by : SUBSET Shares, edits : -1..MaxEdits]]

\* Seeding is idempotent: however often the controller is started, wherever a
\* start was cut, and whatever is edited meanwhile, a name gets no more rows from
\* the configuration than it has entries there, plus one for each row of that
\* name that was deleted or renamed; and without that, and without failing
\* statements, no restart changes what an analysis finds for a file.
SeededOnce ==
  \A n \in MapNames : mapAux.seeded[n] <= Cardinality(Entries(n)) + mapAux.removed[n]
RestartKeepsMappings ==
  /\ SeededOnce
  /\ (Serving /\ ~mapAux.failed /\ \A n \in MapNames : mapAux.removed[n] = 0) =>
       \A f \in Files : found[f].edits = mapAux.edits => found[f].by = Translations(f)

================================================================================
