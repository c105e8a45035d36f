---------------------------- MODULE ScriptRendering ----------------------------
(***************************************************************************)
(* How the chunks of an encode job get their scripts.  The engine creates  *)
(* a task per chunk and renders its files from two templates, the global   *)
(* variables, the job's own variables and built-in values, one chunk after *)
(* the other, while operators go on changing templates, variables and the  *)
(* HDR type of the source.                                                 *)
(***************************************************************************)
EXTENDS Integers, FiniteSets

CONSTANTS
  Chunks,        \* chunks are numbered 1..Chunks
  OtherNames,    \* names of variables that are not built in
  Values,        \* what operators write into variables
  ValueOfChunk,  \* ValueOfChunk[c]: the text of CHUNK_INDEX for chunk c
  HdrValues,     \* values of HDR_TYPE
  Templates,     \* template ids
  NoTemplate,
  Broken,        \* the content of a template that does not parse
  Unset,         \* no such variable: rendered as <no value>
  MaxRenderEdits,
  MaxRenderCrashes

Builtins == {"CHUNK_INDEX", "HDR_TYPE"}
Names    == Builtins \cup OtherNames
Contents == {Names, Broken}   \* a template is the set of names it uses

ASSUME RenderingAssumption ==
  /\ Chunks \in Nat \ {0}
  /\ ValueOfChunk \in [1..Chunks -> STRING]
  /\ NoTemplate \notin Templates
  /\ Unset \notin Values
  /\ MaxRenderEdits \in Nat /\ MaxRenderCrashes \in Nat

VARIABLES
  global,       \* variables, by name
  template,     \* templates, by id: their content, or Unset
  hdr,          \* the source's hdr_type
  ejob,         \* the encode job: its status and configuration
  etask,        \* its tasks: by chunk, whether there is a row and a script_dir
  disk,         \* the script directories: by chunk, what each file was rendered with
  gen,          \* the engine at work on the job
  renderAux     \* edits, crashes, chunks whose rendering a crash cut

renderVars == <<global, template, hdr, ejob, etask, disk, gen, renderAux>>

--------------------------------------------------------------------------------
(* Templates, variables and sources change                                 *)

Edit == /\ renderAux.edits < MaxRenderEdits
        /\ renderAux' = [renderAux EXCEPT !.edits = @ + 1]

UpsertVariable ==
  /\ Edit
  /\ \E n \in Names, v \in Values : global' = [global EXCEPT ![n] = v]
  /\ UNCHANGED <<template, hdr, ejob, etask, disk, gen>>

DeleteVariable ==
  /\ Edit
  /\ \E n \in Names : global[n] # Unset /\ global' = [global EXCEPT ![n] = Unset]
  /\ UNCHANGED <<template, hdr, ejob, etask, disk, gen>>

\* Create and update: the content is not parsed.
WriteTemplate ==
  /\ Edit
  /\ \E t \in Templates, c \in Contents : template' = [template EXCEPT ![t] = c]
  /\ UNCHANGED <<global, hdr, ejob, etask, disk, gen>>

DeleteTemplate ==
  /\ Edit
  /\ \E t \in Templates : template[t] # Unset /\ template' = [template EXCEPT ![t] = Unset]
  /\ UNCHANGED <<global, hdr, ejob, etask, disk, gen>>

ChangeHDR ==
  /\ Edit
  /\ \E h \in HdrValues : hdr' = h
  /\ UNCHANGED <<global, template, ejob, etask, disk, gen>>

\* That the templates exist is not checked; the frameserver script is optional.
CreateEncodeJob ==
  /\ ejob.status = "none"
  /\ \E run \in Templates, fs \in Templates \cup {NoTemplate},
        extra \in [Names -> Values \cup {Unset}] :
       /\ Cardinality({n \in Names : extra[n] # Unset}) <= 1
       /\ ejob' = [status |-> "queued", run |-> run, fs |-> fs, extra |-> extra]
  /\ UNCHANGED <<global, template, hdr, etask, disk, gen, renderAux>>

--------------------------------------------------------------------------------
(* The engine: expandEncodeJob and Render                                  *)

IdleGen == [pc |-> "idle", chunk |-> 0, hdr |-> "", data |-> [n \in Names |-> Unset]]
NoFiles == [dir |-> FALSE, run |-> <<>>, fs |-> <<>>]
NoRow   == [row |-> FALSE, dir |-> FALSE]

\* tasks_total is counted when all chunks are done.
Expanded == \A c \in 1..Chunks : etask[c].dir

StartExpansion ==
  /\ gen.pc = "idle"
  /\ ejob.status = "queued" /\ ~Expanded
  /\ gen' = [IdleGen EXCEPT !.pc = "task", !.chunk = 1, !.hdr = hdr]
  /\ UNCHANGED <<global, template, hdr, ejob, etask, disk, renderAux>>

FailJob == /\ ejob' = [ejob EXCEPT !.status = "failed"]
           /\ gen' = IdleGen

\* A chunk left by an interrupted expansion makes the INSERT, and the job, fail.
CreateTask ==
  /\ gen.pc = "task"
  /\ IF etask[gen.chunk].row
     THEN FailJob /\ UNCHANGED etask
     ELSE /\ etask' = [etask EXCEPT ![gen.chunk].row = TRUE]
          /\ gen' = [gen EXCEPT !.pc = "variables"]
          /\ UNCHANGED ejob
  /\ UNCHANGED <<global, template, hdr, disk, renderAux>>

\* The source was read once for all chunks.
HdrOf_Now == hdr
HdrOf == gen.hdr

\* globals < job's extra variables < built-ins; tasks have no variables of their own.
BuiltIn(n) == CASE n = "CHUNK_INDEX" -> ValueOfChunk[gen.chunk]
                [] n = "HDR_TYPE" -> HdrOf
DataOf_ExtraLast(n) ==
  IF ejob.extra[n] # Unset THEN ejob.extra[n]
  ELSE IF n \in Builtins THEN BuiltIn(n) ELSE global[n]
DataOf(n) ==
  IF n \in Builtins THEN BuiltIn(n)
  ELSE IF ejob.extra[n] # Unset THEN ejob.extra[n] ELSE global[n]

LoadVariables ==
  /\ gen.pc = "variables"
  /\ gen' = [gen EXCEPT !.pc = "run", !.data = [n \in Names |-> DataOf(n)]]
  /\ UNCHANGED <<global, template, hdr, ejob, etask, disk, renderAux>>

\* A file is what its names stand for.
Renders(t) == template[t] \notin {Unset, Broken}
Rendered(t) == [n \in template[t] |-> gen.data[n]]

Cleaned_Kept == disk
Cleaned == [disk EXCEPT ![gen.chunk] = NoFiles]

RenderRun ==
  /\ gen.pc = "run"
  /\ IF Renders(ejob.run)
     THEN /\ disk' = [disk EXCEPT ![gen.chunk] = [NoFiles EXCEPT !.dir = TRUE,
                                                    !.run = Rendered(ejob.run)]]
          /\ gen' = [gen EXCEPT !.pc = IF ejob.fs = NoTemplate THEN "dir" ELSE "fs"]
          /\ UNCHANGED ejob
     ELSE disk' = Cleaned /\ FailJob
  /\ UNCHANGED <<global, template, hdr, etask, renderAux>>

RenderFrameserver ==
  /\ gen.pc = "fs"
  /\ IF Renders(ejob.fs)
     THEN /\ disk' = [disk EXCEPT ![gen.chunk].fs = Rendered(ejob.fs)]
          /\ gen' = [gen EXCEPT !.pc = "dir"]
          /\ UNCHANGED ejob
     ELSE disk' = Cleaned /\ FailJob
  /\ UNCHANGED <<global, template, hdr, etask, renderAux>>

SetTaskScriptDir ==
  /\ gen.pc = "dir"
  /\ etask' = [etask EXCEPT ![gen.chunk].dir = TRUE]
  /\ gen' = IF gen.chunk < Chunks THEN [gen EXCEPT !.pc = "task", !.chunk = @ + 1]
                                  ELSE IdleGen
  /\ UNCHANGED <<global, template, hdr, ejob, disk, renderAux>>

\* The controller stops in the middle and starts again.
ControllerCrash ==
  /\ gen.pc # "idle"
  /\ renderAux.crashes < MaxRenderCrashes
  /\ gen' = IdleGen
  /\ renderAux' = [renderAux EXCEPT !.crashes = @ + 1, !.cut = @ \cup {gen.chunk}]
  /\ UNCHANGED <<global, template, hdr, ejob, etask, disk>>

--------------------------------------------------------------------------------
RenderingInit ==
  /\ global = [n \in Names |-> Unset]
  /\ template \in [Templates -> {Names, Unset}]
  /\ hdr \in HdrValues
  /\ ejob = [status |-> "none", run |-> NoTemplate, fs |-> NoTemplate,
             extra |-> [n \in Names |-> Unset]]
  /\ etask = [c \in 1..Chunks |-> NoRow]
  /\ disk = [c \in 1..Chunks |-> NoFiles]
  /\ gen = IdleGen
  /\ renderAux = [edits |-> 0, crashes |-> 0, cut |-> {}]

Operator == \/ UpsertVariable \/ DeleteVariable \/ WriteTemplate \/ DeleteTemplate
            \/ ChangeHDR \/ CreateEncodeJob
EngineStep == \/ StartExpansion \/ CreateTask \/ LoadVariables \/ RenderRun
              \/ RenderFrameserver \/ SetTaskScriptDir

RenderingNext == Operator \/ EngineStep \/ ControllerCrash

RenderingSpec == RenderingInit /\ [][RenderingNext]_renderVars

--------------------------------------------------------------------------------
(* Properties                                                              *)

Texts == Values \cup HdrValues \cup {"", Unset} \cup {ValueOfChunk[c] : c \in 1..Chunks}
File  == {<<>>} \cup [Names -> Texts]

RenderingTypeOK ==
  /\ global \in [Names -> Values \cup {Unset}]
  /\ template \in [Templates -> Contents \cup {Unset}]
  /\ hdr \in HdrValues
  /\ ejob \in [status : {"none", "queued", "failed"}, run : Templates \cup {NoTemplate},
               fs : Templates \cup {NoTemplate}, extra : [Names -> Values \cup {Unset}]]
  /\ etask \in [1..Chunks -> [row : BOOLEAN, dir : BOOLEAN]]
  /\ \A c \in 1..Chunks : etask[c].dir => etask[c].row
  /\ disk \in [1..Chunks -> [dir : BOOLEAN, run : File, fs : File]]
  /\ gen \in [pc : {"idle", "task", "variables", "run", "fs", "dir"}, chunk : 0..Chunks,
              hdr : HdrValues \cup {""}, data : [Names -> Texts]]
  /\ renderAux \in [edits : 0..MaxRenderEdits, crashes : 0..MaxRenderCrashes,
                    cut : SUBSET (1..Chunks)]

\* A task that has a script directory finds every file of its job's configuration
\* in it; and a directory without its task's script_dir is the one at work, or was
\* left by a crash, never by a rendering that failed halfway.
DirsComplete ==
  \A c \in 1..Chunks :
    /\ etask[c].dir => /\ disk[c].run # <<>>
                       /\ ejob.fs # NoTemplate => disk[c].fs # <<>>
    /\ disk[c].dir => \/ etask[c].dir
                      \/ gen.chunk = c /\ gen.pc \in {"fs", "dir"}
                      \/ c \in renderAux.cut

\* Whatever is changed while a job is expanded, and whatever variables have the
\* names of built-in values: the files of a chunk are about that chunk, those of
\* all chunks assume one HDR type of the source, and the job's own variables are
\* not overridden by global ones.
FilesOf(c) == {disk[c].run, disk[c].fs} \ {<<>>}
ScriptsAgree ==
  \A c \in 1..Chunks : \A f \in FilesOf(c) : \A n \in DOMAIN f :
    /\ n = "CHUNK_INDEX" => f[n] = ValueOfChunk[c]
    /\ n = "HDR_TYPE" =>
         \A d \in 1..Chunks : \A g \in FilesOf(d) : n \in DOMAIN g => g[n] = f[n]
    /\ (n \notin Builtins /\ ejob.extra[n] # Unset) => f[n] = ejob.extra[n]

================================================================================
