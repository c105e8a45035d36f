----------------------------- MODULE SourceCatalog -----------------------------
(***************************************************************************)
(* The source files the controller knows: their rows, the jobs that are    *)
(* made for a new source, requests for further ones, and removal.  Each    *)
(* request runs its SQL statements one at a time, between those of the     *)
(* others.                                                                 *)
(***************************************************************************)
EXTENDS Integers, Sequences, FiniteSets, SequencesExt

CONSTANTS
  Paths,         \* share paths, already checked by IsSharePath
  Callers,       \* requests that are served at once
  MaxSources, MaxJobs,   \* bounds on rows ever created
  MaxFailures,   \* bounds failing statements, clients that go away and restarts
  NoPath

ASSUME SourcesAssumption ==
  /\ NoPath \notin Paths
  /\ MaxSources \in Nat /\ MaxJobs \in Nat /\ MaxFailures \in Nat

VARIABLES
  source,       \* rows of sources in the order of creation: the path of each, NoPath when deleted
  srcJob,       \* rows of jobs in the order of creation: type, source, made by handleCreateSource?
  call,         \* what each request has read and will do next
  srcAux        \* failures so far, and the jobs that were not made

srcVars == <<source, srcJob, call, srcAux>>

--------------------------------------------------------------------------------
(* Rows                                                                    *)

Here == {s \in DOMAIN source : source[s] # NoPath}
AutoJobs(s, type) ==
  {j \in DOMAIN srcJob : srcJob[j] = [type |-> type, source |-> s, auto |-> TRUE]}

IdleCall == [pc |-> "idle", path |-> NoPath, source |-> 0, type |-> "none"]
Replies(c) == call' = [call EXCEPT ![c] = IdleCall]

Fails == srcAux.failures < MaxFailures

InsertJob(type, s, auto) ==
  /\ Len(srcJob) < MaxJobs
  /\ s \in Here  \* the foreign key
  /\ srcJob' = Append(srcJob, [type |-> type, source |-> s, auto |-> auto])

--------------------------------------------------------------------------------
(* POST /sources                                                           *)

\* A path that is known is answered with its source.
CheckPath(c) ==
  /\ call[c].pc = "idle"
  /\ \E p \in Paths :
       /\ \A s \in Here : source[s] # p
       /\ call' = [call EXCEPT ![c] = [IdleCall EXCEPT !.pc = "insert", !.path = p]]
  /\ UNCHANGED <<source, srcJob, srcAux>>

\* unc_path is UNIQUE: of two requests with the same path one is refused.
Known_Unchecked(p) == FALSE
Known(p) == \E s \in Here : source[s] = p

CreateSource(c) ==
  /\ call[c].pc = "insert"
  /\ ~Known(call[c].path)
  /\ Len(source) < MaxSources
  /\ source' = Append(source, call[c].path)
  /\ call' = [call EXCEPT ![c] = [IdleCall EXCEPT !.pc = "analysis",
                                                  !.source = Len(source) + 1]]
  /\ UNCHANGED <<srcJob, srcAux>>

CreateSourceRefused(c) ==
  /\ call[c].pc = "insert"
  /\ Known(call[c].path)
  /\ Replies(c)
  /\ UNCHANGED <<source, srcJob, srcAux>>

AfterSchedule_One(s, pc) == IdleCall
AfterSchedule(s, pc) ==
  IF pc = "analysis" THEN [IdleCall EXCEPT !.pc = "hdr_detect", !.source = s] ELSE IdleCall

\* scheduleSourceAnalysis: a job that cannot be created is only logged.
ScheduleJob(c) ==
  LET s == call[c].source IN
  /\ call[c].pc \in {"analysis", "hdr_detect"}
  /\ call' = [call EXCEPT ![c] = AfterSchedule(s, @.pc)]
  /\ \/ InsertJob(call[c].pc, s, TRUE) /\ UNCHANGED srcAux
     \/ s \notin Here /\ UNCHANGED <<srcJob, srcAux>>
     \/ /\ Fails
        /\ srcAux' = [failures |-> srcAux.failures + 1,
                      missed |-> srcAux.missed \cup {<<s, call[c].pc>>}]
        /\ UNCHANGED srcJob
  /\ UNCHANGED source

--------------------------------------------------------------------------------
(* POST /sources/{id}/analyze, /encode, /hdr-detect; DELETE /sources/{id}  *)

GetSource(c) ==
  /\ call[c].pc = "idle"
  /\ \E s \in Here, type \in {"analysis", "encode", "hdr_detect"} :
       call' = [call EXCEPT ![c] = [IdleCall EXCEPT !.pc = "create", !.source = s,
                                                    !.type = type]]
  /\ UNCHANGED <<source, srcJob, srcAux>>

CreateSourceJob(c) ==
  /\ call[c].pc = "create"
  /\ InsertJob(call[c].type, call[c].source, FALSE)
  /\ Replies(c)
  /\ UNCHANGED <<source, srcAux>>

CreateSourceJobRefused(c) ==
  /\ call[c].pc = "create"
  /\ call[c].source \notin Here
  /\ Replies(c)
  /\ UNCHANGED <<source, srcJob, srcAux>>

\* POST /jobs and /analysis/scan rely on the foreign key alone.
HandleCreateJob ==
  /\ \E s \in Here, type \in {"analysis", "encode", "audio"} : InsertJob(type, s, FALSE)
  /\ UNCHANGED <<source, call, srcAux>>

\* A statement of the request fails, its client goes away or the controller stops.
\* In scheduleSourceAnalysis the other job is tried all the same.
Unmade(s, pc) == CASE pc = "analysis"   -> {<<s, "analysis">>, <<s, "hdr_detect">>}
                   [] pc = "hdr_detect" -> {<<s, "hdr_detect">>}
                   [] OTHER             -> {}
LoseCall(c) ==
  /\ call[c].pc # "idle" /\ Fails
  /\ srcAux' = [failures |-> srcAux.failures + 1,
                missed |-> srcAux.missed \cup Unmade(call[c].source, call[c].pc)]
  /\ Replies(c)
  /\ UNCHANGED <<source, srcJob>>

\* ON DELETE RESTRICT: with a job, which nothing ever deletes, a source stays.
Removable_Always(s) == TRUE
Removable(s) == \A j \in DOMAIN srcJob : srcJob[j].source # s

DeleteSource ==
  /\ \E s \in Here : Removable(s) /\ source' = [source EXCEPT ![s] = NoPath]
  /\ UNCHANGED <<srcJob, call, srcAux>>

--------------------------------------------------------------------------------
SourcesInit ==
  /\ source = <<>>
  /\ srcJob = <<>>
  /\ call = [c \in Callers |-> IdleCall]
  /\ srcAux = [failures |-> 0, missed |-> {}]

SourcesNext ==
  \/ \E c \in Callers :
       \/ CheckPath(c) \/ CreateSource(c) \/ CreateSourceRefused(c) \/ ScheduleJob(c)
       \/ GetSource(c) \/ CreateSourceJob(c) \/ CreateSourceJobRefused(c)
       \/ LoseCall(c)
  \/ HandleCreateJob \/ DeleteSource

SourcesSpec == SourcesInit /\ [][SourcesNext]_srcVars

--------------------------------------------------------------------------------
(* Properties                                                              *)

SourceJob == [type : {"analysis", "encode", "hdr_detect", "audio"}, source : 1..MaxSources,
              auto : BOOLEAN]

\* Types, and every job's source is in the table: a source that somebody deletes
\* while a request schedules its jobs leaves no job behind.
SourcesTypeOK ==
  /\ source \in Seq(Paths \cup {NoPath}) /\ Len(source) <= MaxSources
  /\ srcJob \in Seq(SourceJob)
  /\ \A j \in DOMAIN srcJob : srcJob[j].source \in Here
  /\ call \in [Callers -> [pc : {"idle", "insert", "analysis", "hdr_detect", "create"},
                           path : Paths \cup {NoPath}, source : 0..MaxSources,
                           type : {"none", "analysis", "encode", "hdr_detect"}]]
  /\ srcAux \in [failures : 0..MaxFailures,
                 missed : SUBSET ((1..MaxSources) \X {"analysis", "hdr_detect"})]

\* However many requests register the same file at once, it gets one row, and
\* the row one analysis and one HDR detection of its own making: both exist when
\* the request has been answered, unless creating them failed.
SourcesAnalysed ==
  /\ \A s, t \in Here : s # t => source[s] # source[t]
  /\ \A s \in Here : \A type \in {"analysis", "hdr_detect"} :
       LET n == Cardinality(AutoJobs(s, type)) IN
       /\ n <= 1
       /\ (/\ \A c \in Callers : call[c].pc \in {"idle", "insert", "create"}
           /\ <<s, type>> \notin srcAux.missed) => n = 1

================================================================================
