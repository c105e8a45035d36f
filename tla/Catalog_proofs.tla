----------------------------- MODULE Catalog_proofs -----------------------------
(***************************************************************************)
(* Proofs about the catalog: sources are analysed once, lists of rows are  *)
(* complete, restarts keep the path mappings, and the scripts of an encode *)
(* job agree with one another.  The four parts share no state.             *)
(***************************************************************************)
EXTENDS MCCatalog, Ordering_proofs

--------------------------------------------------------------------------------
(* The types of the sources                                                *)

CallStates == [pc : {"idle", "insert", "analysis", "hdr_detect", "create"},
               path : Paths \cup {NoPath}, source : 0..MaxSources,
               type : {"none", "analysis", "encode", "hdr_detect"}]
SourceCounts == [failures : 0..MaxFailures,
                 missed : SUBSET ((1..MaxSources) \X {"analysis", "hdr_detect"})]
AutoTypes == {"analysis", "hdr_detect"}

\* What a request schedules jobs for is a row, of which it is the only request.
Scheduling ==
  /\ \A c \in Callers : call[c].pc = "create" => call[c].type # "none"
  /\ \A c \in Callers : call[c].pc \in AutoTypes => call[c].source \in DOMAIN source
  /\ \A c, d \in Callers :
       call[c].pc \in AutoTypes /\ call[d].pc \in AutoTypes /\ call[c].source = call[d].source
         => c = d

SourcesTyped ==
  /\ source \in Seq(Paths \cup {NoPath}) /\ Len(source) <= MaxSources
  /\ srcJob \in Seq(SourceJob) /\ \A j \in DOMAIN srcJob : srcJob[j].source \in Here
  /\ call \in [Callers -> CallStates]
  /\ srcAux \in SourceCounts

LEMMA SourceTypes == SourcesTypeOK <=> SourcesTyped
  BY DEF SourcesTypeOK, SourcesTyped, CallStates, SourceCounts

LEMMA IdleCallType ==
  /\ IdleCall \in CallStates
  /\ \A p \in Paths : [IdleCall EXCEPT !.pc = "insert", !.path = p] \in CallStates
  /\ \A s \in 1..MaxSources, pc \in AutoTypes :
       /\ [IdleCall EXCEPT !.pc = pc, !.source = s] \in CallStates
       /\ [IdleCall EXCEPT !.pc = pc, !.source = s].pc = pc
       /\ [IdleCall EXCEPT !.pc = pc, !.source = s].source = s
  /\ \A s \in 1..MaxSources, type \in {"analysis", "encode", "hdr_detect"} :
       [IdleCall EXCEPT !.pc = "create", !.source = s, !.type = type] \in CallStates
<1>1. IdleCall \in CallStates
  BY SourcesAssumption DEF IdleCall, CallStates
<1>2. \A p \in Paths : [IdleCall EXCEPT !.pc = "insert", !.path = p] \in CallStates
  BY <1>1 DEF CallStates
<1>3. ASSUME NEW s \in 1..MaxSources, NEW pc \in AutoTypes
      PROVE  /\ [IdleCall EXCEPT !.pc = pc, !.source = s] \in CallStates
             /\ [IdleCall EXCEPT !.pc = pc, !.source = s].pc = pc
             /\ [IdleCall EXCEPT !.pc = pc, !.source = s].source = s
  <2>1. s \in 0..MaxSources /\ pc \in {"idle", "insert", "analysis", "hdr_detect", "create"}
    BY SourcesAssumption DEF AutoTypes
  <2>2. QED
    BY <1>1, <2>1 DEF CallStates
<1>4. ASSUME NEW s \in 1..MaxSources, NEW type \in {"analysis", "encode", "hdr_detect"}
      PROVE  [IdleCall EXCEPT !.pc = "create", !.source = s, !.type = type] \in CallStates
  <2>1. s \in 0..MaxSources
    BY SourcesAssumption
  <2>2. QED
    BY <1>1, <2>1 DEF CallStates
<1>5. QED
  BY <1>1, <1>2, <1>3, <1>4

LEMMA SourceRows ==
  ASSUME SourcesTypeOK
  PROVE  /\ Len(source) \in 0..MaxSources /\ DOMAIN source = 1..Len(source)
         /\ DOMAIN source \subseteq 1..MaxSources /\ Here \subseteq DOMAIN source
         /\ Len(srcJob) \in Nat /\ DOMAIN srcJob = 1..Len(srcJob)
         /\ \A j \in DOMAIN srcJob : srcJob[j] \in SourceJob
  BY SourceTypes, SourcesAssumption DEF SourcesTyped, Here

\* Inserting a job adds one to those of its type and source.
LEMMA JobInserted ==
  ASSUME SourcesTypeOK, NEW type \in {"analysis", "encode", "hdr_detect", "audio"},
         NEW s \in Nat, NEW auto \in BOOLEAN, InsertJob(type, s, auto)
  PROVE  /\ s \in Here
         /\ srcJob' \in Seq(SourceJob)
         /\ \A j \in DOMAIN srcJob' : srcJob'[j].source \in Here
         /\ \A t \in AutoTypes, u \in DOMAIN source :
              \/ AutoJobs(u, t)' = AutoJobs(u, t)
              \/ /\ auto /\ t = type /\ u = s
                 /\ AutoJobs(u, t)' = AutoJobs(u, t) \cup {Len(srcJob) + 1}
         /\ auto => AutoJobs(s, type)' = AutoJobs(s, type) \cup {Len(srcJob) + 1}
<1> DEFINE job == [type |-> type, source |-> s, auto |-> auto]
           n == Len(srcJob)
<1>1. s \in Here /\ srcJob' = Append(srcJob, job)
  BY DEF InsertJob
<1>2. job \in SourceJob
  BY <1>1, SourceRows DEF SourceJob
<1>3. /\ srcJob \in Seq(SourceJob) /\ n \in Nat /\ DOMAIN srcJob = 1..n
      /\ \A j \in DOMAIN srcJob : srcJob[j].source \in Here
  BY SourceRows, SourceTypes DEF SourcesTyped
<1>4. /\ srcJob' \in Seq(SourceJob) /\ DOMAIN srcJob' = 1..n + 1
      /\ \A j \in 1..n : srcJob'[j] = srcJob[j]
      /\ srcJob'[n + 1] = job
  BY <1>1, <1>2, <1>3
<1>5. 1..n + 1 = 1..n \cup {n + 1} /\ n + 1 \notin 1..n
  BY <1>3
<1>6. job.source = s
  OBVIOUS
<1> HIDE DEF n
<1>7. \A j \in DOMAIN srcJob' : srcJob'[j].source \in Here
  BY <1>1, <1>3, <1>4, <1>5, <1>6
<1>8. ASSUME NEW t, NEW u, job # [type |-> t, source |-> u, auto |-> TRUE]
      PROVE  AutoJobs(u, t)' = AutoJobs(u, t)
  BY <1>3, <1>4, <1>5, <1>8 DEF AutoJobs
<1>9. ASSUME NEW t, NEW u, job = [type |-> t, source |-> u, auto |-> TRUE]
      PROVE  AutoJobs(u, t)' = AutoJobs(u, t) \cup {n + 1}
  BY <1>3, <1>4, <1>5, <1>9 DEF AutoJobs
<1>10. ASSUME NEW t, NEW u
       PROVE  job = [type |-> t, source |-> u, auto |-> TRUE] <=> t = type /\ u = s /\ auto
  OBVIOUS
<1>11. QED
  BY <1>1, <1>4, <1>7, <1>8, <1>9, <1>10 DEF n

--------------------------------------------------------------------------------
(***************************************************************************)
(* SourcesAnalysed is not inductive: that a job is made once depends on    *)
(* which request still has it to make, and that there is only one.         *)
(***************************************************************************)

ToMake(s, type) ==
  \E c \in Callers : /\ call[c].source = s
                     /\ \/ call[c].pc = "analysis"
                        \/ call[c].pc = "hdr_detect" /\ type = "hdr_detect"

OnePath == \A s, t \in Here : s # t => source[s] # source[t]

JobsMade ==
  \A s \in DOMAIN source : \A type \in AutoTypes :
    /\ \A i, j \in AutoJobs(s, type) : i = j
    /\ ToMake(s, type) => AutoJobs(s, type) = {}
    /\ s \in Here /\ ~ToMake(s, type) /\ <<s, type>> \notin srcAux.missed
         => AutoJobs(s, type) # {}

SourcesInv == SourcesTypeOK /\ Scheduling /\ OnePath /\ JobsMade

LEMMA InvAnalysed == SourcesInv => SourcesAnalysed
<1> SUFFICES ASSUME SourcesInv PROVE SourcesAnalysed
  OBVIOUS
<1>1. OnePath
  BY DEF SourcesInv
<1>2. ASSUME NEW s \in Here, NEW type \in AutoTypes
      PROVE  /\ Cardinality(AutoJobs(s, type)) <= 1
             /\ (/\ \A c \in Callers : call[c].pc \in {"idle", "insert", "create"}
                 /\ <<s, type>> \notin srcAux.missed) => Cardinality(AutoJobs(s, type)) = 1
  <2>1. s \in DOMAIN source
    BY DEF Here
  <2>2. \A i, j \in AutoJobs(s, type) : i = j
    BY <2>1 DEF SourcesInv, JobsMade
  <2>3. Cardinality(AutoJobs(s, type)) = IF AutoJobs(s, type) = {} THEN 0 ELSE 1
    BY <2>2, AtMostOne
  <2>4. (\A c \in Callers : call[c].pc \in {"idle", "insert", "create"}) => ~ToMake(s, type)
    BY DEF ToMake
  <2>5. QED
    BY <2>1, <2>3, <2>4 DEF SourcesInv, JobsMade
<1>3. QED
  BY <1>1, <1>2 DEF SourcesAnalysed, OnePath, AutoTypes

\* A request that schedules nothing, and goes on to schedule nothing.
LEMMA OtherCall ==
  ASSUME SourcesInv, NEW c \in Callers, NEW e \in CallStates,
         e.pc \notin AutoTypes, call[c].pc \notin AutoTypes, e.pc = "create" => e.type # "none",
         call' = [call EXCEPT ![c] = e]
  PROVE  /\ call' \in [Callers -> CallStates]
         /\ UNCHANGED source => Scheduling'
         /\ \A s, type : ToMake(s, type)' <=> ToMake(s, type)
<1>1. call \in [Callers -> CallStates]
  BY SourceTypes DEF SourcesInv, SourcesTyped
<1>2. call'[c] = e /\ \A d \in Callers : d # c => call'[d] = call[d]
  BY <1>1
<1>3. call' \in [Callers -> CallStates]
  BY <1>1
<1>4. UNCHANGED source => Scheduling'
  BY <1>2 DEF SourcesInv, Scheduling
<1>5. ASSUME NEW s, NEW type PROVE ToMake(s, type)' <=> ToMake(s, type)
  BY <1>2 DEF ToMake, AutoTypes
<1>6. QED
  BY <1>3, <1>4, <1>5

\* The rows of the sources and what is scheduled for them do not change.
LEMMA JobsMadeKept ==
  ASSUME SourcesInv, UNCHANGED source, srcAux'.missed = srcAux.missed,
         \A s \in DOMAIN source, t \in AutoTypes : AutoJobs(s, t)' = AutoJobs(s, t),
         \A s, type : ToMake(s, type)' <=> ToMake(s, type)
  PROVE  OnePath' /\ JobsMade'
<1>1. Here' = Here
  BY DEF Here
<1>2. OnePath'
  BY <1>1 DEF SourcesInv, OnePath
<1>3. QED
  BY <1>1, <1>2 DEF SourcesInv, JobsMade

\* Requests that only read, or are refused.
LEMMA SourcesRead ==
  ASSUME SourcesInv, NEW c \in Callers,
         CheckPath(c) \/ CreateSourceRefused(c) \/ GetSource(c) \/ CreateSourceJobRefused(c)
  PROVE  SourcesInv'
<1>1. PICK e \in CallStates : /\ call' = [call EXCEPT ![c] = e] /\ e.pc \notin AutoTypes
                              /\ e.pc = "create" => e.type # "none"
  <2>1. IdleCall.pc = "idle" /\ "idle" \notin AutoTypes
    BY DEF IdleCall, AutoTypes
  <2>2. CASE CheckPath(c)
    <3>1. PICK p \in Paths :
            call' = [call EXCEPT ![c] = [IdleCall EXCEPT !.pc = "insert", !.path = p]]
      BY <2>2 DEF CheckPath
    <3>2. [IdleCall EXCEPT !.pc = "insert", !.path = p].pc = "insert"
      BY DEF IdleCall
    <3>3. QED
      BY <3>1, <3>2, IdleCallType DEF AutoTypes
  <2>3. CASE CreateSourceRefused(c) \/ CreateSourceJobRefused(c)
    BY <2>1, <2>3, IdleCallType DEF CreateSourceRefused, CreateSourceJobRefused, Replies
  <2>4. CASE GetSource(c)
    <3>1. PICK s \in Here, type \in {"analysis", "encode", "hdr_detect"} :
            call' = [call EXCEPT ![c] = [IdleCall EXCEPT !.pc = "create", !.source = s,
                                                         !.type = type]]
      BY <2>4 DEF GetSource
    <3>2. /\ [IdleCall EXCEPT !.pc = "create", !.source = s, !.type = type].pc = "create"
          /\ [IdleCall EXCEPT !.pc = "create", !.source = s, !.type = type].type = type
      BY DEF IdleCall
    <3>3. s \in 1..MaxSources
      BY SourceRows DEF SourcesInv
    <3>4. QED
      BY <3>1, <3>2, <3>3, IdleCallType DEF AutoTypes
  <2>5. QED
    BY <2>2, <2>3, <2>4
<1>2. UNCHANGED <<source, srcJob, srcAux>> /\ call[c].pc \notin AutoTypes
  BY DEF CheckPath, CreateSourceRefused, GetSource, CreateSourceJobRefused, AutoTypes
<1>3. /\ call' \in [Callers -> CallStates] /\ Scheduling'
      /\ \A s, type : ToMake(s, type)' <=> ToMake(s, type)
  BY <1>1, <1>2, OtherCall
<1>4. SourcesTyped'
  BY <1>2, <1>3, SourceTypes DEF SourcesInv, SourcesTyped, Here
<1>5. SourcesTypeOK'
  BY <1>4 DEF SourcesTypeOK, SourcesTyped, CallStates, SourceCounts
<1>6. \A s, t : AutoJobs(s, t)' = AutoJobs(s, t)
  BY <1>2 DEF AutoJobs
<1>7. QED
  BY <1>2, <1>3, <1>5, <1>6, JobsMadeKept DEF SourcesInv

\* Jobs that are asked for are not those the registration makes.
LEMMA SourcesAsked ==
  ASSUME SourcesInv, HandleCreateJob \/ \E c \in Callers : CreateSourceJob(c)
  PROVE  SourcesInv'
<1>1. UNCHANGED <<source, srcAux>> /\ Here' = Here
  BY DEF HandleCreateJob, CreateSourceJob, Here
<1>2. PICK s \in Nat, type \in {"analysis", "encode", "hdr_detect", "audio"} :
        InsertJob(type, s, FALSE)
  <2>1. CASE HandleCreateJob
    <3>1. PICK s \in Here, type \in {"analysis", "encode", "audio"} : InsertJob(type, s, FALSE)
      BY <2>1 DEF HandleCreateJob
    <3>2. s \in Nat
      BY SourceRows DEF SourcesInv
    <3>3. QED
      BY <3>1, <3>2
  <2>2. ASSUME NEW c \in Callers, CreateSourceJob(c)
        PROVE  \E s \in Nat, type \in {"analysis", "encode", "hdr_detect", "audio"} :
                 InsertJob(type, s, FALSE)
    <3>1. call[c].pc = "create" /\ InsertJob(call[c].type, call[c].source, FALSE)
      BY <2>2 DEF CreateSourceJob
    <3>2. call[c] \in CallStates
      BY SourceTypes DEF SourcesInv, SourcesTyped
    <3>3. call[c].source \in Nat /\ call[c].type \in {"none", "analysis", "encode", "hdr_detect"}
      BY <3>2, SourcesAssumption DEF CallStates
    <3>4. call[c].type # "none"
      BY <3>1 DEF SourcesInv, Scheduling
    <3>5. QED
      BY <3>1, <3>3, <3>4
  <2>3. QED
    BY <2>1, <2>2
<1>3. /\ srcJob' \in Seq(SourceJob) /\ \A j \in DOMAIN srcJob' : srcJob'[j].source \in Here
      /\ \A t \in AutoTypes, u \in DOMAIN source : AutoJobs(u, t)' = AutoJobs(u, t)
  BY <1>2, JobInserted DEF SourcesInv
<1>4. /\ call' \in [Callers -> CallStates] /\ Scheduling'
      /\ \A u, t : ToMake(u, t)' <=> ToMake(u, t)
  <2>1. CASE UNCHANGED call
    BY <1>1, <2>1, SourceTypes DEF SourcesInv, SourcesTyped, Scheduling, ToMake
  <2>2. ASSUME NEW c \in Callers, CreateSourceJob(c)
        PROVE  /\ call' \in [Callers -> CallStates] /\ Scheduling'
               /\ \A u, t : ToMake(u, t)' <=> ToMake(u, t)
    <3>1. /\ call' = [call EXCEPT ![c] = IdleCall] /\ IdleCall \in CallStates
          /\ IdleCall.pc \notin AutoTypes /\ IdleCall.pc # "create" /\ call[c].pc \notin AutoTypes
      BY <2>2, IdleCallType DEF CreateSourceJob, Replies, IdleCall, AutoTypes
    <3>2. QED
      BY <1>1, <3>1, OtherCall
  <2>3. QED
    BY <2>1, <2>2 DEF HandleCreateJob
<1>5. SourcesTyped'
  BY <1>1, <1>3, <1>4, SourceTypes DEF SourcesInv, SourcesTyped
<1>6. SourcesTypeOK'
  BY <1>5 DEF SourcesTypeOK, SourcesTyped, CallStates, SourceCounts
<1>7. OnePath' /\ JobsMade'
  BY <1>1, <1>3, <1>4, JobsMadeKept
<1>8. QED
  BY <1>4, <1>6, <1>7 DEF SourcesInv

\* A new row, for whose jobs its request is now the only one.
LEMMA SourceCreated ==
  ASSUME SourcesInv, NEW c \in Callers, CreateSource(c) PROVE SourcesInv'
<1> DEFINE n == Len(source) + 1
           e == [IdleCall EXCEPT !.pc = "analysis", !.source = n]
<1>1. /\ call[c].pc = "insert" /\ ~Known(call[c].path) /\ Len(source) < MaxSources
      /\ source' = Append(source, call[c].path)
      /\ call' = [call EXCEPT ![c] = e]
      /\ UNCHANGED <<srcJob, srcAux>>
  BY DEF CreateSource
<1>2. SourcesTypeOK /\ SourcesTyped
  BY SourceTypes DEF SourcesInv
<1>3. n \in 1..MaxSources /\ n \notin DOMAIN source /\ DOMAIN source = 1..Len(source)
  BY <1>1, <1>2, SourceRows, SourcesAssumption
<1>4. e \in CallStates /\ e.pc = "analysis" /\ e.source = n
  BY <1>3, IdleCallType DEF AutoTypes
<1> HIDE DEF e
<1>5. call'[c] = e /\ \A d \in Callers : d # c => call'[d] = call[d]
  BY <1>1, <1>2 DEF SourcesTyped
<1>6. call[c].path \in Paths \cup {NoPath}
  <2>1. call[c] \in CallStates
    BY <1>2 DEF SourcesTyped
  <2>2. QED
    BY <2>1 DEF CallStates
<1>7. /\ source' \in Seq(Paths \cup {NoPath}) /\ Len(source') = n
      /\ DOMAIN source' = DOMAIN source \cup {n}
      /\ source'[n] = call[c].path
      /\ \A s \in DOMAIN source : source'[s] = source[s]
  <2>1. source \in Seq(Paths \cup {NoPath})
    BY <1>2 DEF SourcesTyped
  <2>2. QED
    BY <1>1, <1>3, <1>6, <2>1
<1> HIDE DEF n
<1>8. /\ Here \subseteq Here' /\ Here' \subseteq Here \cup {n}
      /\ Here \subseteq DOMAIN source
  BY <1>7 DEF Here
<1>9. SourcesTyped'
  <2>1. call' \in [Callers -> CallStates]
    BY <1>1, <1>2, <1>4 DEF SourcesTyped
  <2>2. Len(source') <= MaxSources
    BY <1>3, <1>7
  <2>3. QED
    BY <1>1, <1>2, <1>7, <1>8, <2>1, <2>2 DEF SourcesTyped
<1>10. SourcesTypeOK'
  BY <1>9 DEF SourcesTypeOK, SourcesTyped, CallStates, SourceCounts
<1>11. Scheduling'
  BY <1>3, <1>4, <1>5, <1>7 DEF SourcesInv, Scheduling
<1>12. OnePath'
  <2>1. \A s \in Here : source[s] # call[c].path
    BY <1>1 DEF Known
  <2>2. QED
    BY <1>7, <1>8, <2>1 DEF SourcesInv, OnePath
<1>13. JobsMade'
  <2>1. ASSUME NEW s \in DOMAIN source', NEW type \in AutoTypes
        PROVE  /\ \A i, j \in AutoJobs(s, type)' : i = j
               /\ ToMake(s, type)' => AutoJobs(s, type)' = {}
               /\ s \in Here' /\ ~ToMake(s, type)' /\ <<s, type>> \notin srcAux'.missed
                    => AutoJobs(s, type)' # {}
    <3>1. AutoJobs(s, type)' = AutoJobs(s, type)
      BY <1>1 DEF AutoJobs
    <3>2. CASE s = n
      <4>1. AutoJobs(s, type) = {}
        BY <1>2, <1>3, <1>8, <3>2 DEF SourcesTyped, AutoJobs
      <4>2. ToMake(s, type)'
        BY <1>4, <1>5, <3>2 DEF ToMake
      <4>3. QED
        BY <3>1, <4>1, <4>2
    <3>3. CASE s \in DOMAIN source
      <4>1. ToMake(s, type)' <=> ToMake(s, type)
        BY <1>1, <1>3, <1>4, <1>5, <3>3 DEF ToMake
      <4>2. s \in Here' => s \in Here
        BY <1>3, <1>8, <3>3
      <4>3. QED
        BY <1>1, <3>1, <3>3, <4>1, <4>2 DEF SourcesInv, JobsMade
    <3>4. QED
      BY <1>7, <3>2, <3>3
  <2>2. QED
    BY <2>1 DEF JobsMade
<1>14. QED
  BY <1>10, <1>11, <1>12, <1>13 DEF SourcesInv

\* With a job, made or asked for, a source stays.
LEMMA SourceDeleted ==
  ASSUME SourcesInv, DeleteSource PROVE SourcesInv'
<1>1. PICK s \in Here : Removable(s) /\ source' = [source EXCEPT ![s] = NoPath]
  BY DEF DeleteSource
<1>2. UNCHANGED <<srcJob, call, srcAux>>
  BY DEF DeleteSource
<1>3. SourcesTypeOK /\ SourcesTyped
  BY SourceTypes DEF SourcesInv
<1>4. /\ source' \in Seq(Paths \cup {NoPath}) /\ Len(source') = Len(source)
      /\ DOMAIN source' = DOMAIN source /\ source'[s] = NoPath
      /\ \A t \in DOMAIN source : t # s => source'[t] = source[t]
  <2>1. source \in Seq(Paths \cup {NoPath}) /\ s \in DOMAIN source
    BY <1>3 DEF SourcesTyped, Here
  <2>2. QED
    BY <1>1, <2>1
<1>5. Here' = Here \ {s}
  BY <1>4 DEF Here
<1>6. SourcesTyped'
  BY <1>1, <1>2, <1>3, <1>4, <1>5 DEF SourcesTyped, Removable
<1>7. SourcesTypeOK'
  BY <1>6 DEF SourcesTypeOK, SourcesTyped, CallStates, SourceCounts
<1>8. Scheduling'
  BY <1>2, <1>4 DEF SourcesInv, Scheduling
<1>9. OnePath'
  BY <1>4, <1>5 DEF SourcesInv, OnePath, Here
<1>10. \A t, type : AutoJobs(t, type)' = AutoJobs(t, type) /\ (ToMake(t, type)' <=> ToMake(t, type))
  BY <1>2 DEF AutoJobs, ToMake
<1>11. JobsMade'
  BY <1>2, <1>4, <1>5, <1>10 DEF SourcesInv, JobsMade
<1>12. QED
  BY <1>7, <1>8, <1>9, <1>11 DEF SourcesInv

\* A scheduling request, and what it still has to make.
LEMMA OwnJobs ==
  ASSUME SourcesInv, NEW c \in Callers, call[c].pc \in AutoTypes, NEW e \in CallStates,
         NEW s, s = call[c].source,
         call' = [call EXCEPT ![c] = e], UNCHANGED source,
         e.pc = "idle" \/ (e.pc = "hdr_detect" /\ e.source = s)
  PROVE  /\ call' \in [Callers -> CallStates] /\ Scheduling'
         /\ \A u, t : u # s => (ToMake(u, t)' <=> ToMake(u, t))
         /\ \A t : ToMake(s, t) <=> call[c].pc = "analysis" \/ t = "hdr_detect"
         /\ \A t : ToMake(s, t)' <=> e.pc = "hdr_detect" /\ t = "hdr_detect"
<1>1. call \in [Callers -> CallStates]
  BY SourceTypes DEF SourcesInv, SourcesTyped
<1>2. call'[c] = e /\ \A d \in Callers : d # c => call'[d] = call[d]
  BY <1>1
<1>3. call' \in [Callers -> CallStates]
  BY <1>1
<1>4. \A d \in Callers : call[d].pc \in AutoTypes /\ call[d].source = s => d = c
  BY DEF SourcesInv, Scheduling
<1>6. Scheduling'
  BY <1>2, <1>4 DEF SourcesInv, Scheduling, AutoTypes
<1>7. \A u, t : u # s => (ToMake(u, t)' <=> ToMake(u, t))
  BY <1>2 DEF ToMake
<1>8. \A t : ToMake(s, t) <=> call[c].pc = "analysis" \/ t = "hdr_detect"
  BY <1>4 DEF ToMake, AutoTypes
<1>9. \A t : ToMake(s, t)' <=> e.pc = "hdr_detect" /\ t = "hdr_detect"
  BY <1>2, <1>4 DEF ToMake, AutoTypes
<1>10. QED
  BY <1>3, <1>6, <1>7, <1>8, <1>9

LEMMA JobScheduled ==
  ASSUME SourcesInv, NEW c \in Callers, ScheduleJob(c) PROVE SourcesInv'
<1>a. PICK s, p : s = call[c].source /\ p = call[c].pc
  OBVIOUS
<1>b. PICK e : e = AfterSchedule(s, p)
  OBVIOUS
<1>1. /\ p \in AutoTypes /\ UNCHANGED source
      /\ call' = [call EXCEPT ![c] = e]
      /\ \/ InsertJob(p, s, TRUE) /\ UNCHANGED srcAux
         \/ s \notin Here /\ UNCHANGED <<srcJob, srcAux>>
         \/ /\ Fails
            /\ srcAux' = [failures |-> srcAux.failures + 1,
                          missed |-> srcAux.missed \cup {<<s, p>>}]
            /\ UNCHANGED srcJob
  <2>1. AfterSchedule(call[c].source, call[c].pc) = e
    BY <1>a, <1>b
  <2>2. call[c].pc \in AutoTypes /\ UNCHANGED source
    BY DEF ScheduleJob, AutoTypes
  <2>3. call \in [Callers -> CallStates]
    BY SourceTypes DEF SourcesInv, SourcesTyped
  <2>4. call' = [call EXCEPT ![c] = e]
    BY <2>1, <2>3 DEF ScheduleJob
  <2>5. \/ InsertJob(p, s, TRUE) /\ UNCHANGED srcAux
        \/ s \notin Here /\ UNCHANGED <<srcJob, srcAux>>
        \/ /\ Fails
           /\ srcAux' = [failures |-> srcAux.failures + 1,
                         missed |-> srcAux.missed \cup {<<s, p>>}]
           /\ UNCHANGED srcJob
    BY <1>a DEF ScheduleJob
  <2>6. QED
    BY <1>a, <2>2, <2>4, <2>5
<1>2. SourcesTypeOK /\ SourcesTyped
  BY SourceTypes DEF SourcesInv
<1>3. s \in DOMAIN source /\ s \in 1..MaxSources /\ s \in Nat
  BY <1>a, <1>1, <1>2, SourceRows DEF SourcesInv, Scheduling
<1>4. /\ e \in CallStates
      /\ e.pc = "idle" \/ (e.pc = "hdr_detect" /\ e.source = s)
      /\ e.pc = "hdr_detect" <=> p = "analysis"
  <2>1. CASE p = "analysis"
    <3>1. e = [IdleCall EXCEPT !.pc = "hdr_detect", !.source = s]
      BY <1>b, <2>1 DEF AfterSchedule
    <3>2. QED
      BY <1>3, <2>1, <3>1, IdleCallType DEF AutoTypes
  <2>2. CASE p = "hdr_detect"
    <3>1. e = IdleCall /\ IdleCall.pc = "idle"
      BY <1>b, <2>2 DEF AfterSchedule, IdleCall
    <3>2. QED
      BY <2>2, <3>1, IdleCallType
  <2>3. QED
    BY <1>1, <2>1, <2>2 DEF AutoTypes
<1>5. /\ call' \in [Callers -> CallStates] /\ Scheduling'
      /\ \A u, t : u # s => (ToMake(u, t)' <=> ToMake(u, t))
      /\ \A t : ToMake(s, t) <=> p = "analysis" \/ t = "hdr_detect"
      /\ \A t : ToMake(s, t)' <=> p = "analysis" /\ t = "hdr_detect"
  <2>1. call[c].pc \in AutoTypes
    BY <1>a, <1>1
  <2>2. /\ call' \in [Callers -> CallStates] /\ Scheduling'
        /\ \A u, t : u # s => (ToMake(u, t)' <=> ToMake(u, t))
        /\ \A t : ToMake(s, t) <=> call[c].pc = "analysis" \/ t = "hdr_detect"
        /\ \A t : ToMake(s, t)' <=> e.pc = "hdr_detect" /\ t = "hdr_detect"
    <3>1. s = call[c].source /\ e \in CallStates
      BY <1>a, <1>4
    <3>2. call' = [call EXCEPT ![c] = e] /\ UNCHANGED source
      BY <1>1
    <3>3. e.pc = "idle" \/ (e.pc = "hdr_detect" /\ e.source = s)
      BY <1>4
    <3>4. call' \in [Callers -> CallStates] /\ Scheduling'
      BY <2>1, <3>1, <3>2, <3>3, OwnJobs
    <3>5. \A u, t : u # s => (ToMake(u, t)' <=> ToMake(u, t))
      BY <2>1, <3>1, <3>2, <3>3, OwnJobs
    <3>6. \A t : ToMake(s, t) <=> call[c].pc = "analysis" \/ t = "hdr_detect"
      <4>1. \A d \in Callers : call[d].pc \in AutoTypes /\ call[d].source = s => d = c
        BY <1>a, <2>1 DEF SourcesInv, Scheduling
      <4>2. QED
        BY <1>a, <2>1, <4>1 DEF ToMake, AutoTypes
    <3>7. \A t : ToMake(s, t)' <=> e.pc = "hdr_detect" /\ t = "hdr_detect"
      BY <2>1, <3>1, <3>2, <3>3, OwnJobs
    <3>8. QED
      BY <3>4, <3>5, <3>6, <3>7
  <2>3. QED
    BY <1>a, <1>4, <2>2
<1>6. Here' = Here
  BY <1>1 DEF Here
<1>7. /\ srcJob' \in Seq(SourceJob) /\ \A j \in DOMAIN srcJob' : srcJob'[j].source \in Here
      /\ srcAux' \in SourceCounts /\ srcAux.missed \subseteq srcAux'.missed
      /\ \A u \in DOMAIN source, t \in AutoTypes :
           u # s \/ t # p => AutoJobs(u, t)' = AutoJobs(u, t)
      /\ \/ AutoJobs(s, p)' = AutoJobs(s, p) \cup {Len(srcJob) + 1}
         \/ AutoJobs(s, p)' = AutoJobs(s, p) /\ (s \notin Here \/ <<s, p>> \in srcAux'.missed)
  <2>1. CASE InsertJob(p, s, TRUE) /\ UNCHANGED srcAux
    <3>1. p \in {"analysis", "encode", "hdr_detect", "audio"}
      BY <1>1 DEF AutoTypes
    <3>2. /\ srcJob' \in Seq(SourceJob) /\ \A j \in DOMAIN srcJob' : srcJob'[j].source \in Here
          /\ \A t \in AutoTypes, u \in DOMAIN source :
               AutoJobs(u, t)' = AutoJobs(u, t) \/ (t = p /\ u = s)
          /\ AutoJobs(s, p)' = AutoJobs(s, p) \cup {Len(srcJob) + 1}
      <4>1. TRUE \in BOOLEAN /\ SourcesTypeOK /\ s \in Nat /\ InsertJob(p, s, TRUE)
        BY <1>2, <1>3, <2>1
      <4>2. /\ srcJob' \in Seq(SourceJob) /\ \A j \in DOMAIN srcJob' : srcJob'[j].source \in Here
            /\ AutoJobs(s, p)' = AutoJobs(s, p) \cup {Len(srcJob) + 1}
        BY <3>1, <4>1, JobInserted
      <4>3. \A t \in AutoTypes, u \in DOMAIN source :
              AutoJobs(u, t)' = AutoJobs(u, t) \/ (t = p /\ u = s)
        <5>1. \A t \in AutoTypes, u \in DOMAIN source :
                \/ AutoJobs(u, t)' = AutoJobs(u, t)
                \/ /\ TRUE /\ t = p /\ u = s
                   /\ AutoJobs(u, t)' = AutoJobs(u, t) \cup {Len(srcJob) + 1}
          BY <3>1, <4>1, JobInserted
        <5>2. QED
          BY <5>1
      <4>4. QED
        BY <4>2, <4>3
    <3>3. QED
      BY <1>2, <2>1, <3>2 DEF SourcesTyped
  <2>2. CASE s \notin Here /\ UNCHANGED <<srcJob, srcAux>>
    BY <1>2, <2>2 DEF SourcesTyped, AutoJobs
  <2>3. CASE /\ Fails
             /\ srcAux' = [failures |-> srcAux.failures + 1,
                           missed |-> srcAux.missed \cup {<<s, p>>}]
             /\ UNCHANGED srcJob
    <3>1. srcAux \in SourceCounts
      BY <1>2 DEF SourcesTyped
    <3>2. srcAux.failures + 1 \in 0..MaxFailures
      BY <2>3, <3>1, SourcesAssumption DEF Fails, SourceCounts
    <3>3. <<s, p>> \in (1..MaxSources) \X {"analysis", "hdr_detect"}
      BY <1>1, <1>3 DEF AutoTypes
    <3>4. srcAux' \in SourceCounts
      BY <2>3, <3>1, <3>2, <3>3 DEF SourceCounts
    <3>5. \A u, t : AutoJobs(u, t)' = AutoJobs(u, t)
      BY <2>3 DEF AutoJobs
    <3>6. QED
      BY <1>2, <2>3, <3>4, <3>5 DEF SourcesTyped
  <2>4. QED
    BY <1>1, <2>1, <2>2, <2>3
<1>8. SourcesTyped'
  BY <1>1, <1>2, <1>5, <1>6, <1>7 DEF SourcesTyped
<1>9. SourcesTypeOK'
  BY <1>8 DEF SourcesTypeOK, SourcesTyped, CallStates, SourceCounts
<1>10. OnePath'
  BY <1>1, <1>6 DEF SourcesInv, OnePath
<1>11. JobsMade'
  <2>1. ASSUME NEW u \in DOMAIN source, NEW t \in AutoTypes
        PROVE  /\ \A i, j \in AutoJobs(u, t)' : i = j
               /\ ToMake(u, t)' => AutoJobs(u, t)' = {}
               /\ u \in Here' /\ ~ToMake(u, t)' /\ <<u, t>> \notin srcAux'.missed
                    => AutoJobs(u, t)' # {}
    <3>1. /\ \A i, j \in AutoJobs(u, t) : i = j
          /\ ToMake(u, t) => AutoJobs(u, t) = {}
          /\ u \in Here /\ ~ToMake(u, t) /\ <<u, t>> \notin srcAux.missed
               => AutoJobs(u, t) # {}
      BY DEF SourcesInv, JobsMade
    <3>2. CASE u = s /\ t = p
      <4>1. ToMake(u, t) /\ ~ToMake(u, t)'
        BY <1>1, <1>5, <3>2 DEF AutoTypes
      <4>2. QED
        BY <1>6, <1>7, <3>1, <3>2, <4>1
    <3>3. CASE ~(u = s /\ t = p)
      <4>1. ToMake(u, t)' <=> ToMake(u, t)
        BY <1>1, <1>5, <3>3 DEF AutoTypes
      <4>2. AutoJobs(u, t)' = AutoJobs(u, t)
        BY <1>7, <3>3
      <4>3. QED
        BY <1>6, <1>7, <3>1, <4>1, <4>2
    <3>4. QED
      BY <3>2, <3>3
  <2>2. QED
    BY <1>1, <2>1 DEF JobsMade
<1>12. QED
  BY <1>5, <1>9, <1>10, <1>11 DEF SourcesInv

LEMMA CallLost ==
  ASSUME SourcesInv, NEW c \in Callers, LoseCall(c) PROVE SourcesInv'
<1>a. PICK s, p : s = call[c].source /\ p = call[c].pc
  OBVIOUS
<1>1. /\ Fails /\ UNCHANGED <<source, srcJob>>
      /\ call' = [call EXCEPT ![c] = IdleCall]
      /\ srcAux' = [failures |-> srcAux.failures + 1, missed |-> srcAux.missed \cup Unmade(s, p)]
  BY <1>a DEF LoseCall, Replies
<1>2. SourcesTypeOK /\ SourcesTyped
  BY SourceTypes DEF SourcesInv
<1>3. IdleCall \in CallStates /\ IdleCall.pc = "idle"
  BY IdleCallType DEF IdleCall
<1>4. Here' = Here /\ \A u, t : AutoJobs(u, t)' = AutoJobs(u, t)
  BY <1>1 DEF Here, AutoJobs
<1>5. p \in AutoTypes => s \in 1..MaxSources
  BY <1>a, <1>2, SourceRows DEF SourcesInv, Scheduling
<1>6. /\ p = "analysis" => Unmade(s, p) = {<<s, "analysis">>, <<s, "hdr_detect">>}
      /\ p = "hdr_detect" => Unmade(s, p) = {<<s, "hdr_detect">>}
      /\ p \notin AutoTypes => Unmade(s, p) = {}
  BY DEF Unmade, AutoTypes
<1>7. /\ call' \in [Callers -> CallStates] /\ Scheduling'
      /\ \A u : \A t \in AutoTypes :
           /\ ToMake(u, t)' => ToMake(u, t)
           /\ ToMake(u, t) /\ ~ToMake(u, t)' => <<u, t>> \in Unmade(s, p)
  <2>1. CASE p \in AutoTypes
    <3>1. call[c].pc \in AutoTypes
      BY <1>a, <2>1
    <3>2. /\ call' \in [Callers -> CallStates] /\ Scheduling'
          /\ \A u, t : u # s => (ToMake(u, t)' <=> ToMake(u, t))
          /\ \A t : ToMake(s, t) <=> call[c].pc = "analysis" \/ t = "hdr_detect"
          /\ \A t : ~ToMake(s, t)'
      BY <1>a, <1>1, <1>3, <3>1, OwnJobs
    <3>3. ASSUME NEW u, NEW t \in AutoTypes
          PROVE  /\ ToMake(u, t)' => ToMake(u, t)
                 /\ ToMake(u, t) /\ ~ToMake(u, t)' => <<u, t>> \in Unmade(s, p)
      BY <1>a, <1>6, <2>1, <3>2 DEF AutoTypes
    <3>4. QED
      BY <3>2, <3>3
  <2>2. CASE p \notin AutoTypes
    <3>1. /\ call' \in [Callers -> CallStates] /\ Scheduling'
          /\ \A u, t : ToMake(u, t)' <=> ToMake(u, t)
      <4>1. IdleCall.pc \notin AutoTypes /\ IdleCall.pc # "create"
        BY <1>3 DEF AutoTypes
      <4>2. QED
        BY <1>a, <1>1, <1>3, <2>2, <4>1, OtherCall
    <3>2. QED
      BY <3>1
  <2>3. QED
    BY <2>1, <2>2
<1>8. srcAux' \in SourceCounts /\ srcAux'.missed = srcAux.missed \cup Unmade(s, p)
  <2>1. srcAux \in SourceCounts
    BY <1>2 DEF SourcesTyped
  <2>2. srcAux.failures + 1 \in 0..MaxFailures
    BY <1>1, <2>1, SourcesAssumption DEF Fails, SourceCounts
  <2>3. Unmade(s, p) \subseteq (1..MaxSources) \X {"analysis", "hdr_detect"}
    BY <1>5, <1>6 DEF AutoTypes
  <2>4. QED
    BY <1>1, <2>1, <2>2, <2>3 DEF SourceCounts
<1>9. SourcesTyped'
  BY <1>1, <1>2, <1>4, <1>7, <1>8 DEF SourcesTyped
<1>10. SourcesTypeOK'
  BY <1>9 DEF SourcesTypeOK, SourcesTyped, CallStates, SourceCounts
<1>11. OnePath'
  BY <1>1, <1>4 DEF SourcesInv, OnePath
<1>12. JobsMade'
  <2>1. ASSUME NEW u \in DOMAIN source, NEW t \in AutoTypes
        PROVE  /\ \A i, j \in AutoJobs(u, t)' : i = j
               /\ ToMake(u, t)' => AutoJobs(u, t)' = {}
               /\ u \in Here' /\ ~ToMake(u, t)' /\ <<u, t>> \notin srcAux'.missed
                    => AutoJobs(u, t)' # {}
    <3>1. /\ \A i, j \in AutoJobs(u, t) : i = j
          /\ ToMake(u, t) => AutoJobs(u, t) = {}
          /\ u \in Here /\ ~ToMake(u, t) /\ <<u, t>> \notin srcAux.missed
               => AutoJobs(u, t) # {}
      BY DEF SourcesInv, JobsMade
    <3>2. <<u, t>> \in Unmade(s, p) => <<u, t>> \in srcAux'.missed
      BY <1>8
    <3>3. <<u, t>> \notin srcAux'.missed => <<u, t>> \notin srcAux.missed
      BY <1>8
    <3>4. QED
      BY <1>4, <1>7, <3>1, <3>2, <3>3
  <2>2. QED
    BY <1>1, <2>1 DEF JobsMade
<1>13. QED
  BY <1>7, <1>10, <1>11, <1>12 DEF SourcesInv

LEMMA SourcesStep == SourcesInv /\ [SourcesNext]_srcVars => SourcesInv'
<1> SUFFICES ASSUME SourcesInv, [SourcesNext]_srcVars PROVE SourcesInv'
  OBVIOUS
<1>1. CASE UNCHANGED srcVars
  <2>1. SourcesTypeOK'
    BY <1>1 DEF srcVars, SourcesInv, SourcesTypeOK, Here
  <2>2. Scheduling' /\ OnePath' /\ JobsMade'
    BY <1>1 DEF srcVars, SourcesInv, Scheduling, OnePath, JobsMade, Here, AutoJobs, ToMake
  <2>3. QED
    BY <2>1, <2>2 DEF SourcesInv
<1>2. QED
  BY <1>1, SourcesRead, SourcesAsked, SourceCreated, SourceDeleted, JobScheduled, CallLost
     DEF SourcesNext

LEMMA SourcesInitially == SourcesInit => SourcesInv
<1> SUFFICES ASSUME SourcesInit PROVE SourcesInv
  OBVIOUS
<1>1. SourcesTyped
  <2>1. srcAux \in SourceCounts
    BY SourcesAssumption DEF SourcesInit, SourceCounts
  <2>2. call \in [Callers -> CallStates]
    BY IdleCallType DEF SourcesInit
  <2>3. QED
    BY <2>1, <2>2, SourcesAssumption DEF SourcesInit, SourcesTyped
<1>2. Scheduling /\ OnePath /\ JobsMade
  BY DEF SourcesInit, Scheduling, OnePath, JobsMade, Here, IdleCall, AutoTypes
<1>3. QED
  BY <1>1, <1>2, SourceTypes DEF SourcesInv

LEMMA SourcesInvAlways == SourcesSpec => []SourcesInv
  BY SourcesInitially, SourcesStep, PTL DEF SourcesSpec

\* A file has one row and its row one analysis and one HDR detection, however many
\* requests register it, schedule jobs for it or delete it at once.
THEOREM SourcesAnalysedHolds == SourcesSpec => []SourcesAnalysed
  BY InvAnalysed, SourcesInvAlways, PTL

\* Types, and no job is left behind without its source.
THEOREM SourcesTypeCorrect == SourcesSpec => []SourcesTypeOK
<1>1. SourcesInv => SourcesTypeOK
  BY DEF SourcesInv
<1>2. QED
  BY <1>1, SourcesInvAlways, PTL

--------------------------------------------------------------------------------
(* Lists page by page                                                      *)

LEMMA RowTypes ==
  ASSUME ListsTypeOK
  PROVE  /\ Len(rows) \in Nat /\ DOMAIN rows = 1..Len(rows)
         /\ \A i \in DOMAIN rows : rows[i] \in ListRow
         /\ \A i \in DOMAIN rows : rows[i].id \in Ids /\ rows[i].priority \in Int
         /\ Present \in SUBSET (1..Len(rows)) /\ IsFiniteSet(Present)
<1>1. rows \in Seq(ListRow)
  BY DEF ListsTypeOK
<1>2. /\ Len(rows) \in Nat /\ DOMAIN rows = 1..Len(rows)
      /\ \A i \in DOMAIN rows : rows[i] \in ListRow
  BY <1>1
<1>3. \A i \in DOMAIN rows : rows[i].id \in Ids /\ rows[i].priority \in Int
  BY <1>2, ListsAssumption DEF ListRow
<1>4. Present \in SUBSET (1..Len(rows))
  BY <1>2 DEF Present
<1>5. IsFiniteSet(Present)
  <2>1. IsFiniteSet(1..Len(rows))
    BY <1>2, FS_Interval
  <2>2. QED
    BY <1>4, <2>1, FS_Subset
<1>6. QED
  BY <1>2, <1>3, <1>4, <1>5

\* ORDER BY orders the rows strictly and totally.
LEMMA PrecedesOrders ==
  ASSUME ListsTypeOK, NEW S \in SUBSET Present
  PROVE  /\ \A i \in S : ~Precedes(i, i)
         /\ \A i, j, k \in S : Precedes(i, j) /\ Precedes(j, k) => Precedes(i, k)
         /\ \A i, j \in S : i = j \/ Precedes(i, j) \/ Precedes(j, i)
<1>1. \A i \in S : i \in Int /\ rows[i].priority \in Int
  BY RowTypes
<1>2. CASE listing.table = "sources"
  BY <1>1, <1>2 DEF Precedes
<1>3. CASE listing.table # "sources"
  BY <1>1, <1>3 DEF Precedes
<1>4. QED
  BY <1>2, <1>3

Matching(cursor) == {i \in Present : Beyond(rows[i].id, cursor)}

\* A page is the start of the matching rows in their order.
LEMMA PageRows ==
  ASSUME ListsTypeOK, NEW cursor \in Nat
  PROVE  \E all \in Seq(Matching(cursor)), m \in Nat :
           /\ m = IF Len(all) < ListSize THEN Len(all) ELSE ListSize
           /\ Page(cursor) = [k \in 1..m |-> rows[all[k]].id]
           /\ \A i \in Matching(cursor) : \E k \in 1..Len(all) : all[k] = i
           /\ \A j, k \in 1..Len(all) : j < k => Precedes(all[j], all[k])
<1>1. PICK S : S = Matching(cursor)
  OBVIOUS
<1>2. S \in SUBSET Present /\ IsFiniteSet(S)
  BY <1>1, RowTypes, FS_Subset DEF Matching
<1>3. PICK R : R = {p \in S \X S : Precedes(p[1], p[2])}
  OBVIOUS
<1>4. \A i, j \in S : <<i, j>> \in R <=> Precedes(i, j)
  BY <1>3
<1>5. Orders(R, S)
  BY <1>2, <1>4, PrecedesOrders DEF Orders
<1>6. \A i \in S : Below(R, S, i) = {j \in S : Precedes(j, i)}
  BY <1>4 DEF Below
<1>7. PICK all : all = InOrder({i \in Present : Beyond(rows[i].id, cursor)}, Precedes)
  OBVIOUS
<1>8. all = [k \in 1..Cardinality(S) |->
               CHOOSE i \in S : Cardinality({j \in S : Precedes(j, i)}) = k - 1]
  BY <1>1, <1>7 DEF InOrder, Matching
<1>9. all \in [1..Cardinality(S) -> {all[k] : k \in 1..Cardinality(S)}]
  BY <1>8
<1>10. ASSUME NEW k \in 1..Cardinality(S), NEW i \in S, Cardinality(Below(R, S, i)) = k - 1
       PROVE  all[k] \in S /\ Cardinality(Below(R, S, all[k])) = k - 1
  <2>1. Cardinality({j \in S : Precedes(j, i)}) = k - 1
    BY <1>6, <1>10
  <2>2. all[k] \in S /\ Cardinality({j \in S : Precedes(j, all[k])}) = k - 1
    BY <1>8, <2>1
  <2>3. QED
    BY <1>6, <2>2
<1>11. /\ all \in Seq(S)
       /\ \A i \in S : \E k \in 1..Len(all) : all[k] = i
       /\ \A j, k \in 1..Len(all) : j < k => <<all[j], all[k]>> \in R
  <2>1. PICK T : T = {all[k] : k \in 1..Cardinality(S)}
    OBVIOUS
  <2>2. all \in [1..Cardinality(S) -> T]
    BY <1>9, <2>1
  <2>3. QED
    <3>1. /\ all \in Seq(S) /\ Len(all) = Cardinality(S)
          /\ S \subseteq {all[k] : k \in 1..Len(all)}
          /\ \A j, k \in 1..Len(all) : j < k => <<all[j], all[k]>> \in R
      BY <1>2, <1>5, <1>10, <2>2, OrderedRows
    <3>2. QED
      BY <3>1
<1>12. \A j, k \in 1..Len(all) : j < k => Precedes(all[j], all[k])
  <2>1. \A k \in 1..Len(all) : all[k] \in S
    BY <1>11
  <2>2. QED
    BY <1>4, <1>11, <2>1
<1>13. PICK m : m = IF Len(all) < ListSize THEN Len(all) ELSE ListSize
  OBVIOUS
<1>14. m \in Nat
  BY <1>11, <1>13, ListsAssumption
<1>15. Page(cursor) = [k \in 1..m |-> rows[all[k]].id]
  BY <1>7, <1>13 DEF Page
<1>16. QED
  BY <1>1, <1>11, <1>12, <1>13, <1>14, <1>15

LEMMA PageTypes ==
  ASSUME ListsTypeOK, NEW cursor \in 0..MaxRows
  PROVE  Page(cursor) \in Seq(Ids) /\ Len(Page(cursor)) <= ListSize
<1>1. cursor \in Nat /\ ListSize \in Nat \ {0}
  BY ListsAssumption
<1>2. PICK page : page = Page(cursor)
  OBVIOUS
<1>3. PICK all \in Seq(Matching(cursor)) : \E m \in Nat :
           /\ m = IF Len(all) < ListSize THEN Len(all) ELSE ListSize
           /\ Page(cursor) = [k \in 1..m |-> rows[all[k]].id]
           /\ \A i \in Matching(cursor) : \E k \in 1..Len(all) : all[k] = i
           /\ \A j, k \in 1..Len(all) : j < k => Precedes(all[j], all[k])
  BY <1>1, PageRows
<1>4. PICK m \in Nat : /\ m = IF Len(all) < ListSize THEN Len(all) ELSE ListSize
                       /\ page = [k \in 1..m |-> rows[all[k]].id]
  BY <1>2, <1>3
<1>5. m <= ListSize /\ \A k \in 1..m : k \in 1..Len(all)
  BY <1>1, <1>3, <1>4
<1>6. \A k \in 1..m : rows[all[k]].id \in Ids
  <2>1. \A k \in 1..m : all[k] \in Matching(cursor)
    BY <1>3, <1>5
  <2>2. QED
    BY <2>1, RowTypes DEF Matching, Present
<1>7. page \in [1..m -> Ids]
  BY <1>4, <1>6
<1>8. page \in Seq(Ids) /\ Len(page) = m
  BY <1>7
<1>9. QED
  BY <1>2, <1>5, <1>8

LEMMA ListsInitially == ListsInit => ListsTypeOK
  BY ListsAssumption DEF ListsInit, ListsTypeOK

LEMMA ListsStep == ListsTypeOK /\ [ListsNext]_listVars => ListsTypeOK'
<1> SUFFICES ASSUME ListsTypeOK, [ListsNext]_listVars PROVE ListsTypeOK'
  OBVIOUS
<1>1. ASSUME InsertRow PROVE ListsTypeOK'
  <2>1. PICK id \in Ids, p \in Priorities :
          rows' = Append(rows, [id |-> id, priority |-> p, here |-> TRUE])
    BY <1>1 DEF InsertRow
  <2>2. [id |-> id, priority |-> p, here |-> TRUE] \in ListRow
    BY DEF ListRow
  <2>3. rows' \in Seq(ListRow)
    BY <2>1, <2>2 DEF ListsTypeOK
  <2>4. QED
    BY <1>1, <2>3 DEF InsertRow, ListsTypeOK
<1>2. ASSUME DeleteRow PROVE ListsTypeOK'
  <2>1. PICK d \in DOMAIN rows : rows' = [rows EXCEPT ![d].here = FALSE]
    BY <1>2 DEF DeleteRow
  <2>2. rows \in Seq(ListRow) /\ rows[d] \in ListRow
    BY RowTypes DEF ListsTypeOK
  <2>3. [rows[d] EXCEPT !.here = FALSE] \in ListRow
    BY <2>2 DEF ListRow
  <2>4. rows' \in Seq(ListRow)
    BY <2>1, <2>2, <2>3
  <2>5. QED
    BY <1>2, <2>4 DEF DeleteRow, ListsTypeOK
<1>3. ASSUME StartListing PROVE ListsTypeOK'
  <2>1. PresentIds \in SUBSET Ids
    BY RowTypes DEF PresentIds, Present
  <2>2. PICK there \in SUBSET Ids : there = PresentIds
    BY <2>1
  <2>3. UNCHANGED rows /\ listing' = [listing EXCEPT !.pc = "pages", !.there = there]
    BY <1>3, <2>2 DEF StartListing
  <2>4. QED
    BY <2>3 DEF ListsTypeOK
<1>4. ASSUME ListPage PROVE ListsTypeOK'
  <2>1. PICK cursor \in 0..MaxRows, got \in Seq(Ids) :
          cursor = listing.cursor /\ got = listing.got
    BY DEF ListsTypeOK
  <2>2. PICK page \in Seq(Ids) : page = Page(cursor)
    BY PageTypes
  <2>3. ListSize \in Nat \ {0}
    BY ListsAssumption
  <2>4. Len(page) = ListSize => Last(page) \in Ids
    BY <2>2, <2>3 DEF Last
  <2>5. PICK next : next = IF Len(page) = ListSize THEN Last(page) ELSE cursor
    OBVIOUS
  <2>6. next \in 0..MaxRows
    BY <2>1, <2>4, <2>5 DEF Ids
  <2>7. PICK pc \in {"pages", "done"} :
          pc = IF Len(page) = ListSize THEN "pages" ELSE "done"
    OBVIOUS
  <2>8. PICK all : all = got \o page
    OBVIOUS
  <2>9. UNCHANGED rows /\ listing' = [listing EXCEPT !.got = all, !.pc = pc, !.cursor = next]
    BY <1>4, <2>1, <2>2, <2>5, <2>7, <2>8 DEF ListPage
  <2>10. all \in Seq(Ids)
    BY <2>1, <2>2, <2>8
  <2>11. QED
    BY <2>6, <2>9, <2>10 DEF ListsTypeOK
<1>5. CASE UNCHANGED listVars
  BY <1>5 DEF listVars, ListsTypeOK
<1>6. QED
  BY <1>1, <1>2, <1>3, <1>4, <1>5 DEF ListsNext

--------------------------------------------------------------------------------
(* Path mappings                                                           *)

Configured == {Config[i].name : i \in DOMAIN Config}
NamesNow == {mapping[m].name : m \in Rows}
RowsNamed(n) == {m \in Rows : mapping[m].name = n}

\* The entries a start has yet to come to, and those of a name that are behind it.
Todo == {Config[i].name : i \in boot.next..Len(Config)}
Before(next, n) == {i \in 1..next - 1 : Config[i].name = n}
Behind(n) == Before(boot.next, n)

\* Nothing has gone wrong, and no name was released: the premise of RestartKeepsMappings.
Untouched == ~mapAux.failed /\ \A n \in MapNames : mapAux.removed[n] = 0

CountsOK ==
  mapAux \in [seeded : [MapNames -> Nat], removed : [MapNames -> Nat],
              failed : BOOLEAN, edits : 0..MaxEdits, starts : Nat]

NamedOK == NamesNow \subseteq MapNames

\* A name was seeded no more often than it has rows and was released, nor more
\* often than it has entries and was released; a start that did not find the name
\* has seeded it only for the entries behind it.
SeedsOK ==
  \A n \in MapNames :
    /\ mapAux.seeded[n] <= mapAux.removed[n] + Cardinality(RowsNamed(n))
    /\ mapAux.seeded[n] <= mapAux.removed[n] + Cardinality(Entries(n))
    /\ boot.pc = "seeding" /\ Missing(n)
         => mapAux.seeded[n] <= mapAux.removed[n] + Cardinality(Behind(n))

\* What a start has read is still there, and what it has done with is there too.
StartOK ==
  Untouched =>
    /\ Serving => Configured \subseteq NamesNow
    /\ boot.pc = "seeding" => /\ boot.existing \subseteq NamesNow
                              /\ Configured \subseteq NamesNow \cup Todo

\* Once something has been analysed, the configured names are there, and a start
\* that has read the names has read them.
FoundOK ==
  \A f \in Files :
    /\ found[f].edits <= mapAux.edits
    /\ (Untouched /\ found[f].edits >= 0) =>
         /\ Configured \subseteq NamesNow
         /\ boot.pc = "seeding" => Configured \subseteq boot.existing
         /\ found[f].edits = mapAux.edits => found[f].by = Translations(f)

MappingsInv == /\ MappingsTypeOK /\ CountsOK /\ NamedOK
               /\ SeedsOK /\ StartOK /\ FoundOK

--------------------------------------------------------------------------------
(* Entries and rows counted by name                                        *)

LEMMA ConfigEntries ==
  /\ Len(Config) \in Nat /\ DOMAIN Config = 1..Len(Config)
  /\ \A i \in 1..Len(Config) : Config[i].name \in MapNames /\ Config[i].prefix \in Shares
  /\ Configured \subseteq MapNames
<1>1. PICK E : E = [name : MapNames, prefix : Shares]
  OBVIOUS
<1>2. Config \in Seq(E)
  BY <1>1, MappingsAssumption
<1>3. /\ Len(Config) \in Nat /\ DOMAIN Config = 1..Len(Config)
      /\ \A i \in 1..Len(Config) : Config[i] \in E
  BY <1>2
<1>4. \A i \in 1..Len(Config) : Config[i].name \in MapNames /\ Config[i].prefix \in Shares
  BY <1>1, <1>3
<1>5. QED
  BY <1>3, <1>4 DEF Configured

\* A set that loses at most one element is at most one smaller.
LEMMA Fewer ==
  ASSUME NEW S, NEW T, NEW m, IsFiniteSet(S), IsFiniteSet(T), S \ {m} \subseteq T
  PROVE  /\ Cardinality(S) \in Nat /\ Cardinality(T) \in Nat
         /\ Cardinality(S) <= Cardinality(T) + 1
         /\ S \subseteq T => Cardinality(S) <= Cardinality(T)
<1>1. /\ Cardinality(S) \in Nat /\ Cardinality(T) \in Nat
      /\ S \subseteq T => Cardinality(S) <= Cardinality(T)
  BY FS_CardinalityType, FS_Subset
<1>2. IsFiniteSet(S \ {m}) /\ Cardinality(S \ {m}) <= Cardinality(T)
  <2>1. IsFiniteSet(S \ {m})
    BY FS_Subset
  <2>2. QED
    BY <2>1, FS_Subset
<1>3. Cardinality(S) <= Cardinality(S \ {m}) + 1
  BY <1>1, FS_RemoveElement
<1>4. Cardinality(S \ {m}) \in Nat
  BY <1>2, FS_CardinalityType
<1>5. QED
  BY <1>1, <1>2, <1>3, <1>4

LEMMA RowsFinite ==
  \A n \in MapNames : /\ IsFiniteSet(RowsNamed(n)) /\ IsFiniteSet(RowsNamed(n)')
                      /\ Cardinality(RowsNamed(n)) \in Nat
                      /\ Cardinality(RowsNamed(n)') \in Nat
<1> SUFFICES ASSUME NEW n \in MapNames
             PROVE  IsFiniteSet(RowsNamed(n)) /\ IsFiniteSet(RowsNamed(n)')
  BY FS_CardinalityType
<1>1. IsFiniteSet(RowIds)
  BY MappingsAssumption, FS_Interval DEF RowIds
<1>2. RowsNamed(n) \subseteq RowIds /\ RowsNamed(n)' \subseteq RowIds
  BY DEF RowsNamed, Rows
<1>3. QED
  BY <1>1, <1>2, FS_Subset

LEMMA EntriesBefore ==
  ASSUME NEW n \in MapNames, NEW next \in 1..Len(Config) + 1
  PROVE  /\ IsFiniteSet(Entries(n)) /\ Cardinality(Entries(n)) \in Nat
         /\ IsFiniteSet(Before(next, n)) /\ Cardinality(Before(next, n)) \in Nat
         /\ Cardinality(Before(next, n)) <= Cardinality(Entries(n))
<1>1. \A i \in 1..next - 1 : i \in 1..Len(Config)
  BY ConfigEntries
<1>2. Before(next, n) \subseteq Entries(n)
  BY <1>1, ConfigEntries DEF Before, Entries
<1>3. IsFiniteSet(Entries(n))
  <2>1. IsFiniteSet(1..Len(Config)) /\ Entries(n) \subseteq 1..Len(Config)
    BY ConfigEntries, FS_Interval DEF Entries
  <2>2. QED
    BY <2>1, FS_Subset
<1>4. QED
  BY <1>2, <1>3, FS_Subset, FS_CardinalityType

LEMMA EntriesFinite ==
  ASSUME MappingsTypeOK, NEW n \in MapNames
  PROVE  /\ IsFiniteSet(Entries(n)) /\ Cardinality(Entries(n)) \in Nat
         /\ IsFiniteSet(Behind(n)) /\ Cardinality(Behind(n)) \in Nat
<1>1. boot.next \in 1..Len(Config) + 1
  BY DEF MappingsTypeOK
<1>2. QED
  BY <1>1, EntriesBefore DEF Behind

LEMMA EntriesFiniteNext ==
  ASSUME MappingsTypeOK', NEW n \in MapNames
  PROVE  /\ IsFiniteSet(Behind(n)') /\ Cardinality(Behind(n)') \in Nat
         /\ Cardinality(Behind(n)') <= Cardinality(Entries(n))
<1>1. boot'.next \in 1..Len(Config) + 1
  BY DEF MappingsTypeOK
<1>2. Behind(n)' = Before(boot'.next, n)
  BY DEF Behind, Before
<1>3. QED
  BY <1>1, <1>2, EntriesBefore

\* A start passes an entry.
LEMMA EntryPassed ==
  ASSUME MappingsTypeOK, AtEntry, NextEntry
  PROVE  /\ boot' \in [pc : {"starting", "seeding", "serving"}, next : 1..Len(Config) + 1,
                       existing : SUBSET MapNames]
         /\ boot'.pc = "seeding" /\ boot.pc = "seeding" /\ boot'.existing = boot.existing
         /\ Name \in MapNames /\ Name \in Configured
         /\ Config[boot.next].prefix \in Shares
         /\ Todo \subseteq Todo' \cup {Name}
         /\ \A n \in MapNames : Missing(n)' <=> Missing(n)
         /\ \A n \in MapNames : Behind(n) \subseteq Behind(n)'
         /\ \A n \in MapNames :
              n = Name => Cardinality(Behind(n)) + 1 <= Cardinality(Behind(n)')
<1>1. /\ boot \in [pc : {"starting", "seeding", "serving"}, next : 1..Len(Config) + 1,
                   existing : SUBSET MapNames]
      /\ boot.pc = "seeding" /\ boot.next <= Len(Config) /\ Len(Config) \in Nat
      /\ boot.next \in 1..Len(Config) /\ boot' = [boot EXCEPT !.next = boot.next + 1]
  BY ConfigEntries DEF MappingsTypeOK, AtEntry, NextEntry
<1>2. /\ boot' \in [pc : {"starting", "seeding", "serving"}, next : 1..Len(Config) + 1,
                    existing : SUBSET MapNames]
      /\ boot'.pc = "seeding" /\ boot'.existing = boot.existing
      /\ boot'.next = boot.next + 1
  BY <1>1
<1>3. Name \in MapNames /\ Name \in Configured /\ Config[boot.next].prefix \in Shares
  BY <1>1, ConfigEntries DEF Name, Configured
<1>4. Todo \subseteq Todo' \cup {Name}
  <2>1. \A i \in boot.next..Len(Config) : i = boot.next \/ i \in boot.next + 1..Len(Config)
    BY <1>1
  <2>2. QED
    BY <1>2, <2>1 DEF Todo, Name
<1>5. \A n \in MapNames : Missing(n)' <=> Missing(n)
  BY <1>2 DEF Missing
<1>6. PICK next \in Nat : next = boot.next
  BY <1>1
<1>7. \A n \in MapNames : Behind(n)' = Behind(n) \cup (IF n = Name THEN {next} ELSE {})
  <2> SUFFICES ASSUME NEW n \in MapNames
               PROVE  Before(next + 1, n) = Before(next, n) \cup (IF n = Name THEN {next} ELSE {})
    <3>1. \A k \in MapNames : Behind(k)' = Before(boot'.next, k)
      BY DEF Behind, Before
    <3>2. QED
      BY <1>2, <1>6, <3>1 DEF Behind
  <2>1. n = Name <=> Config[next].name = n
    BY <1>6 DEF Name
  <2>2. next \in 1..next /\ \A i : i \in 1..next <=> i \in 1..next - 1 \/ i = next
    BY <1>1, <1>6
  <2>3. next + 1 - 1 = next
    OBVIOUS
  <2>4. Before(next + 1, n) = {i \in 1..next : Config[i].name = n}
    BY <2>3 DEF Before
  <2>5. QED
    BY <2>1, <2>2, <2>4 DEF Before
<1>8. ASSUME NEW n \in MapNames, n = Name
      PROVE  Cardinality(Behind(n)) + 1 <= Cardinality(Behind(n)')
  <2>1. Behind(n)' = Behind(n) \cup {boot.next}
    BY <1>6, <1>7, <1>8
  <2>2. boot.next \notin Behind(n)
    BY <1>1 DEF Behind, Before
  <2>3. IsFiniteSet(Behind(n)) /\ Cardinality(Behind(n)) \in Nat
    BY EntriesFinite
  <2>4. Cardinality(Behind(n) \cup {boot.next}) = Cardinality(Behind(n)) + 1
    BY <2>2, <2>3, FS_AddElement
  <2>5. QED
    BY <2>1, <2>3, <2>4
<1>9. QED
  BY <1>1, <1>2, <1>3, <1>4, <1>5, <1>7, <1>8

LEMMA SeedsNext ==
  ASSUME \A n \in MapNames :
           /\ mapAux'.seeded[n] <= mapAux'.removed[n] + Cardinality(RowsNamed(n)')
           /\ mapAux'.seeded[n] <= mapAux'.removed[n] + Cardinality(Entries(n))
           /\ boot'.pc = "seeding" /\ Missing(n)'
                => mapAux'.seeded[n] <= mapAux'.removed[n] + Cardinality(Behind(n)')
  PROVE  SeedsOK'
<1>1. \A n \in MapNames : Entries(n)' = Entries(n)
  BY DEF Entries
<1>2. QED
  BY <1>1 DEF SeedsOK

\* Nothing that SeedsOK speaks of changes.
LEMMA SeedsKept ==
  ASSUME SeedsOK, mapAux'.seeded = mapAux.seeded, mapAux'.removed = mapAux.removed,
         \A n \in MapNames : RowsNamed(n)' = RowsNamed(n),
         boot' = boot \/ boot'.pc # "seeding"
  PROVE  SeedsOK'
<1>1. \A n \in MapNames :
        /\ mapAux.seeded[n] <= mapAux.removed[n] + Cardinality(RowsNamed(n))
        /\ mapAux.seeded[n] <= mapAux.removed[n] + Cardinality(Entries(n))
        /\ boot.pc = "seeding" /\ Missing(n)
             => mapAux.seeded[n] <= mapAux.removed[n] + Cardinality(Behind(n))
  BY DEF SeedsOK
<1>2. boot' = boot => \A n \in MapNames : (Missing(n)' <=> Missing(n)) /\ Behind(n)' = Behind(n)
  BY DEF Missing, Behind, Before
<1>3. QED
  BY <1>1, <1>2, SeedsNext

--------------------------------------------------------------------------------
(* What the changes of the table do to the names in it                     *)

LEMMA Creating ==
  ASSUME MappingsTypeOK, NEW m \in RowIds, NEW n \in MapNames, NEW p \in Shares,
         CreatePathMapping(m, n, p)
  PROVE  /\ mapping' \in [RowIds -> [name : MapNames \cup {0}, prefix : Shares \cup {NoPrefix},
                                     enabled : BOOLEAN, here : BOOLEAN]]
         /\ NamesNow' = NamesNow \cup {n}
         /\ Cardinality(RowsNamed(n)') = Cardinality(RowsNamed(n)) + 1
         /\ \A k \in MapNames : k # n => RowsNamed(k)' = RowsNamed(k)
<1> DEFINE row == [name |-> n, prefix |-> p, enabled |-> TRUE, here |-> TRUE]
<1>1. /\ mapping \in [RowIds -> [name : MapNames \cup {0}, prefix : Shares \cup {NoPrefix},
                                 enabled : BOOLEAN, here : BOOLEAN]]
      /\ mapping' = [mapping EXCEPT ![m] = row]
      /\ mapping[m].here = FALSE
  BY DEF MappingsTypeOK, CreatePathMapping, Unused, NoMapping
<1>2. /\ mapping'[m].name = n /\ mapping'[m].here
      /\ \A k \in RowIds : k # m => mapping'[k] = mapping[k]
  BY <1>1
<1>3. Rows' = Rows \cup {m} /\ m \notin Rows
  BY <1>1, <1>2 DEF Rows
<1>4. NamesNow' = NamesNow \cup {n}
  <2>1. \A k \in Rows : mapping'[k].name = mapping[k].name
    BY <1>2, <1>3 DEF Rows
  <2>2. QED
    BY <1>2, <1>3, <2>1 DEF NamesNow
<1>5. Cardinality(RowsNamed(n)') = Cardinality(RowsNamed(n)) + 1
  <2>1. RowsNamed(n)' = RowsNamed(n) \cup {m} /\ m \notin RowsNamed(n)
    BY <1>2, <1>3 DEF RowsNamed, Rows
  <2>2. QED
    BY <2>1, RowsFinite, FS_AddElement
<1>6. \A k \in MapNames : k # n => RowsNamed(k)' = RowsNamed(k)
  BY <1>2, <1>3 DEF RowsNamed, Rows
<1>7. QED
  BY <1>1, <1>4, <1>5, <1>6

\* Each name but one keeps its rows, and that one loses at most one.
KeepsRows(gone) ==
  \A k \in MapNames :
    /\ Cardinality(RowsNamed(k)) <= Cardinality(RowsNamed(k)') + 1
    /\ k # gone => Cardinality(RowsNamed(k)) <= Cardinality(RowsNamed(k)')

LEMMA RowsKept ==
  ASSUME NEW gone, NEW m,
         \A k \in MapNames : /\ RowsNamed(k) \ {m} \subseteq RowsNamed(k)'
                             /\ k # gone => RowsNamed(k) \subseteq RowsNamed(k)'
  PROVE  KeepsRows(gone)
<1> SUFFICES ASSUME NEW k \in MapNames
             PROVE  /\ Cardinality(RowsNamed(k)) <= Cardinality(RowsNamed(k)') + 1
                    /\ k # gone => Cardinality(RowsNamed(k)) <= Cardinality(RowsNamed(k)')
  BY DEF KeepsRows
<1>1. IsFiniteSet(RowsNamed(k)) /\ IsFiniteSet(RowsNamed(k)')
  BY RowsFinite
<1>2. RowsNamed(k) \ {m} \subseteq RowsNamed(k)'
      /\ (k # gone => RowsNamed(k) \subseteq RowsNamed(k)')
  OBVIOUS
<1>3. QED
  BY <1>1, <1>2, Fewer

LEMMA Updating ==
  ASSUME MappingsTypeOK, NEW m \in Rows, NEW n \in MapNames, NEW p \in Shares,
         NEW on \in BOOLEAN,
         mapping' = [mapping EXCEPT ![m] = [name |-> n, prefix |-> p, enabled |-> on,
                                            here |-> TRUE]]
  PROVE  /\ mapping' \in [RowIds -> [name : MapNames \cup {0}, prefix : Shares \cup {NoPrefix},
                                     enabled : BOOLEAN, here : BOOLEAN]]
         /\ NamesNow' \subseteq NamesNow \cup {n}
         /\ NamesNow \subseteq NamesNow' \cup {mapping[m].name}
         /\ n \in NamesNow'
         /\ KeepsRows(mapping[m].name)
         /\ mapping[m].name = n =>
              \A k \in MapNames : Cardinality(RowsNamed(k)) <= Cardinality(RowsNamed(k)')
<1>1. /\ mapping \in [RowIds -> [name : MapNames \cup {0}, prefix : Shares \cup {NoPrefix},
                                 enabled : BOOLEAN, here : BOOLEAN]]
      /\ m \in RowIds
  BY DEF MappingsTypeOK, Rows
<1>2. /\ mapping'[m].name = n /\ mapping'[m].here
      /\ \A k \in RowIds : k # m => mapping'[k] = mapping[k]
  BY <1>1
<1>3. Rows' = Rows
  BY <1>1, <1>2 DEF Rows
<1>4. \A k \in Rows : k # m => mapping'[k].name = mapping[k].name
  BY <1>2 DEF Rows
<1>5. /\ NamesNow' \subseteq NamesNow \cup {n}
      /\ NamesNow \subseteq NamesNow' \cup {mapping[m].name}
      /\ n \in NamesNow'
  BY <1>1, <1>2, <1>3, <1>4 DEF NamesNow
<1>6. PICK old : old = mapping[m].name
  OBVIOUS
<1>7. \A k \in MapNames : /\ RowsNamed(k) \ {m} \subseteq RowsNamed(k)'
                          /\ k # old \/ old = n => RowsNamed(k) \subseteq RowsNamed(k)'
  BY <1>2, <1>3, <1>4, <1>6 DEF RowsNamed
<1>8. KeepsRows(old)
  BY <1>7, RowsKept
<1>9. old = n =>
        \A k \in MapNames : Cardinality(RowsNamed(k)) <= Cardinality(RowsNamed(k)')
  BY <1>7, RowsFinite, Fewer
<1>10. QED
  BY <1>1, <1>5, <1>6, <1>8, <1>9

LEMMA Deleting ==
  ASSUME MappingsTypeOK, NEW m \in Rows,
         mapping' = [mapping EXCEPT ![m].here = FALSE]
  PROVE  /\ mapping' \in [RowIds -> [name : MapNames \cup {0}, prefix : Shares \cup {NoPrefix},
                                     enabled : BOOLEAN, here : BOOLEAN]]
         /\ NamesNow' \subseteq NamesNow
         /\ NamesNow \subseteq NamesNow' \cup {mapping[m].name}
         /\ KeepsRows(mapping[m].name)
<1>1. /\ mapping \in [RowIds -> [name : MapNames \cup {0}, prefix : Shares \cup {NoPrefix},
                                 enabled : BOOLEAN, here : BOOLEAN]]
      /\ m \in RowIds
  BY DEF MappingsTypeOK, Rows
<1>2. /\ mapping'[m].here = FALSE
      /\ \A k \in RowIds : k # m => mapping'[k] = mapping[k]
  BY <1>1
<1>3. Rows' = Rows \ {m}
  BY <1>1, <1>2 DEF Rows
<1>4. \A k \in Rows : k # m => mapping'[k].name = mapping[k].name
  BY <1>2 DEF Rows
<1>5. /\ NamesNow' \subseteq NamesNow
      /\ NamesNow \subseteq NamesNow' \cup {mapping[m].name}
  BY <1>1, <1>3, <1>4 DEF NamesNow
<1>6. PICK old : old = mapping[m].name
  OBVIOUS
<1>7. \A k \in MapNames : /\ RowsNamed(k) \ {m} \subseteq RowsNamed(k)'
                          /\ k # old => RowsNamed(k) \subseteq RowsNamed(k)'
  BY <1>3, <1>4, <1>6 DEF RowsNamed
<1>8. KeepsRows(old)
  BY <1>7, RowsKept
<1>9. QED
  BY <1>1, <1>5, <1>6, <1>8

\* An edit over the API ages what was found, and may only release a name when it
\* counts the release.
LEMMA Editing ==
  ASSUME MappingsInv, NEW gone \in MapNames, NEW new \in SUBSET MapNames, Edits,
         mapping' \in [RowIds -> [name : MapNames \cup {0}, prefix : Shares \cup {NoPrefix},
                                  enabled : BOOLEAN, here : BOOLEAN]],
         NamesNow' \subseteq NamesNow \cup new,
         \/ /\ mapAux' = Edited /\ NamesNow \subseteq NamesNow'
            /\ \A k \in MapNames : Cardinality(RowsNamed(k)) <= Cardinality(RowsNamed(k)')
         \/ /\ mapAux' = [Edited EXCEPT !.removed[gone] = @ + 1]
            /\ NamesNow \subseteq NamesNow' \cup {gone}
            /\ KeepsRows(gone),
         UNCHANGED <<boot, found>>
  PROVE  MappingsInv'
<1>1. CountsOK' /\ mapAux'.edits = mapAux.edits + 1 /\ mapAux'.failed = mapAux.failed
      /\ mapAux'.seeded = mapAux.seeded
      /\ \/ mapAux'.removed = mapAux.removed /\ NamesNow \subseteq NamesNow'
         \/ /\ mapAux'.removed = [mapAux.removed EXCEPT ![gone] = @ + 1]
            /\ NamesNow \subseteq NamesNow' \cup {gone}
  <2>1. /\ mapAux \in [seeded : [MapNames -> Nat], removed : [MapNames -> Nat],
                       failed : BOOLEAN, edits : 0..MaxEdits, starts : Nat]
        /\ mapAux.edits + 1 \in 0..MaxEdits
    BY MappingsAssumption DEF MappingsInv, CountsOK, Edits
  <2>2. CASE mapAux' = Edited /\ NamesNow \subseteq NamesNow'
    BY <2>1, <2>2 DEF CountsOK, Edited
  <2>3. CASE /\ mapAux' = [Edited EXCEPT !.removed[gone] = @ + 1]
             /\ NamesNow \subseteq NamesNow' \cup {gone}
    <3> DEFINE more == [mapAux.removed EXCEPT ![gone] = @ + 1]
    <3>1. mapAux.removed \in [MapNames -> Nat] /\ more \in [MapNames -> Nat]
      BY <2>1
    <3>2. mapAux' = [mapAux EXCEPT !.edits = @ + 1, !.removed = more]
      BY <2>1, <2>3 DEF Edited
    <3> HIDE DEF more
    <3>3. CountsOK' /\ mapAux'.edits = mapAux.edits + 1 /\ mapAux'.failed = mapAux.failed
          /\ mapAux'.seeded = mapAux.seeded /\ mapAux'.removed = more
      BY <2>1, <3>1, <3>2 DEF CountsOK
    <3>4. QED
      BY <2>3, <3>3 DEF more
  <2>4. QED
    BY <2>2, <2>3
<1>2. \A n \in MapNames : /\ mapAux'.removed[n] >= mapAux.removed[n]
                          /\ n \in NamesNow /\ n \notin NamesNow'
                               => mapAux'.removed[n] = mapAux.removed[n] + 1
                          /\ mapAux.removed[n] + Cardinality(RowsNamed(n))
                               <= mapAux'.removed[n] + Cardinality(RowsNamed(n)')
  <2>1. mapAux.removed \in [MapNames -> Nat]
    BY DEF MappingsInv, CountsOK
  <2>2. \A n \in MapNames : /\ mapAux'.removed[n] >= mapAux.removed[n]
                            /\ n \in NamesNow /\ n \notin NamesNow'
                                 => mapAux'.removed[n] = mapAux.removed[n] + 1
    BY <1>1, <2>1
  <2>3. ASSUME NEW n \in MapNames
        PROVE  mapAux.removed[n] + Cardinality(RowsNamed(n))
                 <= mapAux'.removed[n] + Cardinality(RowsNamed(n)')
    <3>1. /\ mapAux.removed[n] \in Nat /\ Cardinality(RowsNamed(n)) \in Nat
          /\ Cardinality(RowsNamed(n)') \in Nat
      BY <2>1, RowsFinite
    <3>2. \/ /\ mapAux'.removed[n] = mapAux.removed[n]
             /\ Cardinality(RowsNamed(n)) <= Cardinality(RowsNamed(n)')
          \/ /\ mapAux'.removed[n] = mapAux.removed[n] + 1
             /\ Cardinality(RowsNamed(n)) <= Cardinality(RowsNamed(n)') + 1
      <4>1. CASE /\ mapAux' = Edited
                 /\ \A k \in MapNames :
                      Cardinality(RowsNamed(k)) <= Cardinality(RowsNamed(k)')
        BY <4>1, <2>1 DEF Edited, MappingsInv, CountsOK
      <4>2. CASE mapAux' = [Edited EXCEPT !.removed[gone] = @ + 1] /\ KeepsRows(gone)
        <5>1. mapAux'.removed = [mapAux.removed EXCEPT ![gone] = @ + 1]
          BY <4>2 DEF Edited, MappingsInv, CountsOK
        <5>2. CASE n = gone
          BY <5>1, <5>2, <4>2, <2>1 DEF KeepsRows
        <5>3. CASE n # gone
          BY <5>1, <5>3, <4>2, <2>1 DEF KeepsRows
        <5>4. QED
          BY <5>2, <5>3
      <4>3. QED
        BY <4>1, <4>2
    <3>3. QED
      BY <3>1, <3>2
  <2>4. QED
    BY <2>2, <2>3
<1>3. \A n \in MapNames : /\ mapAux.seeded[n] \in Nat /\ mapAux.removed[n] \in Nat
                          /\ mapAux'.removed[n] \in Nat
  BY <1>1 DEF MappingsInv, CountsOK
<1>4. MappingsTypeOK' /\ NamedOK'
  BY DEF MappingsInv, MappingsTypeOK, NamedOK
<1>5. SeedsOK'
  <2> SUFFICES ASSUME NEW n \in MapNames
               PROVE  /\ mapAux'.seeded[n]
                           <= mapAux'.removed[n] + Cardinality(RowsNamed(n)')
                      /\ mapAux'.seeded[n] <= mapAux'.removed[n] + Cardinality(Entries(n))
                      /\ boot'.pc = "seeding" /\ Missing(n)' =>
                           mapAux'.seeded[n]
                             <= mapAux'.removed[n] + Cardinality(Behind(n)')
    BY DEF SeedsOK, Entries
  <2>1. (Missing(n)' <=> Missing(n)) /\ Behind(n)' = Behind(n) /\ boot' = boot
    BY DEF Missing, Behind, Before
  <2>2. /\ mapAux.seeded[n] <= mapAux.removed[n] + Cardinality(RowsNamed(n))
        /\ mapAux.seeded[n] <= mapAux.removed[n] + Cardinality(Entries(n))
        /\ boot.pc = "seeding" /\ Missing(n)
             => mapAux.seeded[n] <= mapAux.removed[n] + Cardinality(Behind(n))
    BY DEF MappingsInv, SeedsOK
  <2>3. /\ Cardinality(RowsNamed(n)) \in Nat /\ Cardinality(RowsNamed(n)') \in Nat
        /\ Cardinality(Entries(n)) \in Nat /\ Cardinality(Behind(n)) \in Nat
    BY RowsFinite, EntriesFinite DEF MappingsInv
  <2>4. mapAux'.seeded[n] = mapAux.seeded[n]
    BY <1>1
  <2>5. QED
    BY <1>2, <1>3, <2>1, <2>2, <2>3, <2>4
<1>6. Untouched' => Untouched /\ NamesNow \subseteq NamesNow'
  <2> SUFFICES ASSUME Untouched' PROVE Untouched /\ NamesNow \subseteq NamesNow'
    OBVIOUS
  <2>1. \A n \in MapNames : mapAux'.removed[n] = 0
    BY DEF Untouched
  <2>2. \A n \in MapNames : mapAux.removed[n] = 0
    BY <2>1, <1>2, <1>3
  <2>3. \A n \in MapNames : ~(n \in NamesNow /\ n \notin NamesNow')
    BY <2>1, <2>2, <1>2
  <2>4. QED
    BY <2>2, <2>3, <1>1 DEF Untouched, MappingsInv, NamedOK
<1>7. StartOK'
  BY <1>6 DEF MappingsInv, StartOK, Serving, Todo, Configured
<1>8. FoundOK'
  <2> SUFFICES ASSUME NEW f \in Files
               PROVE  /\ found'[f].edits <= mapAux'.edits
                      /\ (Untouched' /\ found'[f].edits >= 0) =>
                           /\ Configured \subseteq NamesNow'
                           /\ boot'.pc = "seeding" => Configured \subseteq boot'.existing
                           /\ found'[f].edits = mapAux'.edits
                                => found'[f].by = Translations(f)'
    BY DEF FoundOK, Configured
  <2>1. found'[f].edits = found[f].edits /\ found[f].edits <= mapAux.edits
        /\ found[f].edits \in Int /\ mapAux.edits \in Nat
    BY DEF MappingsInv, FoundOK, CountsOK, MappingsTypeOK
  <2>2. found'[f].edits # mapAux'.edits /\ found'[f].edits <= mapAux'.edits
    BY <2>1, <1>1
  <2>3. QED
    BY <2>1, <2>2, <1>6 DEF MappingsInv, FoundOK
<1>9. QED
  BY <1>1, <1>4, <1>5, <1>7, <1>8 DEF MappingsInv

--------------------------------------------------------------------------------
(* The steps                                                               *)

LEMMA MappingsInitially == MappingsInit => MappingsInv
<1> SUFFICES ASSUME MappingsInit PROVE MappingsInv
  OBVIOUS
<1>1. Rows = {} /\ NamesNow = {}
  BY DEF MappingsInit, Rows, NamesNow, NoMapping
<1>2. MappingsTypeOK
  <2>1. mapping \in [RowIds -> [name : MapNames \cup {0}, prefix : Shares \cup {NoPrefix},
                                enabled : BOOLEAN, here : BOOLEAN]]
    BY DEF MappingsInit, NoMapping
  <2>2. found \in [Files -> [by : SUBSET Shares, edits : -1..MaxEdits]]
    <3>1. -1 \in -1..MaxEdits /\ 0 - 1 = -1
      BY MappingsAssumption
    <3>2. QED
      BY <3>1 DEF MappingsInit
  <2>3. boot \in [pc : {"starting", "seeding", "serving"}, next : 1..Len(Config) + 1,
                 existing : SUBSET MapNames]
    <3>1. 1 \in 1..Len(Config) + 1
      BY ConfigEntries
    <3>2. QED
      BY <3>1 DEF MappingsInit
  <2>4. QED
    BY <2>1, <2>2, <2>3 DEF MappingsTypeOK
<1>3. CountsOK
  BY MappingsAssumption DEF MappingsInit, CountsOK
<1>4. SeedsOK
  <2>1. \A n \in MapNames : mapAux.seeded[n] = 0 /\ mapAux.removed[n] = 0
    BY DEF MappingsInit
  <2>2. boot.pc # "seeding"
    BY DEF MappingsInit
  <2>3. \A n \in MapNames : /\ Cardinality(RowsNamed(n)) \in Nat
                            /\ Cardinality(Entries(n)) \in Nat
    BY <1>2, RowsFinite, EntriesFinite
  <2>4. QED
    BY <2>1, <2>2, <2>3 DEF SeedsOK
<1>5. StartOK
  BY DEF MappingsInit, StartOK, Serving
<1>6. FoundOK
  BY DEF MappingsInit, FoundOK
<1>7. NamedOK
  BY <1>1 DEF NamedOK
<1>8. QED
  BY <1>2, <1>3, <1>4, <1>5, <1>6, <1>7 DEF MappingsInv

LEMMA Listing ==
  ASSUME MappingsInv, BootstrapList
  PROVE  MappingsInv'
<1>1. /\ boot' = [pc |-> "seeding", next |-> 1, existing |-> NamesNow]
      /\ UNCHANGED <<mapping, found, mapAux>>
  BY DEF BootstrapList, NamesNow
<1>2. /\ NamesNow' = NamesNow /\ (Untouched' <=> Untouched)
      /\ \A f \in Files : Translations(f)' = Translations(f)
      /\ \A n \in MapNames : RowsNamed(n)' = RowsNamed(n)
  BY <1>1 DEF NamesNow, Rows, RowsNamed, Untouched, Translations, Fitting
<1>3. MappingsTypeOK' /\ CountsOK' /\ NamedOK'
  <2>1. 1 \in 1..Len(Config) + 1
    BY ConfigEntries
  <2>2. QED
    BY <1>1, <1>2, <2>1 DEF MappingsInv, MappingsTypeOK, CountsOK, NamedOK
<1>4. SeedsOK'
  <2> SUFFICES ASSUME NEW n \in MapNames
               PROVE  /\ mapAux.seeded[n] <= mapAux.removed[n] + Cardinality(RowsNamed(n))
                      /\ mapAux.seeded[n] <= mapAux.removed[n] + Cardinality(Entries(n))
                      /\ Missing(n)' => mapAux.seeded[n]
                                          <= mapAux.removed[n] + Cardinality(Behind(n)')
    BY <1>1, <1>2, SeedsNext
  <2>1. /\ mapAux.seeded[n] <= mapAux.removed[n] + Cardinality(RowsNamed(n))
        /\ mapAux.seeded[n] <= mapAux.removed[n] + Cardinality(Entries(n))
    BY DEF MappingsInv, SeedsOK
  <2>2. ASSUME Missing(n)'
        PROVE  mapAux.seeded[n] <= mapAux.removed[n] + Cardinality(Behind(n)')
    <3>1. RowsNamed(n) = {}
      BY <1>1, <2>2 DEF Missing, RowsNamed, NamesNow
    <3>2. Behind(n)' = {}
      BY <1>1 DEF Behind, Before
    <3>3. mapAux.seeded[n] <= mapAux.removed[n] + Cardinality({})
      BY <2>1, <3>1
    <3>4. QED
      BY <3>2, <3>3
  <2>3. QED
    BY <2>1, <2>2
<1>5. StartOK'
  <2>1. Todo' = Configured
    BY <1>1, ConfigEntries DEF Todo, Configured
  <2>2. QED
    BY <1>1, <1>2, <2>1 DEF StartOK, Serving, Configured
<1>6. FoundOK'
  BY <1>1, <1>2 DEF MappingsInv, FoundOK, Configured
<1>7. QED
  BY <1>3, <1>4, <1>5, <1>6 DEF MappingsInv

LEMMA Seeding ==
  ASSUME MappingsInv, BootstrapEntry
  PROVE  MappingsInv'
<1>1. PICK n : n = Name
  OBVIOUS
<1>2. /\ boot' \in [pc : {"starting", "seeding", "serving"}, next : 1..Len(Config) + 1,
                    existing : SUBSET MapNames]
      /\ boot'.pc = "seeding" /\ boot.pc = "seeding" /\ boot'.existing = boot.existing
      /\ n \in MapNames /\ n \in Configured /\ Config[boot.next].prefix \in Shares
      /\ Todo \subseteq Todo' \cup {n}
      /\ \A k \in MapNames : Missing(k)' <=> Missing(k)
      /\ \A k \in MapNames : Behind(k) \subseteq Behind(k)'
      /\ Cardinality(Behind(n)) + 1 <= Cardinality(Behind(n)')
      /\ found' = found
  BY <1>1, EntryPassed DEF BootstrapEntry, MappingsInv
<1>3. \A k \in MapNames :
        /\ Cardinality(Entries(k)) \in Nat /\ Cardinality(RowsNamed(k)) \in Nat
        /\ Cardinality(Behind(k)) \in Nat /\ IsFiniteSet(Behind(k))
        /\ mapAux.seeded[k] \in Nat /\ mapAux.removed[k] \in Nat
  BY RowsFinite, EntriesFinite DEF MappingsInv, CountsOK
<1>4. ASSUME MappingsTypeOK', NEW k \in MapNames
      PROVE  /\ Cardinality(Behind(k)') \in Nat
             /\ Cardinality(Behind(k)) <= Cardinality(Behind(k)')
             /\ Cardinality(Behind(k)') <= Cardinality(Entries(k))
  <2>1. /\ IsFiniteSet(Behind(k)') /\ Cardinality(Behind(k)') \in Nat
        /\ Cardinality(Behind(k)') <= Cardinality(Entries(k))
    BY <1>4, EntriesFiniteNext
  <2>2. Cardinality(Behind(k)) <= Cardinality(Behind(k)')
    BY <1>2, <2>1, FS_Subset
  <2>3. QED
    BY <2>1, <2>2
<1>5. CASE Missing(n)
  <2>1. PICK m \in RowIds : /\ CreatePathMapping(m, n, Config[boot.next].prefix)
                            /\ mapAux' = [mapAux EXCEPT !.seeded[n] = @ + 1]
    BY <1>1, <1>5 DEF BootstrapEntry
  <2>2. /\ mapping' \in [RowIds -> [name : MapNames \cup {0}, prefix : Shares \cup {NoPrefix},
                                    enabled : BOOLEAN, here : BOOLEAN]]
        /\ NamesNow' = NamesNow \cup {n}
        /\ Cardinality(RowsNamed(n)') = Cardinality(RowsNamed(n)) + 1
        /\ \A k \in MapNames : k # n => RowsNamed(k)' = RowsNamed(k)
    BY <1>2, <2>1, Creating DEF MappingsInv
  <2>3. /\ CountsOK' /\ mapAux'.removed = mapAux.removed /\ mapAux'.edits = mapAux.edits
        /\ mapAux'.failed = mapAux.failed
        /\ mapAux'.seeded[n] = mapAux.seeded[n] + 1
        /\ \A k \in MapNames : k # n => mapAux'.seeded[k] = mapAux.seeded[k]
    <3>1. n \in MapNames
      BY <1>2
    <3>2. mapAux' = [mapAux EXCEPT !.seeded[n] = @ + 1]
      BY <2>1
    <3>3. QED
      BY <3>1, <3>2 DEF MappingsInv, CountsOK
  <2>4. Untouched' <=> Untouched
    BY <2>3 DEF Untouched
  <2>5. MappingsTypeOK' /\ NamedOK'
    BY <1>2, <2>2 DEF MappingsInv, MappingsTypeOK, NamedOK
  <2>6. SeedsOK'
    <3> SUFFICES ASSUME NEW k \in MapNames
                 PROVE  /\ mapAux'.seeded[k]
                             <= mapAux.removed[k] + Cardinality(RowsNamed(k)')
                        /\ mapAux'.seeded[k] <= mapAux.removed[k] + Cardinality(Entries(k))
                        /\ Missing(k) => mapAux'.seeded[k]
                             <= mapAux.removed[k] + Cardinality(Behind(k)')
      <4>1. \A k \in MapNames : (Missing(k)' <=> Missing(k)) /\ mapAux'.removed = mapAux.removed
        BY <1>2, <2>3
      <4>2. QED
        BY <4>1, SeedsNext
    <3>1. /\ mapAux.seeded[k] <= mapAux.removed[k] + Cardinality(RowsNamed(k))
          /\ mapAux.seeded[k] <= mapAux.removed[k] + Cardinality(Entries(k))
          /\ Missing(k) => mapAux.seeded[k] <= mapAux.removed[k] + Cardinality(Behind(k))
      BY <1>2 DEF MappingsInv, SeedsOK
    <3>2. /\ Cardinality(Behind(k)') \in Nat
          /\ Cardinality(Behind(k)) <= Cardinality(Behind(k)')
          /\ Cardinality(Behind(k)') <= Cardinality(Entries(k))
      BY <1>4, <2>5
    <3>3. /\ Cardinality(Entries(k)) \in Nat /\ Cardinality(RowsNamed(k)) \in Nat
          /\ Cardinality(Behind(k)) \in Nat
          /\ mapAux.seeded[k] \in Nat /\ mapAux.removed[k] \in Nat
      BY <1>3
    <3>4. CASE k = n
      <4>1. /\ Cardinality(RowsNamed(k)') = Cardinality(RowsNamed(k)) + 1
            /\ mapAux'.seeded[k] = mapAux.seeded[k] + 1
            /\ Cardinality(Behind(k)) + 1 <= Cardinality(Behind(k)')
            /\ Missing(k)
        BY <1>2, <1>5, <2>2, <2>3, <3>4
      <4>2. QED
        BY <3>1, <3>2, <3>3, <4>1
    <3>5. CASE k # n
      <4>1. /\ Cardinality(RowsNamed(k)') = Cardinality(RowsNamed(k))
            /\ mapAux'.seeded[k] = mapAux.seeded[k]
        BY <2>2, <2>3, <3>5
      <4>2. QED
        BY <3>1, <3>2, <3>3, <4>1
    <3>6. QED
      BY <3>4, <3>5
  <2>7. StartOK'
    <3>1. Configured \subseteq NamesNow \cup Todo => Configured \subseteq NamesNow' \cup Todo'
      BY <1>2, <2>2
    <3>2. QED
      BY <1>2, <2>2, <2>4, <3>1 DEF MappingsInv, StartOK, Serving, Configured
  <2>8. FoundOK'
    <3>1. \A f \in Files : ~(Untouched /\ found[f].edits >= 0)
      BY <1>2, <1>5 DEF MappingsInv, FoundOK, Missing
    <3>2. QED
      BY <1>2, <2>3, <2>4, <3>1 DEF MappingsInv, FoundOK
  <2>9. QED
    BY <2>3, <2>5, <2>6, <2>7, <2>8 DEF MappingsInv
<1>6. CASE ~Missing(n)
  <2>1. UNCHANGED <<mapping, mapAux>> /\ n \in boot.existing
    BY <1>1, <1>6 DEF BootstrapEntry, Missing
  <2>2. /\ NamesNow' = NamesNow /\ (Untouched' <=> Untouched)
        /\ \A f \in Files : Translations(f)' = Translations(f)
        /\ \A k \in MapNames : RowsNamed(k)' = RowsNamed(k)
    BY <2>1 DEF NamesNow, Rows, RowsNamed, Untouched, Translations, Fitting
  <2>3. MappingsTypeOK' /\ CountsOK' /\ NamedOK'
    BY <1>2, <2>1, <2>2 DEF MappingsInv, MappingsTypeOK, CountsOK, NamedOK
  <2>4. SeedsOK'
    <3> SUFFICES ASSUME NEW k \in MapNames
                 PROVE  /\ mapAux.seeded[k] <= mapAux.removed[k] + Cardinality(RowsNamed(k))
                        /\ mapAux.seeded[k] <= mapAux.removed[k] + Cardinality(Entries(k))
                        /\ Missing(k) => mapAux.seeded[k]
                             <= mapAux.removed[k] + Cardinality(Behind(k)')
      <4>1. \A k \in MapNames : /\ Missing(k)' <=> Missing(k)
                                /\ RowsNamed(k)' = RowsNamed(k)
                                /\ mapAux' = mapAux
        BY <1>2, <2>1, <2>2
      <4>2. QED
        BY <4>1, SeedsNext
    <3>1. /\ mapAux.seeded[k] <= mapAux.removed[k] + Cardinality(RowsNamed(k))
          /\ mapAux.seeded[k] <= mapAux.removed[k] + Cardinality(Entries(k))
          /\ Missing(k) => mapAux.seeded[k] <= mapAux.removed[k] + Cardinality(Behind(k))
      BY <1>2 DEF MappingsInv, SeedsOK
    <3>2. /\ Cardinality(Behind(k)') \in Nat
          /\ Cardinality(Behind(k)) <= Cardinality(Behind(k)')
      BY <1>4, <2>3
    <3>3. /\ Cardinality(Behind(k)) \in Nat
          /\ mapAux.seeded[k] \in Nat /\ mapAux.removed[k] \in Nat
      BY <1>3
    <3>4. QED
      BY <3>1, <3>2, <3>3
  <2>5. StartOK'
    BY <1>2, <2>1, <2>2 DEF MappingsInv, StartOK, Serving, Configured
  <2>6. FoundOK'
    BY <1>2, <2>1, <2>2 DEF MappingsInv, FoundOK, Configured
  <2>7. QED
    BY <2>3, <2>4, <2>5, <2>6 DEF MappingsInv
<1>7. QED
  BY <1>5, <1>6

\* A failed statement ends the promise about what is found, not that about seeding.
LEMMA Failing ==
  ASSUME MappingsInv, BootstrapFails
  PROVE  MappingsInv'
<1>1. mapAux' = [mapAux EXCEPT !.failed = TRUE] /\ UNCHANGED <<mapping, found>>
  BY DEF BootstrapFails
<1>2. /\ CountsOK' /\ mapAux'.failed /\ mapAux'.edits = mapAux.edits
      /\ mapAux'.seeded = mapAux.seeded /\ mapAux'.removed = mapAux.removed
  BY <1>1 DEF MappingsInv, CountsOK
<1>3. /\ boot' \in [pc : {"starting", "seeding", "serving"}, next : 1..Len(Config) + 1,
                    existing : SUBSET MapNames]
      /\ boot'.pc = "seeding" =>
           /\ boot.pc = "seeding"
           /\ \A n \in MapNames : Missing(n)' <=> Missing(n)
           /\ \A n \in MapNames : Behind(n) \subseteq Behind(n)'
  <2>1. CASE boot.pc = "starting" /\ boot' = [boot EXCEPT !.pc = "serving"]
    BY <2>1 DEF MappingsInv, MappingsTypeOK
  <2>2. CASE AtEntry /\ NextEntry
    BY <2>2, EntryPassed DEF MappingsInv
  <2>3. QED
    BY <2>1, <2>2 DEF BootstrapFails
<1>4. NamesNow' = NamesNow /\ ~Untouched'
      /\ \A n \in MapNames : RowsNamed(n)' = RowsNamed(n)
  BY <1>1, <1>2 DEF NamesNow, Rows, RowsNamed, Untouched
<1>5. MappingsTypeOK' /\ NamedOK'
  BY <1>1, <1>3, <1>4 DEF MappingsInv, MappingsTypeOK, NamedOK
<1>6. SeedsOK'
  <2> SUFFICES ASSUME NEW n \in MapNames
               PROVE  /\ mapAux.seeded[n] <= mapAux.removed[n] + Cardinality(RowsNamed(n))
                      /\ mapAux.seeded[n] <= mapAux.removed[n] + Cardinality(Entries(n))
                      /\ boot'.pc = "seeding" /\ Missing(n)' =>
                           mapAux.seeded[n] <= mapAux.removed[n] + Cardinality(Behind(n)')
    BY <1>2, <1>4, SeedsNext
  <2>1. /\ mapAux.seeded[n] <= mapAux.removed[n] + Cardinality(RowsNamed(n))
        /\ mapAux.seeded[n] <= mapAux.removed[n] + Cardinality(Entries(n))
        /\ boot.pc = "seeding" /\ Missing(n) =>
             mapAux.seeded[n] <= mapAux.removed[n] + Cardinality(Behind(n))
    BY DEF MappingsInv, SeedsOK
  <2>2. IsFiniteSet(Behind(n)') /\ Cardinality(Behind(n)') \in Nat
    BY <1>5, EntriesFiniteNext
  <2>3. boot'.pc = "seeding" => Cardinality(Behind(n)) <= Cardinality(Behind(n)')
    BY <1>3, <2>2, FS_Subset
  <2>4. mapAux.seeded[n] \in Nat /\ mapAux.removed[n] \in Nat
        /\ Cardinality(Behind(n)) \in Nat
    BY EntriesFinite DEF MappingsInv, CountsOK
  <2>5. QED
    BY <1>3, <2>1, <2>2, <2>3, <2>4
<1>7. StartOK' /\ FoundOK'
  BY <1>1, <1>2, <1>4 DEF MappingsInv, StartOK, FoundOK
<1>8. QED
  BY <1>2, <1>5, <1>6, <1>7 DEF MappingsInv

LEMMA Starting ==
  ASSUME MappingsInv, BootstrapDone \/ RestartController
  PROVE  MappingsInv'
<1>1. /\ UNCHANGED <<mapping, found>> /\ boot'.pc # "seeding"
      /\ boot' \in [pc : {"starting", "seeding", "serving"}, next : 1..Len(Config) + 1,
                    existing : SUBSET MapNames]
      /\ boot'.pc = "serving" => boot.pc = "seeding" /\ Todo = {}
  <2>1. CASE BootstrapDone
    <3>1. boot.next \in Nat /\ ~(boot.next <= Len(Config)) /\ Len(Config) \in Nat
      BY <2>1, ConfigEntries DEF BootstrapDone, AtEntry, MappingsInv, MappingsTypeOK
    <3>2. Todo = {}
      BY <3>1 DEF Todo
    <3>3. QED
      BY <2>1, <3>2 DEF BootstrapDone, MappingsInv, MappingsTypeOK
  <2>2. CASE RestartController
    <3>1. 1 \in 1..Len(Config) + 1
      BY ConfigEntries
    <3>2. QED
      BY <2>2, <3>1 DEF RestartController
  <2>3. QED
    BY <2>1, <2>2
<1>2. /\ CountsOK' /\ mapAux'.edits = mapAux.edits /\ mapAux'.failed = mapAux.failed
      /\ mapAux'.seeded = mapAux.seeded /\ mapAux'.removed = mapAux.removed
  BY DEF BootstrapDone, RestartController, MappingsInv, CountsOK
<1>3. /\ NamesNow' = NamesNow /\ (Untouched' <=> Untouched)
      /\ \A f \in Files : Translations(f)' = Translations(f)
      /\ \A n \in MapNames : RowsNamed(n)' = RowsNamed(n)
  BY <1>1, <1>2 DEF NamesNow, Rows, RowsNamed, Untouched, Translations, Fitting
<1>4. MappingsTypeOK' /\ NamedOK'
  BY <1>1, <1>3 DEF MappingsInv, MappingsTypeOK, NamedOK
<1>5. SeedsOK'
  BY <1>1, <1>2, <1>3, SeedsKept DEF MappingsInv
<1>6. StartOK'
  BY <1>1, <1>3 DEF MappingsInv, StartOK, Serving, Configured
<1>7. FoundOK'
  BY <1>1, <1>2, <1>3 DEF MappingsInv, FoundOK, Configured
<1>8. QED
  BY <1>2, <1>4, <1>5, <1>6, <1>7 DEF MappingsInv

LEMMA Translating ==
  ASSUME MappingsInv, TranslatePath
  PROVE  MappingsInv'
<1>1. PICK g \in Files : found' = [found EXCEPT ![g] = [by |-> Translations(g),
                                                       edits |-> mapAux.edits]]
  BY DEF TranslatePath
<1>2. Serving /\ UNCHANGED <<mapping, boot, mapAux>>
  BY DEF TranslatePath
<1>3. /\ NamesNow' = NamesNow /\ (Untouched' <=> Untouched)
      /\ \A f \in Files : Translations(f)' = Translations(f)
  BY <1>2 DEF NamesNow, Rows, Untouched, Translations, Fitting
<1>4. MappingsTypeOK'
  <2>1. Translations(g) \subseteq Shares /\ mapAux.edits \in -1..MaxEdits
    <3>1. \A m \in Fitting(g) : mapping[m].prefix \in Shares
      BY MappingsAssumption DEF Fitting
    <3>2. QED
      BY <3>1, MappingsAssumption DEF Translations, MappingsInv, CountsOK
  <2>2. found' \in [Files -> [by : SUBSET Shares, edits : -1..MaxEdits]]
    BY <1>1, <2>1 DEF MappingsInv, MappingsTypeOK
  <2>3. QED
    BY <1>2, <2>2 DEF MappingsInv, MappingsTypeOK
<1>5. CountsOK' /\ NamedOK' /\ SeedsOK' /\ StartOK'
  <2>1. /\ Todo' = Todo /\ Configured' = Configured
        /\ \A n \in MapNames : RowsNamed(n)' = RowsNamed(n)
    BY <1>2 DEF Todo, Configured, RowsNamed, Rows
  <2>2. SeedsOK'
    BY <1>2, <2>1, SeedsKept DEF MappingsInv
  <2>3. QED
    BY <1>2, <1>3, <2>1, <2>2 DEF MappingsInv, CountsOK, NamedOK, StartOK, Serving
<1>6. FoundOK'
  <2> SUFFICES ASSUME NEW f \in Files
               PROVE  /\ found'[f].edits <= mapAux.edits
                      /\ (Untouched /\ found'[f].edits >= 0) =>
                           /\ Configured \subseteq NamesNow
                           /\ boot.pc = "seeding" => Configured \subseteq boot.existing
                           /\ found'[f].edits = mapAux.edits
                                => found'[f].by = Translations(f)
    BY <1>2, <1>3 DEF FoundOK
  <2>1. CASE f = g
    <3>1. found'[f].edits = mapAux.edits /\ found'[f].by = Translations(f)
          /\ mapAux.edits \in Nat
      BY <1>1, <2>1 DEF MappingsInv, MappingsTypeOK, CountsOK
    <3>2. QED
      BY <1>2, <3>1 DEF MappingsInv, StartOK, Serving
  <2>2. CASE f # g
    <3>1. found'[f] = found[f]
      BY <1>1, <2>2 DEF MappingsInv, MappingsTypeOK
    <3>2. QED
      BY <3>1 DEF MappingsInv, FoundOK
  <2>3. QED
    BY <2>1, <2>2
<1>7. QED
  BY <1>4, <1>5, <1>6 DEF MappingsInv

LEMMA EditedOverAPI ==
  ASSUME MappingsInv,
         \/ HandleCreatePathMapping \/ HandleUpdatePathMapping \/ HandleDeletePathMapping
  PROVE  MappingsInv'
<1>1. \A m \in Rows : mapping[m].name \in MapNames
  BY DEF MappingsInv, NamedOK, NamesNow
<1>2. Edits /\ UNCHANGED <<boot, found>> /\ MappingsTypeOK
  BY DEF HandleCreatePathMapping, HandleUpdatePathMapping, HandleDeletePathMapping,
         MappingsInv
<1>3. CASE HandleCreatePathMapping
  <2>1. PICK m \in RowIds, n \in MapNames, p \in Shares : CreatePathMapping(m, n, p)
    BY <1>3 DEF HandleCreatePathMapping
  <2>2. mapAux' = Edited
    BY <1>3 DEF HandleCreatePathMapping
  <2>3. NamesNow' = NamesNow \cup {n}
        /\ mapping' \in [RowIds -> [name : MapNames \cup {0},
                                    prefix : Shares \cup {NoPrefix},
                                    enabled : BOOLEAN, here : BOOLEAN]]
        /\ Cardinality(RowsNamed(n)') = Cardinality(RowsNamed(n)) + 1
        /\ \A k \in MapNames : k # n => RowsNamed(k)' = RowsNamed(k)
    BY <1>2, <2>1, Creating
  <2>4. {n} \in SUBSET MapNames /\ NamesNow' \subseteq NamesNow \cup {n}
        /\ NamesNow \subseteq NamesNow'
    BY <2>3
  <2>5. \A k \in MapNames : Cardinality(RowsNamed(k)) <= Cardinality(RowsNamed(k)')
    BY <2>3, RowsFinite
  <2>6. QED
    BY <1>2, <2>2, <2>3, <2>4, <2>5, Editing
<1>4. CASE HandleUpdatePathMapping
  <2>1. PICK m \in Rows, n \in MapNames, p \in Shares, on \in BOOLEAN :
          /\ mapping' = [mapping EXCEPT ![m] = [name |-> n, prefix |-> p,
                                                enabled |-> on, here |-> TRUE]]
          /\ mapAux' = IF mapping[m].name = n THEN Edited ELSE Released(m)
    BY <1>4 DEF HandleUpdatePathMapping
  <2>2. /\ mapping' \in [RowIds -> [name : MapNames \cup {0}, prefix : Shares \cup {NoPrefix},
                                    enabled : BOOLEAN, here : BOOLEAN]]
        /\ NamesNow' \subseteq NamesNow \cup {n}
        /\ NamesNow \subseteq NamesNow' \cup {mapping[m].name}
        /\ n \in NamesNow'
        /\ KeepsRows(mapping[m].name)
        /\ mapping[m].name = n =>
             \A k \in MapNames : Cardinality(RowsNamed(k)) <= Cardinality(RowsNamed(k)')
    BY <1>2, <2>1, Updating
  <2>3. \/ /\ mapAux' = Edited /\ NamesNow \subseteq NamesNow'
           /\ \A k \in MapNames : Cardinality(RowsNamed(k)) <= Cardinality(RowsNamed(k)')
        \/ mapAux' = [Edited EXCEPT !.removed[mapping[m].name] = @ + 1]
    BY <2>1, <2>2 DEF Released
  <2>4. {n} \in SUBSET MapNames /\ mapping[m].name \in MapNames
    BY <1>1
  <2>5. QED
    BY <1>2, <2>2, <2>3, <2>4, Editing
<1>5. CASE HandleDeletePathMapping
  <2>1. PICK m \in Rows : /\ mapping' = [mapping EXCEPT ![m].here = FALSE]
                          /\ mapAux' = Released(m)
    BY <1>5 DEF HandleDeletePathMapping
  <2>2. /\ mapping' \in [RowIds -> [name : MapNames \cup {0}, prefix : Shares \cup {NoPrefix},
                                    enabled : BOOLEAN, here : BOOLEAN]]
        /\ NamesNow' \subseteq NamesNow
        /\ NamesNow \subseteq NamesNow' \cup {mapping[m].name}
        /\ KeepsRows(mapping[m].name)
    BY <1>2, <2>1, Deleting
  <2>3. /\ mapAux' = [Edited EXCEPT !.removed[mapping[m].name] = @ + 1]
        /\ NamesNow' \subseteq NamesNow \cup {}
        /\ {} \in SUBSET MapNames /\ mapping[m].name \in MapNames
    BY <1>1, <2>1, <2>2 DEF Released
  <2>4. QED
    BY <1>2, <2>2, <2>3, Editing
<1>6. QED
  BY <1>3, <1>4, <1>5

LEMMA MappingsStep == MappingsInv /\ [MappingsNext]_mapVars => MappingsInv'
<1> SUFFICES ASSUME MappingsInv, [MappingsNext]_mapVars PROVE MappingsInv'
  OBVIOUS
<1>1. CASE UNCHANGED mapVars
  <2>1. UNCHANGED <<mapping, boot, found, mapAux>>
    BY <1>1 DEF mapVars
  <2>2. /\ NamesNow' = NamesNow /\ (Untouched' <=> Untouched) /\ Todo' = Todo
        /\ Configured' = Configured
        /\ \A f \in Files : Translations(f)' = Translations(f)
        /\ \A n \in MapNames : RowsNamed(n)' = RowsNamed(n)
    BY <2>1 DEF NamesNow, Rows, RowsNamed, Untouched, Translations, Fitting, Todo, Configured
  <2>3. SeedsOK'
    BY <2>1, <2>2, SeedsKept DEF MappingsInv
  <2>4. QED
    BY <2>1, <2>2, <2>3 DEF MappingsInv, MappingsTypeOK, CountsOK, NamedOK, StartOK,
                            FoundOK, Serving
<1>2. CASE MappingsNext
  BY <1>2, Listing, Seeding, Failing, Starting, Translating, EditedOverAPI
     DEF MappingsNext
<1>3. QED
  BY <1>1, <1>2

LEMMA MappingsInvariant == MappingsSpec => []MappingsInv
  BY MappingsInitially, MappingsStep, PTL DEF MappingsSpec

--------------------------------------------------------------------------------
(* Theorems                                                                *)

\* Type correctness of the table, of a start and of what analyses find.
THEOREM MappingsTypeCorrect == MappingsSpec => []MappingsTypeOK
<1>1. MappingsInv => MappingsTypeOK
  BY DEF MappingsInv
<1>2. QED
  BY <1>1, MappingsInvariant, PTL

\* Restarts keep the mappings, whatever entries the configuration file gives: the
\* starts of the controller, cut wherever they are and interleaved with the API as
\* they may be, seed a name no more often than it has entries and was released, and
\* change nothing an analysis finds unless a statement failed.
THEOREM RestartKeepsMappingsHolds == MappingsSpec => []RestartKeepsMappings
<1>1. MappingsInv => RestartKeepsMappings
  <2> SUFFICES ASSUME MappingsInv PROVE RestartKeepsMappings
    OBVIOUS
  <2>1. SeededOnce
    <3>1. \A n \in MapNames : /\ Cardinality(Entries(n)) \in Nat
                              /\ mapAux.removed[n] \in Nat
      BY EntriesFinite DEF MappingsInv, CountsOK
    <3>2. QED
      BY <3>1 DEF MappingsInv, SeedsOK, SeededOnce
  <2>2. ASSUME Serving, ~mapAux.failed, \A n \in MapNames : mapAux.removed[n] = 0,
               NEW f \in Files, found[f].edits = mapAux.edits
        PROVE  found[f].by = Translations(f)
    <3>1. found[f].edits >= 0
      BY <2>2 DEF MappingsInv, CountsOK
    <3>2. QED
      BY <2>2, <3>1 DEF MappingsInv, FoundOK, Untouched
  <2>3. QED
    BY <2>1, <2>2 DEF RestartKeepsMappings
<1>2. QED
  BY <1>1, MappingsInvariant, PTL

--------------------------------------------------------------------------------
(* Script generation                                                       *)

Rendering == gen.pc \in {"variables", "run", "fs", "dir"}

\* The expansion got past the row of the first chunk: no other one did.
Begun == gen.pc # "idle" /\ (gen.pc # "task" \/ gen.chunk > 1)

AtWork ==
  /\ gen.pc # "idle" => ejob.status = "queued" /\ gen.chunk \in 1..Chunks
  /\ Rendering => etask[gen.chunk].row /\ ~etask[gen.chunk].dir
  /\ gen.pc \in {"fs", "dir"} => disk[gen.chunk].run # <<>>
  /\ gen.pc = "dir" /\ ejob.fs # NoTemplate => disk[gen.chunk].fs # <<>>
  /\ Begun => etask[1].row
  /\ ejob.status = "none" => \A c \in 1..Chunks : ~etask[c].row
  /\ ejob.status # "none" => ejob.run \in Templates
  /\ gen.pc = "fs" => ejob.fs # NoTemplate

\* What a chunk's files may hold.
OwnText(c, f) ==
  /\ f["CHUNK_INDEX"] = ValueOfChunk[c]
  /\ \A n \in Names \ Builtins : ejob.extra[n] # Unset => f[n] = ejob.extra[n]

FilesOwn == \A c \in 1..Chunks : \A f \in FilesOf(c) : OwnText(c, f)

OneHdr == \A c, d \in 1..Chunks : \A f \in FilesOf(c), g \in FilesOf(d) :
            f["HDR_TYPE"] = g["HDR_TYPE"]

\* The HDR type of the expansion at work is that of every file, the first of
\* which it wrote itself.
HdrRead ==
  /\ \A c \in 1..Chunks : FilesOf(c) # {} => etask[1].row
  /\ Begun => \A c \in 1..Chunks : \A f \in FilesOf(c) : f["HDR_TYPE"] = gen.hdr

DataRead ==
  gen.pc \in {"run", "fs", "dir"}
    => OwnText(gen.chunk, gen.data) /\ gen.data["HDR_TYPE"] = gen.hdr

RenderingInv ==
  /\ RenderingTypeOK /\ AtWork /\ DirsComplete
  /\ FilesOwn /\ OneHdr /\ HdrRead /\ DataRead

FileStates == [dir : BOOLEAN, run : File, fs : File]
RowStates  == [row : BOOLEAN, dir : BOOLEAN]
GenStates  == [pc : {"idle", "task", "variables", "run", "fs", "dir"}, chunk : 0..Chunks,
               hdr : HdrValues \cup {""}, data : [Names -> Texts]]
JobStates  == [status : {"none", "queued", "failed"}, run : Templates \cup {NoTemplate},
               fs : Templates \cup {NoTemplate}, extra : [Names -> Values \cup {Unset}]]
EditCounts == [edits : 0..MaxRenderEdits, crashes : 0..MaxRenderCrashes,
               cut : SUBSET (1..Chunks)]

RenderingTyped ==
  /\ global \in [Names -> Values \cup {Unset}]
  /\ template \in [Templates -> Contents \cup {Unset}]
  /\ hdr \in HdrValues
  /\ ejob \in JobStates
  /\ etask \in [1..Chunks -> RowStates]
  /\ \A c \in 1..Chunks : etask[c].dir => etask[c].row
  /\ disk \in [1..Chunks -> FileStates]
  /\ gen \in GenStates
  /\ renderAux \in EditCounts

LEMMA RenderingTypes == RenderingTypeOK <=> RenderingTyped
  BY DEF RenderingTypeOK, RenderingTyped, FileStates, RowStates, GenStates, JobStates, EditCounts

\* No file is empty, for two names are built in.
LEMMA NotEmpty ==
  /\ <<>> \in File
  /\ \A f \in [Names -> Texts] : f \in File /\ f # <<>>
  /\ "HDR_TYPE" \in Names /\ "CHUNK_INDEX" \in Names
<1>1. "HDR_TYPE" \in Names /\ "CHUNK_INDEX" \in Names
  BY DEF Names, Builtins
<1>2. ASSUME NEW f \in [Names -> Texts] PROVE f \in File /\ f # <<>>
  <2>1. DOMAIN f # {} /\ DOMAIN <<>> = {}
    BY <1>1
  <2>2. QED
    BY <2>1 DEF File
<1>3. QED
  BY <1>1, <1>2 DEF File

LEMMA IdleTypes ==
  /\ IdleGen \in GenStates /\ IdleGen.pc = "idle"
  /\ NoFiles \in FileStates /\ NoFiles.run = <<>> /\ NoFiles.fs = <<>> /\ NoFiles.dir = FALSE
<1>1. [n \in Names |-> Unset] \in [Names -> Texts]
  BY DEF Texts
<1>2. 0 \in 0..Chunks
  BY RenderingAssumption
<1>3. QED
  BY <1>1, <1>2, NotEmpty DEF IdleGen, GenStates, NoFiles, FileStates

LEMMA FilesIn ==
  ASSUME RenderingTypeOK, NEW c \in 1..Chunks, NEW f \in FilesOf(c)
  PROVE  f \in [Names -> Texts] /\ DOMAIN f = Names
<1>1. disk[c] \in FileStates
  BY RenderingTypes DEF RenderingTyped
<1>2. f \in File /\ f # <<>>
  BY <1>1 DEF FilesOf, FileStates
<1>3. QED
  BY <1>2 DEF File

LEMMA InvScripts == RenderingInv => ScriptsAgree
<1> SUFFICES ASSUME RenderingInv PROVE ScriptsAgree
  OBVIOUS
<1>1. ASSUME NEW c \in 1..Chunks, NEW f \in FilesOf(c), NEW n \in DOMAIN f
      PROVE  /\ n = "CHUNK_INDEX" => f[n] = ValueOfChunk[c]
             /\ n = "HDR_TYPE" =>
                  \A d \in 1..Chunks : \A g \in FilesOf(d) : n \in DOMAIN g => g[n] = f[n]
             /\ (n \notin Builtins /\ ejob.extra[n] # Unset) => f[n] = ejob.extra[n]
  <2>1. n \in Names
    BY FilesIn DEF RenderingInv
  <2>2. OwnText(c, f)
    BY DEF RenderingInv, FilesOwn
  <2>3. QED
    BY <2>1, <2>2 DEF OwnText, RenderingInv, OneHdr
<1>2. QED
  BY <1>1 DEF ScriptsAgree

LEMMA RenderingInitially == RenderingInit => RenderingInv
<1> SUFFICES ASSUME RenderingInit PROVE RenderingInv
  OBVIOUS
<1>1. /\ etask = [c \in 1..Chunks |-> NoRow] /\ disk = [c \in 1..Chunks |-> NoFiles]
      /\ gen = IdleGen
  BY DEF RenderingInit
<1>2. NoRow \in RowStates /\ ~NoRow.row /\ ~NoRow.dir
  BY DEF NoRow, RowStates
<1>3. \A c \in 1..Chunks : etask[c] = NoRow /\ disk[c] = NoFiles /\ FilesOf(c) = {}
  BY <1>1, IdleTypes DEF FilesOf
<1>4. RenderingTyped
  <2>1. ejob \in JobStates
    BY DEF RenderingInit, JobStates
  <2>2. renderAux \in EditCounts
    BY RenderingAssumption DEF RenderingInit, EditCounts
  <2>3. /\ global \in [Names -> Values \cup {Unset}] /\ hdr \in HdrValues
        /\ template \in [Templates -> Contents \cup {Unset}]
    BY DEF RenderingInit, Contents
  <2>4. QED
    BY <1>1, <1>2, <1>3, <2>1, <2>2, <2>3, IdleTypes DEF RenderingTyped
<1>5. gen.pc = "idle"
  BY <1>1, IdleTypes
<1>6. AtWork
  <2>1. ejob.status = "none"
    BY DEF RenderingInit
  <2>2. QED
    BY <1>2, <1>3, <1>5, <2>1 DEF AtWork, Rendering, Begun
<1>7. DirsComplete
  BY <1>2, <1>3, IdleTypes DEF DirsComplete
<1>8. FilesOwn /\ OneHdr /\ HdrRead /\ DataRead
  BY <1>3, <1>5 DEF FilesOwn, OneHdr, HdrRead, DataRead, Begun
<1>9. QED
  BY <1>4, <1>6, <1>7, <1>8, RenderingTypes DEF RenderingInv

\* What the files hold is fixed with them.
LEMMA FilesKept ==
  ASSUME RenderingInv, UNCHANGED disk, ejob'.extra = ejob.extra
  PROVE  (\A c : FilesOf(c)' = FilesOf(c)) /\ FilesOwn' /\ OneHdr'
<1>1. \A c : FilesOf(c)' = FilesOf(c)
  BY DEF FilesOf
<1>2. FilesOwn'
  BY <1>1 DEF RenderingInv, FilesOwn, OwnText
<1>3. OneHdr'
  BY <1>1 DEF RenderingInv, OneHdr
<1>4. QED
  BY <1>1, <1>2, <1>3

\* Edits of what is rendered, while the job, its rows and its files stay.
LEMMA OnlyEdited ==
  ASSUME RenderingInv, RenderingTypeOK', UNCHANGED <<ejob, etask, disk, gen>>,
         renderAux'.cut = renderAux.cut
  PROVE  RenderingInv'
<1>1. AtWork'
  BY DEF RenderingInv, AtWork, Rendering, Begun
<1>2. DirsComplete'
  BY DEF RenderingInv, DirsComplete
<1>3. (\A c : FilesOf(c)' = FilesOf(c)) /\ FilesOwn' /\ OneHdr'
  BY FilesKept
<1>4. HdrRead'
  BY <1>3 DEF RenderingInv, HdrRead, Begun
<1>5. DataRead'
  BY DEF RenderingInv, DataRead, OwnText
<1>6. QED
  BY <1>1, <1>2, <1>3, <1>4, <1>5 DEF RenderingInv

LEMMA InputsEdited ==
  ASSUME RenderingInv,
         UpsertVariable \/ DeleteVariable \/ WriteTemplate \/ DeleteTemplate \/ ChangeHDR
  PROVE  RenderingInv'
<1>1. RenderingTyped
  BY RenderingTypes DEF RenderingInv
<1>2. UNCHANGED <<ejob, etask, disk, gen>>
  BY DEF UpsertVariable, DeleteVariable, WriteTemplate, DeleteTemplate, ChangeHDR
<1>3. renderAux' \in EditCounts /\ renderAux'.cut = renderAux.cut
  <2>1. /\ renderAux.edits < MaxRenderEdits
        /\ renderAux' = [renderAux EXCEPT !.edits = @ + 1]
    BY DEF UpsertVariable, DeleteVariable, WriteTemplate, DeleteTemplate, ChangeHDR, Edit
  <2>2. PICK e \in 0..MaxRenderEdits : e = renderAux.edits
    BY <1>1 DEF RenderingTyped, EditCounts
  <2>3. e + 1 \in 0..MaxRenderEdits /\ renderAux' = [renderAux EXCEPT !.edits = e + 1]
    BY <2>1, <2>2, RenderingAssumption
  <2>4. QED
    BY <1>1, <2>3 DEF RenderingTyped, EditCounts
<1>4. /\ global' \in [Names -> Values \cup {Unset}]
      /\ template' \in [Templates -> Contents \cup {Unset}]
      /\ hdr' \in HdrValues
  BY <1>1 DEF RenderingTyped, UpsertVariable, DeleteVariable, WriteTemplate, DeleteTemplate,
             ChangeHDR
<1>5. RenderingTyped'
  BY <1>1, <1>2, <1>3, <1>4 DEF RenderingTyped
<1>6. RenderingTypeOK'
  BY <1>5 DEF RenderingTypeOK, RenderingTyped, FileStates, RowStates, GenStates, JobStates,
             EditCounts
<1>7. QED
  BY <1>2, <1>3, <1>6, OnlyEdited

LEMMA TypesKept == RenderingTyped' <=> RenderingTypeOK'
  BY DEF RenderingTypeOK, RenderingTyped, FileStates, RowStates, GenStates, JobStates, EditCounts

LEMMA EncodeJobCreated == RenderingInv /\ CreateEncodeJob => RenderingInv'
<1> SUFFICES ASSUME RenderingInv, CreateEncodeJob PROVE RenderingInv'
  OBVIOUS
<1>1. RenderingTyped
  BY RenderingTypes DEF RenderingInv
<1>2. /\ ejob.status = "none"
      /\ UNCHANGED <<global, template, hdr, etask, disk, gen, renderAux>>
  BY DEF CreateEncodeJob
<1>3. ejob' \in JobStates /\ ejob'.status = "queued" /\ ejob'.run \in Templates
  BY DEF CreateEncodeJob, JobStates
<1>4. gen.pc = "idle" /\ \A c \in 1..Chunks : ~etask[c].row /\ ~etask[c].dir
  BY <1>1, <1>2 DEF RenderingInv, AtWork, RenderingTyped
<1>5. \A c \in 1..Chunks : FilesOf(c) = {}
  BY <1>4, RenderingAssumption DEF RenderingInv, HdrRead
<1>6. RenderingTypeOK'
  BY <1>1, <1>2, <1>3, TypesKept DEF RenderingTyped
<1>7. AtWork'
  BY <1>2, <1>3, <1>4 DEF AtWork, Rendering, Begun
<1>8. DirsComplete'
  BY <1>2, <1>4 DEF RenderingInv, DirsComplete
<1>9. \A c \in 1..Chunks : FilesOf(c)' = {}
  BY <1>2, <1>5 DEF FilesOf
<1>10. (FilesOwn /\ OneHdr /\ HdrRead /\ DataRead)'
  BY <1>2, <1>4, <1>9 DEF FilesOwn, OneHdr, HdrRead, DataRead, Begun
<1>11. QED
  BY <1>6, <1>7, <1>8, <1>10 DEF RenderingInv

LEMMA ExpansionStarted == RenderingInv /\ StartExpansion => RenderingInv'
<1> SUFFICES ASSUME RenderingInv, StartExpansion PROVE RenderingInv'
  OBVIOUS
<1>1. RenderingTyped
  BY RenderingTypes DEF RenderingInv
<1>2. /\ gen.pc = "idle" /\ ejob.status = "queued"
      /\ UNCHANGED <<global, template, hdr, ejob, etask, disk, renderAux>>
  BY DEF StartExpansion
<1>3. /\ gen' \in GenStates /\ gen'.pc = "task" /\ gen'.chunk = 1
  <2>1. gen' = [IdleGen EXCEPT !.pc = "task", !.chunk = 1, !.hdr = hdr]
    BY DEF StartExpansion
  <2>2. hdr \in HdrValues /\ 1 \in 0..Chunks
    BY <1>1, RenderingAssumption DEF RenderingTyped
  <2>3. QED
    BY <2>1, <2>2, IdleTypes DEF GenStates
<1>4. ~Begun' /\ ~Rendering'
  BY <1>3 DEF Begun, Rendering
<1>5. RenderingTypeOK'
  BY <1>1, <1>2, <1>3, TypesKept DEF RenderingTyped
<1>6. AtWork'
  BY <1>2, <1>3, <1>4, RenderingAssumption DEF RenderingInv, AtWork
<1>7. DirsComplete'
  BY <1>2 DEF RenderingInv, DirsComplete
<1>8. (\A c : FilesOf(c)' = FilesOf(c)) /\ FilesOwn' /\ OneHdr'
  BY <1>2, FilesKept
<1>9. HdrRead'
  BY <1>2, <1>4, <1>8 DEF RenderingInv, HdrRead
<1>10. DataRead'
  BY <1>3 DEF DataRead
<1>11. QED
  BY <1>5, <1>6, <1>7, <1>8, <1>9, <1>10 DEF RenderingInv

\* The engine leaves off, with the chunk at work cleaned or, in a crash, as it is.
LEMMA WorkEnds ==
  ASSUME RenderingInv, gen.pc # "idle", gen' = IdleGen,
         UNCHANGED <<global, template, hdr, etask>>,
         ejob' \in JobStates, ejob'.run = ejob.run, ejob'.fs = ejob.fs, ejob'.extra = ejob.extra,
         ejob'.status # "none",
         renderAux' \in EditCounts, renderAux.cut \subseteq renderAux'.cut,
         \/ disk' = disk
         \/ disk' = [disk EXCEPT ![gen.chunk] = NoFiles] /\ Rendering,
         \/ gen.pc \notin {"fs", "dir"} \/ gen.chunk \in renderAux'.cut
         \/ ~disk'[gen.chunk].dir
  PROVE  RenderingInv'
<1>1. RenderingTyped /\ gen.chunk \in 1..Chunks
  BY RenderingTypes DEF RenderingInv, AtWork
<1>2. gen' \in GenStates /\ gen'.pc = "idle" /\ ~Begun' /\ ~Rendering'
  BY IdleTypes DEF Begun, Rendering
<1>3. /\ disk' \in [1..Chunks -> FileStates]
      /\ \A c \in 1..Chunks :
           \/ disk'[c] = disk[c]
           \/ disk'[c] = NoFiles /\ c = gen.chunk /\ ~etask[c].dir
  <2>1. disk \in [1..Chunks -> FileStates]
    BY <1>1 DEF RenderingTyped
  <2>2. CASE disk' = disk
    BY <2>1, <2>2
  <2>3. CASE disk' = [disk EXCEPT ![gen.chunk] = NoFiles] /\ Rendering
    <3>1. ~etask[gen.chunk].dir
      BY <2>3 DEF RenderingInv, AtWork
    <3>2. QED
      BY <1>1, <2>1, <2>3, <3>1, IdleTypes
  <2>4. QED
    BY <2>2, <2>3
<1>4. \A c \in 1..Chunks : FilesOf(c)' \subseteq FilesOf(c)
  BY <1>3, IdleTypes DEF FilesOf
<1>5. RenderingTypeOK'
  BY <1>1, <1>2, <1>3, TypesKept DEF RenderingTyped
<1>6. AtWork'
  <2>1. ejob.run \in Templates
    BY DEF RenderingInv, AtWork
  <2>2. QED
    BY <1>2, <2>1 DEF AtWork
<1>7. DirsComplete'
  <2>1. ASSUME NEW c \in 1..Chunks
        PROVE  /\ etask[c].dir => /\ disk'[c].run # <<>>
                                  /\ ejob.fs # NoTemplate => disk'[c].fs # <<>>
               /\ disk'[c].dir => etask[c].dir \/ c \in renderAux'.cut
    <3>1. CASE disk'[c] = disk[c]
      BY <3>1 DEF RenderingInv, DirsComplete
    <3>2. CASE disk'[c] = NoFiles /\ ~etask[c].dir
      BY <3>2, IdleTypes
    <3>3. QED
      BY <1>3, <3>1, <3>2
  <2>2. QED
    BY <2>1 DEF DirsComplete
<1>8. FilesOwn' /\ OneHdr'
  BY <1>4 DEF RenderingInv, FilesOwn, OneHdr, OwnText
<1>9. HdrRead'
  BY <1>2, <1>4 DEF RenderingInv, HdrRead
<1>10. DataRead'
  BY <1>2 DEF DataRead
<1>11. QED
  BY <1>5, <1>6, <1>7, <1>8, <1>9, <1>10 DEF RenderingInv

LEMMA JobFailed ==
  ASSUME RenderingInv, FailJob
  PROVE  /\ gen' = IdleGen /\ ejob' \in JobStates /\ ejob'.run = ejob.run
         /\ ejob'.fs = ejob.fs /\ ejob'.extra = ejob.extra /\ ejob'.status # "none"
<1>1. ejob \in JobStates
  BY RenderingTypes DEF RenderingInv, RenderingTyped
<1>2. QED
  BY <1>1 DEF FailJob, JobStates

LEMMA CrashCuts == RenderingInv /\ ControllerCrash => RenderingInv'
<1> SUFFICES ASSUME RenderingInv, ControllerCrash PROVE RenderingInv'
  OBVIOUS
<1>1. RenderingTyped
  BY RenderingTypes DEF RenderingInv
<1>2. /\ gen.pc # "idle" /\ renderAux.crashes < MaxRenderCrashes /\ gen' = IdleGen
      /\ renderAux' = [renderAux EXCEPT !.crashes = @ + 1, !.cut = @ \cup {gen.chunk}]
      /\ UNCHANGED <<global, template, hdr, ejob, etask, disk>>
  BY DEF ControllerCrash
<1>3. gen.chunk \in 1..Chunks /\ ejob.status # "none" /\ ejob \in JobStates
  BY <1>1, <1>2 DEF RenderingInv, AtWork, RenderingTyped
<1>4. PICK e \in 0..MaxRenderCrashes : e = renderAux.crashes
  BY <1>1 DEF RenderingTyped, EditCounts
<1>5. PICK cut \in SUBSET (1..Chunks) : cut = renderAux.cut \cup {gen.chunk}
  BY <1>1, <1>3 DEF RenderingTyped, EditCounts
<1>6. e + 1 \in 0..MaxRenderCrashes
  BY <1>2, <1>4, RenderingAssumption
<1>7. renderAux' = [renderAux EXCEPT !.crashes = e + 1, !.cut = cut]
  BY <1>2, <1>4, <1>5
<1>8. renderAux' \in EditCounts /\ renderAux'.cut = cut
  BY <1>1, <1>6, <1>7 DEF RenderingTyped, EditCounts
<1>9. QED
  BY <1>2, <1>3, <1>5, <1>8, WorkEnds

LEMMA TaskCreated == RenderingInv /\ CreateTask => RenderingInv'
<1> SUFFICES ASSUME RenderingInv, CreateTask PROVE RenderingInv'
  OBVIOUS
<1>1. RenderingTyped
  BY RenderingTypes DEF RenderingInv
<1>2. gen.pc = "task" /\ UNCHANGED <<global, template, hdr, disk, renderAux>>
  BY DEF CreateTask
<1>3. PICK k \in 1..Chunks : k = gen.chunk
  BY <1>2 DEF RenderingInv, AtWork
<1>4. CASE etask[k].row
  <2>1. FailJob /\ UNCHANGED etask
    BY <1>3, <1>4 DEF CreateTask
  <2>2. renderAux \in EditCounts
    BY <1>1 DEF RenderingTyped
  <2>3. QED
    BY <1>2, <2>1, <2>2, JobFailed, WorkEnds
<1>5. CASE ~etask[k].row
  <2>1. /\ etask' = [etask EXCEPT ![k].row = TRUE]
        /\ gen' = [gen EXCEPT !.pc = "variables"] /\ UNCHANGED ejob
    BY <1>3, <1>5 DEF CreateTask
  <2>2. ejob.status = "queued"
    BY <1>2 DEF RenderingInv, AtWork
  <2>3. /\ gen' \in GenStates /\ gen'.pc = "variables" /\ gen'.chunk = k
        /\ gen'.hdr = gen.hdr
    BY <1>1, <1>3, <2>1 DEF RenderingTyped, GenStates
  <2>4. ~etask[k].dir /\ etask[k] \in RowStates
    BY <1>1, <1>5 DEF RenderingTyped
  <2>5. /\ etask' \in [1..Chunks -> RowStates]
        /\ etask'[k].row /\ \A c \in 1..Chunks : c # k => etask'[c] = etask[c]
        /\ \A c \in 1..Chunks : etask'[c].dir = etask[c].dir
        /\ \A c \in 1..Chunks : etask[c].row => etask'[c].row
    <3>1. PICK r : r = [etask[k] EXCEPT !.row = TRUE]
      OBVIOUS
    <3>2. r \in RowStates /\ r.row = TRUE /\ r.dir = etask[k].dir
      BY <2>4, <3>1 DEF RowStates
    <3>3. etask' = [etask EXCEPT ![k] = r] /\ etask \in [1..Chunks -> RowStates]
      BY <1>1, <2>1, <3>1 DEF RenderingTyped
    <3>4. QED
      BY <3>2, <3>3
  <2>6. Begun' /\ Rendering'
    BY <2>3 DEF Begun, Rendering
  <2>7. k = 1 \/ Begun
    BY <1>2, <1>3 DEF Begun
  <2>8. etask'[1].row /\ 1 \in 1..Chunks
    BY <2>5, <2>7, RenderingAssumption DEF RenderingInv, AtWork
  <2>9. RenderingTypeOK'
    <3>1. \A c \in 1..Chunks : etask'[c].dir => etask'[c].row
      BY <1>1, <2>5 DEF RenderingTyped
    <3>2. QED
      BY <1>1, <1>2, <2>1, <2>3, <2>5, <3>1, TypesKept DEF RenderingTyped
  <2>10. AtWork'
    <3>1. ejob.run \in Templates
      BY <2>2 DEF RenderingInv, AtWork
    <3>2. QED
      BY <2>1, <2>2, <2>3, <2>4, <2>5, <2>8, <3>1 DEF AtWork
  <2>11. DirsComplete'
    BY <1>2, <2>1, <2>5 DEF RenderingInv, DirsComplete
  <2>12. (\A c : FilesOf(c)' = FilesOf(c)) /\ FilesOwn' /\ OneHdr'
    BY <1>2, <2>1, FilesKept
  <2>13. HdrRead'
    BY <1>5, <2>3, <2>7, <2>8, <2>12 DEF RenderingInv, HdrRead
  <2>14. DataRead'
    BY <2>3 DEF DataRead
  <2>15. QED
    BY <2>9, <2>10, <2>11, <2>12, <2>13, <2>14 DEF RenderingInv
<1>6. QED
  BY <1>4, <1>5

LEMMA VariablesLoaded == RenderingInv /\ LoadVariables => RenderingInv'
<1> SUFFICES ASSUME RenderingInv, LoadVariables PROVE RenderingInv'
  OBVIOUS
<1>1. RenderingTyped
  BY RenderingTypes DEF RenderingInv
<1>2. gen.pc = "variables" /\ UNCHANGED <<global, template, hdr, ejob, etask, disk, renderAux>>
  BY DEF LoadVariables
<1>3. PICK k \in 1..Chunks : k = gen.chunk
  BY <1>2 DEF RenderingInv, AtWork
<1>4. PICK data : data = [n \in Names |-> DataOf(n)]
  OBVIOUS
<1>5. gen' = [gen EXCEPT !.pc = "run", !.data = data]
  BY <1>4 DEF LoadVariables
<1>6. /\ gen \in GenStates /\ gen.hdr \in Texts
      /\ \A n \in Names : global[n] \in Texts /\ ejob.extra[n] \in Texts
      /\ ValueOfChunk[k] \in Texts
  BY <1>1, <1>3 DEF RenderingTyped, GenStates, JobStates, Texts
<1>7. /\ DataOf("CHUNK_INDEX") = ValueOfChunk[k] /\ DataOf("HDR_TYPE") = gen.hdr
      /\ \A n \in Names \ Builtins : DataOf(n) = IF ejob.extra[n] # Unset THEN ejob.extra[n]
                                                                      ELSE global[n]
  <2>1. "CHUNK_INDEX" \in Builtins /\ "HDR_TYPE" \in Builtins
    BY DEF Builtins
  <2>2. DataOf("CHUNK_INDEX") = ValueOfChunk[k]
    <3>1. BuiltIn("CHUNK_INDEX") = ValueOfChunk[gen.chunk]
      BY DEF BuiltIn
    <3>2. QED
      BY <1>3, <2>1, <3>1 DEF DataOf
  <2>3. DataOf("HDR_TYPE") = gen.hdr
    <3>1. BuiltIn("HDR_TYPE") = gen.hdr
      BY DEF BuiltIn, HdrOf
    <3>2. QED
      BY <2>1, <3>1 DEF DataOf
  <2>4. \A n \in Names \ Builtins : DataOf(n) = IF ejob.extra[n] # Unset THEN ejob.extra[n]
                                                                      ELSE global[n]
    BY DEF DataOf
  <2>5. QED
    BY <2>2, <2>3, <2>4
<1>8. /\ data["CHUNK_INDEX"] = ValueOfChunk[k] /\ data["HDR_TYPE"] = gen.hdr
      /\ \A n \in Names \ Builtins : data[n] = IF ejob.extra[n] # Unset THEN ejob.extra[n]
                                                                   ELSE global[n]
  BY <1>4, <1>7, NotEmpty
<1>9. data \in [Names -> Texts]
  <2>1. \A n \in Names : n \in Names \ Builtins \/ n = "CHUNK_INDEX" \/ n = "HDR_TYPE"
    BY DEF Builtins
  <2>2. \A n \in Names : data[n] \in Texts
    BY <1>6, <1>8, <2>1
  <2>3. QED
    BY <1>4, <2>2
<1>10. /\ gen' \in GenStates /\ gen'.pc = "run" /\ gen'.chunk = k /\ gen'.hdr = gen.hdr
       /\ gen'.data = data
  BY <1>3, <1>5, <1>6, <1>9 DEF GenStates
<1>11. Begun /\ Begun' /\ Rendering /\ Rendering'
  BY <1>2, <1>10 DEF Begun, Rendering
<1>12. RenderingTypeOK'
  BY <1>1, <1>2, <1>10, TypesKept DEF RenderingTyped
<1>13. AtWork'
  BY <1>2, <1>3, <1>10, <1>11 DEF RenderingInv, AtWork
<1>14. DirsComplete'
  BY <1>2 DEF RenderingInv, DirsComplete
<1>15. (\A c : FilesOf(c)' = FilesOf(c)) /\ FilesOwn' /\ OneHdr'
  BY <1>2, FilesKept
<1>16. HdrRead'
  BY <1>2, <1>10, <1>11, <1>15 DEF RenderingInv, HdrRead
<1>17. DataRead'
  BY <1>2, <1>8, <1>10 DEF DataRead, OwnText
<1>18. QED
  BY <1>12, <1>13, <1>14, <1>15, <1>16, <1>17 DEF RenderingInv

\* A template that renders uses every name.
LEMMA RenderedData ==
  ASSUME RenderingTypeOK, NEW t \in Templates, Renders(t)
  PROVE  Rendered(t) = gen.data
<1>1. template[t] = Names /\ gen.data \in [Names -> Texts]
  BY RenderingTypes DEF RenderingTyped, Renders, Contents, GenStates
<1>2. QED
  BY <1>1 DEF Rendered

\* A file of the chunk at work is written.
LEMMA FileRendered ==
  ASSUME RenderingInv, gen.pc \in {"run", "fs"}, NEW d \in FileStates, d.run # <<>>,
         disk' = [disk EXCEPT ![gen.chunk] = d],
         {d.run, d.fs} \ {<<>>} \subseteq FilesOf(gen.chunk) \cup {gen.data},
         NEW p \in {"fs", "dir"}, gen' = [gen EXCEPT !.pc = p],
         p = "dir" /\ ejob.fs # NoTemplate => d.fs # <<>>, p = "fs" => ejob.fs # NoTemplate,
         UNCHANGED <<global, template, hdr, ejob, etask, renderAux>>
  PROVE  RenderingInv'
<1>1. RenderingTyped
  BY RenderingTypes DEF RenderingInv
<1>2. PICK k \in 1..Chunks : k = gen.chunk
  BY DEF RenderingInv, AtWork
<1>3. /\ gen' \in GenStates /\ gen'.pc = p /\ gen'.chunk = k /\ gen'.hdr = gen.hdr
      /\ gen'.data = gen.data
  BY <1>1, <1>2 DEF RenderingTyped, GenStates
<1>4. Begun /\ Begun' /\ Rendering /\ Rendering'
  BY <1>3 DEF Begun, Rendering
<1>5. /\ disk' \in [1..Chunks -> FileStates] /\ disk'[k] = d
      /\ \A c \in 1..Chunks : c # k => disk'[c] = disk[c]
  BY <1>1, <1>2 DEF RenderingTyped
<1>6. ~etask[k].dir /\ etask[1].row
  BY <1>2, <1>4 DEF RenderingInv, AtWork
<1>7. RenderingTypeOK'
  BY <1>1, <1>3, <1>5, TypesKept DEF RenderingTyped
<1>8. AtWork'
  BY <1>2, <1>3, <1>4, <1>5, <1>6 DEF RenderingInv, AtWork
<1>9. DirsComplete'
  <2>1. ASSUME NEW c \in 1..Chunks
        PROVE  /\ etask[c].dir => /\ disk'[c].run # <<>>
                                  /\ ejob.fs # NoTemplate => disk'[c].fs # <<>>
               /\ disk'[c].dir => \/ etask[c].dir \/ c = k \/ c \in renderAux.cut
    BY <1>2, <1>5, <1>6 DEF RenderingInv, DirsComplete
  <2>2. QED
    BY <1>3, <2>1 DEF DirsComplete
<1>10. \A c \in 1..Chunks : FilesOf(c)' \subseteq FilesOf(c) \cup
                                               (IF c = k THEN {gen.data} ELSE {})
  BY <1>2, <1>5 DEF FilesOf
<1>11. OwnText(k, gen.data) /\ gen.data["HDR_TYPE"] = gen.hdr
  <2>1. CASE gen.pc = "run"
    BY <1>2, <2>1 DEF RenderingInv, DataRead
  <2>2. CASE gen.pc = "fs"
    BY <1>2, <2>2 DEF RenderingInv, DataRead
  <2>3. QED
    BY <2>1, <2>2
<1>12. \A c \in 1..Chunks : \A f \in FilesOf(c)' : OwnText(c, f) /\ f["HDR_TYPE"] = gen.hdr
  BY <1>4, <1>10, <1>11 DEF RenderingInv, FilesOwn, HdrRead
<1>13. FilesOwn' /\ OneHdr'
  BY <1>12 DEF FilesOwn, OneHdr, OwnText
<1>14. HdrRead'
  BY <1>3, <1>6, <1>12 DEF HdrRead
<1>15. DataRead'
  BY <1>3, <1>11 DEF DataRead, OwnText
<1>16. QED
  BY <1>7, <1>8, <1>9, <1>13, <1>14, <1>15 DEF RenderingInv

LEMMA RunRendered == RenderingInv /\ RenderRun => RenderingInv'
<1> SUFFICES ASSUME RenderingInv, RenderRun PROVE RenderingInv'
  OBVIOUS
<1>1. RenderingTyped /\ RenderingTypeOK
  BY RenderingTypes DEF RenderingInv
<1>2. gen.pc = "run" /\ UNCHANGED <<global, template, hdr, etask, renderAux>>
  BY DEF RenderRun
<1>3. PICK k \in 1..Chunks : k = gen.chunk
  BY <1>2 DEF RenderingInv, AtWork
<1>4. CASE Renders(ejob.run)
  <2>1. PICK d : d = [NoFiles EXCEPT !.dir = TRUE, !.run = gen.data]
    OBVIOUS
  <2>2. PICK p \in {"fs", "dir"} : p = IF ejob.fs = NoTemplate THEN "dir" ELSE "fs"
    OBVIOUS
  <2>3. gen.data \in [Names -> Texts]
    BY <1>1 DEF RenderingTyped, GenStates
  <2>4. d \in FileStates /\ d.dir /\ d.run = gen.data /\ d.fs = <<>> /\ d.run # <<>>
    BY <2>1, <2>3, NotEmpty, IdleTypes DEF FileStates
  <2>5. ejob.run \in Templates
    <3>1. ejob.status # "none"
      BY <1>2 DEF RenderingInv, AtWork
    <3>2. QED
      BY <3>1 DEF RenderingInv, AtWork
  <2>6. Rendered(ejob.run) = gen.data
    BY <1>1, <1>4, <2>5, RenderedData
  <2>7. /\ disk' = [disk EXCEPT ![gen.chunk] = d] /\ gen' = [gen EXCEPT !.pc = p]
        /\ UNCHANGED ejob
    BY <1>4, <2>1, <2>2, <2>6 DEF RenderRun
  <2>8. {d.run, d.fs} \ {<<>>} \subseteq FilesOf(gen.chunk) \cup {gen.data}
    BY <2>4
  <2>9. (p = "dir" /\ ejob.fs # NoTemplate => d.fs # <<>>) /\ (p = "fs" => ejob.fs # NoTemplate)
    BY <2>2
  <2>10. QED
    BY <1>2, <2>4, <2>7, <2>8, <2>9, FileRendered
<1>5. CASE ~Renders(ejob.run)
  <2>1. disk' = [disk EXCEPT ![gen.chunk] = NoFiles] /\ FailJob
    BY <1>5 DEF RenderRun, Cleaned
  <2>2. Rendering /\ renderAux \in EditCounts
    BY <1>1, <1>2 DEF Rendering, RenderingTyped
  <2>3. QED
    BY <1>2, <2>1, <2>2, JobFailed, WorkEnds
<1>6. QED
  BY <1>4, <1>5

LEMMA FrameserverRendered == RenderingInv /\ RenderFrameserver => RenderingInv'
<1> SUFFICES ASSUME RenderingInv, RenderFrameserver PROVE RenderingInv'
  OBVIOUS
<1>1. RenderingTyped /\ RenderingTypeOK
  BY RenderingTypes DEF RenderingInv
<1>2. gen.pc = "fs" /\ UNCHANGED <<global, template, hdr, etask, renderAux>>
  BY DEF RenderFrameserver
<1>3. PICK k \in 1..Chunks : k = gen.chunk
  BY <1>2 DEF RenderingInv, AtWork
<1>4. CASE Renders(ejob.fs)
  <2>1. PICK d : d = [disk[k] EXCEPT !.fs = gen.data]
    OBVIOUS
  <2>2. gen.data \in [Names -> Texts] /\ disk[k] \in FileStates /\ disk[k].run # <<>>
    BY <1>1, <1>2, <1>3 DEF RenderingTyped, GenStates, RenderingInv, AtWork
  <2>3. /\ d \in FileStates /\ d.dir = disk[k].dir /\ d.run = disk[k].run /\ d.fs = gen.data
        /\ d.run # <<>> /\ d.fs # <<>>
    BY <2>1, <2>2, NotEmpty DEF FileStates
  <2>4. PICK p \in {"fs", "dir"} : p = "dir"
    OBVIOUS
  <2>5. ejob.fs \in Templates
    BY <1>1, <1>2 DEF RenderingTyped, JobStates, RenderingInv, AtWork
  <2>6. Rendered(ejob.fs) = gen.data
    BY <1>1, <1>4, <2>5, RenderedData
  <2>7. /\ disk' = [disk EXCEPT ![gen.chunk] = d] /\ gen' = [gen EXCEPT !.pc = p]
        /\ UNCHANGED ejob
    BY <1>3, <1>4, <2>1, <2>4, <2>6 DEF RenderFrameserver
  <2>8. {d.run, d.fs} \ {<<>>} \subseteq FilesOf(gen.chunk) \cup {gen.data}
    BY <1>3, <2>3 DEF FilesOf
  <2>9. QED
    BY <1>2, <2>3, <2>4, <2>7, <2>8, FileRendered
<1>5. CASE ~Renders(ejob.fs)
  <2>1. disk' = [disk EXCEPT ![gen.chunk] = NoFiles] /\ FailJob
    BY <1>5 DEF RenderFrameserver, Cleaned
  <2>2. Rendering /\ renderAux \in EditCounts
    BY <1>1, <1>2 DEF Rendering, RenderingTyped
  <2>3. ~disk'[gen.chunk].dir
    BY <1>1, <1>3, <2>1, IdleTypes DEF RenderingTyped
  <2>4. QED
    BY <1>2, <2>1, <2>2, <2>3, JobFailed, WorkEnds
<1>6. QED
  BY <1>4, <1>5

LEMMA ScriptDirSet == RenderingInv /\ SetTaskScriptDir => RenderingInv'
<1> SUFFICES ASSUME RenderingInv, SetTaskScriptDir PROVE RenderingInv'
  OBVIOUS
<1>1. RenderingTyped
  BY RenderingTypes DEF RenderingInv
<1>2. gen.pc = "dir" /\ UNCHANGED <<global, template, hdr, ejob, disk, renderAux>>
  BY DEF SetTaskScriptDir
<1>3. PICK k \in 1..Chunks : k = gen.chunk
  BY <1>2 DEF RenderingInv, AtWork
<1>4. etask[k].row /\ Begun /\ etask[1].row /\ ejob.status = "queued"
  BY <1>2, <1>3 DEF RenderingInv, AtWork, Rendering, Begun
<1>5. /\ etask' \in [1..Chunks -> RowStates]
      /\ \A c \in 1..Chunks : c # k => etask'[c] = etask[c]
      /\ etask'[k].dir
      /\ \A c \in 1..Chunks : etask'[c].row = etask[c].row
  <2>1. etask \in [1..Chunks -> RowStates] /\ etask[k] \in RowStates
    BY <1>1 DEF RenderingTyped
  <2>2. PICK r : r = [etask[k] EXCEPT !.dir = TRUE]
    OBVIOUS
  <2>3. r \in RowStates /\ r.row = etask[k].row /\ r.dir = TRUE
    BY <2>1, <2>2 DEF RowStates
  <2>4. etask' = [etask EXCEPT ![k] = r]
    BY <1>3, <2>2 DEF SetTaskScriptDir
  <2>5. QED
    BY <2>1, <2>3, <2>4
<1>6. /\ gen' \in GenStates /\ ~Rendering'
      /\ gen'.pc # "idle" =>
           gen'.pc = "task" /\ gen'.chunk \in 1..Chunks /\ gen'.hdr = gen.hdr
  <2>1. CASE gen.chunk < Chunks
    <3>1. PICK n \in 1..Chunks : n = k + 1
      BY <1>3, <2>1, RenderingAssumption
    <3>2. gen' = [gen EXCEPT !.pc = "task", !.chunk = n]
      BY <1>3, <2>1, <3>1 DEF SetTaskScriptDir
    <3>3. gen \in GenStates /\ n \in 0..Chunks
      BY <1>1, <3>1 DEF RenderingTyped
    <3>4. gen' \in GenStates /\ gen'.pc = "task" /\ gen'.chunk = n /\ gen'.hdr = gen.hdr
      BY <3>2, <3>3 DEF GenStates
    <3>5. QED
      BY <3>4 DEF Rendering
  <2>2. CASE ~(gen.chunk < Chunks)
    <3>1. gen' = IdleGen
      BY <2>2 DEF SetTaskScriptDir
    <3>2. QED
      BY <3>1, IdleTypes DEF Rendering
  <2>3. QED
    BY <2>1, <2>2
<1>7. RenderingTypeOK'
  <2>1. \A c \in 1..Chunks : etask'[c].dir => etask'[c].row
    BY <1>1, <1>4, <1>5 DEF RenderingTyped
  <2>2. QED
    BY <1>1, <1>2, <1>5, <1>6, <2>1, TypesKept DEF RenderingTyped
<1>8. AtWork'
  <2>1. ejob.run \in Templates /\ 1 \in 1..Chunks
    BY <1>4, RenderingAssumption DEF RenderingInv, AtWork
  <2>2. gen'.pc \notin {"fs", "dir"}
    BY <1>6
  <2>3. QED
    BY <1>2, <1>4, <1>5, <1>6, <2>1, <2>2 DEF AtWork
<1>9. DirsComplete'
  <2>1. /\ disk[k].run # <<>>
        /\ ejob.fs # NoTemplate => disk[k].fs # <<>>
    BY <1>2, <1>3 DEF RenderingInv, AtWork
  <2>2. ASSUME NEW c \in 1..Chunks
        PROVE  /\ etask'[c].dir => /\ disk[c].run # <<>>
                                   /\ ejob.fs # NoTemplate => disk[c].fs # <<>>
               /\ disk[c].dir => etask'[c].dir \/ c \in renderAux.cut
    <3>1. CASE c = k
      BY <1>5, <2>1, <3>1
    <3>2. CASE c # k
      BY <1>3, <1>5, <3>2 DEF RenderingInv, DirsComplete
    <3>3. QED
      BY <3>1, <3>2
  <2>3. QED
    BY <1>2, <2>2 DEF DirsComplete
<1>10. (\A c : FilesOf(c)' = FilesOf(c)) /\ FilesOwn' /\ OneHdr'
  BY <1>2, FilesKept
<1>11. HdrRead'
  <2>1. \A c \in 1..Chunks : \A f \in FilesOf(c) : f["HDR_TYPE"] = gen.hdr
    BY <1>4 DEF RenderingInv, HdrRead
  <2>2. etask'[1].row
    BY <1>4, <1>5, RenderingAssumption
  <2>3. QED
    BY <1>6, <1>10, <2>1, <2>2 DEF HdrRead, Begun
<1>12. DataRead'
  BY <1>6 DEF DataRead, Rendering
<1>13. QED
  BY <1>7, <1>8, <1>9, <1>10, <1>11, <1>12 DEF RenderingInv

LEMMA RenderingStep == RenderingInv /\ [RenderingNext]_renderVars => RenderingInv'
<1> SUFFICES ASSUME RenderingInv, [RenderingNext]_renderVars PROVE RenderingInv'
  OBVIOUS
<1>1. CASE UNCHANGED renderVars
  <2>1. RenderingTyped
    BY RenderingTypes DEF RenderingInv
  <2>2. RenderingTyped'
    BY <1>1, <2>1 DEF RenderingTyped, renderVars
  <2>3. QED
    BY <1>1, <2>2, TypesKept, OnlyEdited DEF renderVars
<1>2. CASE Operator
  BY <1>2, InputsEdited, EncodeJobCreated DEF Operator
<1>3. CASE EngineStep
  BY <1>3, ExpansionStarted, TaskCreated, VariablesLoaded, RunRendered, FrameserverRendered,
     ScriptDirSet DEF EngineStep
<1>4. QED
  BY <1>1, <1>2, <1>3, CrashCuts DEF RenderingNext

LEMMA RenderingInvAlways == RenderingSpec => []RenderingInv
  BY RenderingInitially, RenderingStep, PTL DEF RenderingSpec

\* A task that got its script directory finds every file in it, and a directory
\* nobody will use is left only by a crash: for any number of chunks, edits and
\* restarts, and whichever templates do not parse.
THEOREM DirsCompleteHolds == RenderingSpec => []DirsComplete
<1>1. RenderingInv => DirsComplete
  BY DEF RenderingInv
<1>2. QED
  BY <1>1, RenderingInvAlways, PTL

\* The files of all chunks agree on the source's HDR type, each is about its own
\* chunk, and the job's variables win over global ones, whatever operators change
\* while the job is expanded, and over a restart in the middle of it.
THEOREM ScriptsAgreeHolds == RenderingSpec => []ScriptsAgree
  BY InvScripts, RenderingInvAlways, PTL

--------------------------------------------------------------------------------
(* The four parts, side by side                                            *)

CatalogInv == SourcesInv /\ ListsTypeOK /\ MappingsInv /\ RenderingInv

\* The types of whichever part an instance runs.
THEOREM CatalogTypeCorrect == Spec => []CatalogTypeOK
<1>1. Init => CatalogInv
  BY SourcesInitially, ListsInitially, MappingsInitially, RenderingInitially
     DEF Init, CatalogInv
<1>2. CatalogInv /\ [Next]_vars => CatalogInv'
  <2> SUFFICES ASSUME CatalogInv, [Next]_vars PROVE CatalogInv'
    OBVIOUS
  <2>1. SourcesNext \/ UNCHANGED srcVars
    BY DEF Next, vars
  <2>2. ListsNext \/ UNCHANGED listVars
    BY DEF Next, vars
  <2>3. MappingsNext \/ UNCHANGED mapVars
    BY DEF Next, vars
  <2>4. RenderingNext \/ UNCHANGED renderVars
    BY DEF Next, vars
  <2>5. QED
    BY <2>1, <2>2, <2>3, <2>4, SourcesStep, ListsStep, MappingsStep, RenderingStep
       DEF CatalogInv
<1>3. CatalogInv => CatalogTypeOK
  BY DEF CatalogInv, CatalogTypeOK, SourcesInv, MappingsInv, RenderingInv
<1>4. QED
  BY <1>1, <1>2, <1>3, PTL DEF Spec

================================================================================
