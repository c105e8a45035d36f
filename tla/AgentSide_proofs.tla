---------------------------- MODULE AgentSide_proofs ----------------------------
(***************************************************************************)
(* Proofs about AgentUpgrade and TaskLogs.  For any set of versions and    *)
(* any number of publications and mishaps: the machine keeps a binary.     *)
(* For any number of lines, outputs, faults and page sizes: what happens   *)
(* to a line on its way to task_logs, and what a client reads there.       *)
(***************************************************************************)
EXTENDS MCAgentSide, Ordering_proofs

Offers == [version : Versions \cup {DefaultVersion}, binary : Versions \cup {NoFile}]
Files == [exe : Versions \cup {NoFile}, old : Versions \cup {NoFile},
          new : Versions \cup {NoFile}, tmp : Versions \cup {NoFile}]
Pcs == {"waiting", "download", "stage", "clear", "backup", "replace", "restart"}
AgentStates == [version : Versions \cup {Down}, pc : Pcs, busy : BOOLEAN, kind : Kinds]
Counts == [offers : 0..MaxOffers, mishaps : 0..MaxMishaps, hurt : BOOLEAN]

LEMMA TypeSplit ==
  UpgradeTypeOK <=> /\ offer \in Offers /\ file \in Files
                    /\ agent \in AgentStates /\ upAux \in Counts
  BY DEF UpgradeTypeOK, Offers, Files, Pcs, AgentStates, Counts

--------------------------------------------------------------------------------
(* How the pieces of a step change                                         *)

LEMMA GotoType ==
  ASSUME UpgradeTypeOK, NEW pc \in Pcs, Goto(pc)
  PROVE  /\ agent' \in AgentStates
         /\ agent'.pc = pc /\ agent'.version = agent.version /\ agent'.kind = agent.kind
  BY TypeSplit DEF Goto, AgentStates

LEMMA StartedType ==
  ASSUME UpgradeTypeOK, NEW v \in Versions \cup {Down}
  PROVE  /\ Started(v) \in AgentStates
         /\ Started(v).pc = "waiting" /\ Started(v).version = v
         /\ Started(v).kind = agent.kind
  BY TypeSplit DEF Started, AgentStates, Pcs

LEMMA ProcessType ==
  ASSUME UpgradeTypeOK
  PROVE  /\ Process \in Versions \cup {Down}
         /\ Process = Down => file.exe = NoFile
  BY TypeSplit, UpgradeAssumption DEF Process, Files

LEMMA MishapType ==
  ASSUME UpgradeTypeOK, NEW hurts \in BOOLEAN, MishapThat(hurts)
  PROVE  /\ upAux' \in Counts
         /\ upAux'.hurt <=> upAux.hurt \/ hurts
<1>1. upAux \in Counts
  BY TypeSplit
<1>2. upAux.mishaps + 1 \in 0..MaxMishaps
  BY <1>1, UpgradeAssumption DEF MishapThat, Counts
<1>3. PICK n \in 0..MaxMishaps, h \in BOOLEAN :
        upAux' = [upAux EXCEPT !.mishaps = n, !.hurt = h] /\ (h <=> upAux.hurt \/ hurts)
  BY <1>2 DEF MishapThat
<1>4. QED
  BY <1>1, <1>3 DEF Counts

LEMMA PlainMishapType ==
  ASSUME UpgradeTypeOK, Mishap
  PROVE  upAux' \in Counts /\ upAux'.hurt = upAux.hurt
  BY TypeSplit, UpgradeAssumption DEF Mishap, Counts

--------------------------------------------------------------------------------
(***************************************************************************)
(* BinaryKept is not inductive: that the second rename, or undoing the     *)
(* first, puts a file in the place of the executable depends on what the   *)
(* earlier steps have left on the disk.                                    *)
(***************************************************************************)

Staged ==
  /\ agent.pc = "download" => offer.binary # NoFile
  /\ agent.pc = "stage" => file.tmp # NoFile
  /\ agent.pc \in {"clear", "backup", "replace"} => file.new # NoFile
  /\ agent.pc = "replace" => file.old # NoFile

UpInv == UpgradeTypeOK /\ Staged /\ BinaryKept

LEMMA UpInit == UpgradeInit => UpInv
<1> SUFFICES ASSUME UpgradeInit PROVE UpInv
  OBVIOUS
<1>1. PICK v \in Versions, kind \in Kinds :
        /\ offer = [version |-> DefaultVersion, binary |-> NoFile]
        /\ file = [exe |-> v, old |-> NoFile, new |-> NoFile, tmp |-> NoFile]
        /\ agent = [version |-> v, pc |-> "waiting", busy |-> FALSE, kind |-> kind]
        /\ upAux = [offers |-> 0, mishaps |-> 0, hurt |-> FALSE]
  BY DEF UpgradeInit
<1>2. UpgradeTypeOK
  BY <1>1, TypeSplit, UpgradeAssumption DEF Offers, Files, AgentStates, Counts, Pcs
<1>3. Staged
  BY <1>1 DEF Staged
<1>4. BinaryKept
  BY <1>1, UpgradeAssumption DEF BinaryKept
<1>5. QED
  BY <1>2, <1>3, <1>4 DEF UpInv

LEMMA UpOffer == UpInv /\ (PublishBinary \/ ConfigureVersion) => UpInv'
<1> SUFFICES ASSUME UpInv, PublishBinary \/ ConfigureVersion PROVE UpInv'
  OBVIOUS
<1> USE TypeSplit, UpgradeAssumption DEF UpInv
<1>1. upAux' \in Counts /\ upAux'.hurt = upAux.hurt
  BY DEF PublishBinary, ConfigureVersion, Counts
<1>2. offer' \in Offers /\ (offer.binary # NoFile => offer'.binary # NoFile)
  BY DEF PublishBinary, ConfigureVersion, Offers
<1>3. UNCHANGED <<file, agent>>
  BY DEF PublishBinary, ConfigureVersion
<1>4. QED
  BY <1>1, <1>2, <1>3 DEF Staged, BinaryKept, UpgradeTypeOK, Offers, Counts, Files,
     AgentStates, Pcs

\* The steps until the executable is touched: only the download, .old and .new change.
LEMMA UpPrepare ==
  UpInv /\ (Check \/ Download \/ Stage \/ RemoveOld) => UpInv'
<1> SUFFICES ASSUME UpInv, Check \/ Download \/ Stage \/ RemoveOld PROVE UpInv'
  OBVIOUS
<1>1. UpgradeTypeOK /\ Staged /\ BinaryKept
  BY DEF UpInv
<1>0. offer \in Offers /\ file \in Files
  BY <1>1, TypeSplit
<1>2. PICK pc \in {"waiting", "download", "stage", "clear", "backup"} : Goto(pc)
  BY DEF Check, Download, Stage, RemoveOld
<1>3. /\ agent' \in AgentStates /\ agent'.pc = pc
      /\ agent'.version = agent.version /\ agent'.kind = agent.kind
  BY <1>1, <1>2, GotoType DEF Pcs
<1>4. upAux' \in Counts /\ upAux'.hurt = upAux.hurt
  BY <1>1, PlainMishapType, TypeSplit DEF Check, Download, Stage, RemoveOld
<1>5. offer' = offer
  BY DEF Check, Download, Stage, RemoveOld
<1>6. file' \in Files /\ file'.exe = file.exe
  <2>1. CASE Check
    BY <2>1, <1>0 DEF Check
  <2>2. CASE Download
    BY <2>2, <1>0 DEF Download, Files, Offers
  <2>3. CASE Stage
    BY <2>3, <1>0 DEF Stage, Files
  <2>4. CASE RemoveOld
    BY <2>4, <1>0 DEF RemoveOld, Files
  <2>5. QED
    BY <2>1, <2>2, <2>3, <2>4
<1>7. UpgradeTypeOK'
  BY <1>0, <1>3, <1>4, <1>5, <1>6, TypeSplit DEF UpgradeTypeOK, Offers, Counts, Files,
     AgentStates, Pcs
<1>8. agent.pc # "replace" /\ pc # "replace"
  BY <1>2 DEF Check, Download, Stage, RemoveOld, At
<1>9. Staged'
  <2>1. CASE Check
    BY <2>1, <1>1, <1>3, <1>8, GotoType DEF Check, Staged, Pcs, Goto, UpgradeTypeOK
  <2>2. CASE Download
    BY <2>2, <1>0, <1>1, <1>3, GotoType DEF Download, Staged, Pcs, At, Goto, Files, UpgradeTypeOK
  <2>3. CASE Stage
    BY <2>3, <1>0, <1>1, <1>3 DEF Stage, Staged, Pcs, At, Goto, Files, UpgradeTypeOK
  <2>4. CASE RemoveOld
    BY <2>4, <1>0, <1>1, <1>3 DEF RemoveOld, Staged, Pcs, At, Goto, Files, UpgradeTypeOK
  <2>5. QED
    BY <2>1, <2>2, <2>3, <2>4
<1>10. file'.exe # NoFile \/ file'.old # NoFile \/ file'.new # NoFile
  BY <1>0, <1>1 DEF Check, Download, Stage, RemoveOld, Staged, BinaryKept, At, Files
<1>11. BinaryKept'
  BY <1>1, <1>3, <1>4, <1>6, <1>8, <1>10 DEF BinaryKept
<1>12. QED
  BY <1>7, <1>9, <1>11 DEF UpInv

LEMMA UpReplace == UpInv /\ (Backup \/ Replace) => UpInv'
<1> SUFFICES ASSUME UpInv, Backup \/ Replace PROVE UpInv'
  OBVIOUS
<1>1. UpgradeTypeOK /\ Staged /\ BinaryKept
  BY DEF UpInv
<1>0. offer \in Offers /\ file \in Files /\ upAux \in Counts
  BY <1>1, TypeSplit
<1>2. PICK pc \in {"waiting", "replace", "restart"} : Goto(pc)
  BY DEF Backup, Replace
<1>3. /\ agent' \in AgentStates /\ agent'.pc = pc
      /\ agent'.version = agent.version /\ agent'.kind = agent.kind
  BY <1>1, <1>2, GotoType DEF Pcs
<1>4. upAux' \in Counts /\ (upAux.hurt => upAux'.hurt)
  BY <1>0, <1>1, PlainMishapType, MishapType DEF Backup, Replace
<1>5. offer' = offer
  BY DEF Backup, Replace
<1>6. file' \in Files
  BY <1>0 DEF Backup, Replace, Restored, Files
<1>7. UpgradeTypeOK'
  BY <1>0, <1>3, <1>4, <1>5, <1>6 DEF UpgradeTypeOK, Offers, Counts, Files, AgentStates, Pcs
<1>8. CASE Backup
  <2>1. CASE file.exe # NoFile /\ file' = [file EXCEPT !.old = file.exe, !.exe = NoFile]
                /\ Goto("replace")
    BY <2>1, <1>0, <1>1, <1>3, <1>4, <1>7, <1>8, GotoType
    DEF UpInv, Staged, BinaryKept, Backup, At, Files, Pcs
  <2>2. CASE file' = file /\ Goto("waiting")
    BY <2>2, <1>0, <1>1, <1>3, <1>4, <1>7, <1>8, GotoType
    DEF UpInv, Staged, BinaryKept, Backup, At, Files, Pcs
  <2>3. QED
    BY <1>8, <2>1, <2>2 DEF Backup
<1>9. CASE Replace
  <2>1. CASE file' = [file EXCEPT !.exe = file.new, !.new = NoFile] /\ Goto("restart")
    BY <2>1, <1>0, <1>1, <1>3, <1>4, <1>7, <1>9, GotoType
    DEF UpInv, Staged, BinaryKept, Replace, At, Files, Pcs
  <2>2. CASE file' = Restored /\ Goto("waiting")
    BY <2>2, <1>0, <1>1, <1>3, <1>4, <1>7, <1>9, GotoType
    DEF UpInv, Staged, BinaryKept, Replace, Restored, At, Files, Pcs
  <2>3. CASE file' = file /\ MishapThat(TRUE) /\ Goto("waiting")
    BY <2>3, <1>0, <1>1, <1>3, <1>4, <1>7, <1>9, GotoType, MishapType
    DEF UpInv, Staged, BinaryKept, Replace, At, Files, Pcs
  <2>4. QED
    BY <1>9, <2>1, <2>2, <2>3 DEF Replace
<1>10. QED
  BY <1>8, <1>9

\* The process ends, starts, or goes on: the disk stays as it is.
LEMMA UpProcess ==
  UpInv /\ (RestartService \/ TaskStarts \/ TaskEnds \/ Crash \/ StartByHand) => UpInv'
<1> SUFFICES ASSUME UpInv,
                    RestartService \/ TaskStarts \/ TaskEnds \/ Crash \/ StartByHand
             PROVE  UpInv'
  OBVIOUS
<1>1. UpgradeTypeOK /\ Staged /\ BinaryKept
  BY DEF UpInv
<1>0. offer \in Offers /\ file \in Files /\ upAux \in Counts /\ agent \in AgentStates
  BY <1>1, TypeSplit
<1>2. UNCHANGED <<offer, file>>
  BY DEF RestartService, TaskStarts, TaskEnds, Crash, StartByHand
<1>3. ASSUME agent' \in AgentStates, upAux' \in Counts PROVE UpgradeTypeOK'
  BY <1>0, <1>2, <1>3 DEF UpgradeTypeOK, Offers, Counts, Files, AgentStates, Pcs
<1>4. CASE TaskStarts \/ TaskEnds
  <2>1. /\ agent' \in AgentStates /\ upAux' = upAux /\ agent'.pc = agent.pc
        /\ agent'.version = agent.version /\ agent'.kind = agent.kind
    BY <1>0, <1>4 DEF TaskStarts, TaskEnds, AgentStates
  <2>2. QED
    BY <1>0, <1>1, <1>2, <1>3, <2>1 DEF UpInv, Staged, BinaryKept
<1>5. CASE RestartService
  <2>1. upAux' = upAux /\ agent.pc = "restart"
    BY <1>5 DEF RestartService, At
  <2>2. /\ agent' \in AgentStates /\ agent'.pc = "waiting" /\ agent'.kind = agent.kind
        /\ (agent'.version = Down /\ agent.kind = "systemd") => file.exe = NoFile
    <3>1. CASE agent.kind = "systemd"
      BY <1>1, <1>5, <3>1, StartedType, ProcessType DEF RestartService
    <3>2. CASE agent.kind = "windows"
      BY <1>1, <1>5, <3>2, StartedType DEF RestartService
    <3>3. CASE agent.kind = "foreground"
      BY <1>0, <1>1, <1>5, <3>3 DEF RestartService, AgentStates, Pcs
    <3>4. QED
      BY <1>0, <3>1, <3>2, <3>3 DEF AgentStates, Kinds
  <2>3. QED
    BY <1>0, <1>1, <1>2, <1>3, <2>1, <2>2 DEF UpInv, Staged, BinaryKept
<1>6. CASE Crash
  <2>1. upAux' \in Counts /\ (upAux'.hurt <=> upAux.hurt \/ agent.pc = "replace")
    BY <1>1, <1>6, MishapType DEF Crash
  <2>2. /\ agent' \in AgentStates /\ agent'.pc = "waiting" /\ agent'.kind = agent.kind
        /\ (agent'.version = Down /\ agent.kind = "systemd") => file.exe = NoFile
    <3>1. CASE agent.kind = "systemd"
      BY <1>1, <1>6, <3>1, StartedType, ProcessType DEF Crash
    <3>2. CASE agent.kind # "systemd"
      BY <1>1, <1>6, <3>2, StartedType DEF Crash
    <3>3. QED
      BY <3>1, <3>2
  <2>3. QED
    BY <1>1, <1>2, <1>3, <2>1, <2>2 DEF UpInv, Staged, BinaryKept
<1>7. CASE StartByHand
  <2>1. upAux' = upAux /\ file.exe \in Versions
    BY <1>0, <1>7 DEF StartByHand, Files
  <2>2. agent' \in AgentStates /\ agent'.pc = "waiting" /\ agent'.version # Down
        /\ agent'.kind = agent.kind
    BY <1>1, <1>7, <2>1, StartedType, UpgradeAssumption DEF StartByHand
  <2>3. QED
    BY <1>0, <1>1, <1>2, <1>3, <1>7, <2>1, <2>2 DEF UpInv, Staged, BinaryKept, StartByHand
<1>8. QED
  BY <1>4, <1>5, <1>6, <1>7

LEMMA UpStep == UpInv /\ [UpgradeNext]_upVars => UpInv'
<1> SUFFICES ASSUME UpInv, [UpgradeNext]_upVars PROVE UpInv'
  OBVIOUS
<1>1. CASE UNCHANGED upVars
  BY <1>1 DEF upVars, UpInv, UpgradeTypeOK, Staged, BinaryKept
<1>2. QED
  BY <1>1, UpOffer, UpPrepare, UpReplace, UpProcess DEF UpgradeNext, ApplyUpgrade

\* The disk, the process and the offer keep their types through every step of an
\* upgrade, its failures and crashes.
THEOREM UpgradeTypeCorrect == UpgradeSpec => []UpgradeTypeOK
<1>1. UpInv => UpgradeTypeOK
  BY DEF UpInv
<1>2. QED
  BY <1>1, UpInit, UpStep, PTL DEF UpgradeSpec

\* Any number of upgrades, failing steps and crashes leaves the machine with a
\* binary, and with its executable in its place unless the process died between
\* the two renames or undoing the first one failed.
THEOREM BinaryKeptHolds == UpgradeSpec => []BinaryKept
<1>1. UpInv => BinaryKept
  BY DEF UpInv
<1>2. QED
  BY <1>1, UpInit, UpStep, PTL DEF UpgradeSpec

--------------------------------------------------------------------------------
(* The lists the log's code asks the databases for                         *)

Unsynced == {i \in DOMAIN journal : ~journal[i].synced}

\* The agent's journal returns the rows to replay, each once.
LEMMA PendingRows ==
  ASSUME LogsTypeOK
  PROVE  /\ PendingLogs \in Seq(Unsynced)
         /\ \A j, k \in 1..Len(PendingLogs) : j # k => PendingLogs[j] # PendingLogs[k]
<1> DEFINE R == {p \in Unsynced \X Unsynced : p[1] < p[2]}
<1>1. Unsynced \in SUBSET (1..Len(journal)) /\ Len(journal) \in Nat
  BY DEF LogsTypeOK, Unsynced
<1>2. IsFiniteSet(Unsynced)
  <2>1. IsFiniteSet(1..Len(journal))
    BY <1>1, FS_Interval
  <2>2. QED
    BY <1>1, <2>1, FS_Subset
<1>3. Orders(R, Unsynced)
  BY <1>1 DEF Orders
<1>4. \A x \in Unsynced : Below(R, Unsynced, x) = {y \in Unsynced : y < x}
  BY DEF Below
<1>5. PendingLogs = [k \in 1..Cardinality(Unsynced) |->
        CHOOSE x \in Unsynced : Cardinality({y \in Unsynced : y < x}) = k - 1]
  BY DEF PendingLogs, InOrder, Unsynced
<1>6. ASSUME NEW k \in 1..Cardinality(Unsynced), NEW x \in Unsynced,
             Cardinality(Below(R, Unsynced, x)) = k - 1
      PROVE  /\ PendingLogs[k] \in Unsynced
             /\ Cardinality(Below(R, Unsynced, PendingLogs[k])) = k - 1
  <2>1. Cardinality({y \in Unsynced : y < x}) = k - 1
    BY <1>4, <1>6
  <2>2. /\ PendingLogs[k] \in Unsynced
        /\ Cardinality({y \in Unsynced : y < PendingLogs[k]}) = k - 1
    BY <1>5, <2>1
  <2>3. QED
    BY <1>4, <2>2
<1>7. PendingLogs \in [1..Cardinality(Unsynced) ->
                       {PendingLogs[k] : k \in 1..Cardinality(Unsynced)}]
  BY <1>5
<1> HIDE DEF R
<1>8. /\ PendingLogs \in Seq(Unsynced) /\ Len(PendingLogs) = Cardinality(Unsynced)
      /\ Unsynced \subseteq {PendingLogs[k] : k \in 1..Len(PendingLogs)}
      /\ \A j, k \in 1..Len(PendingLogs) : j < k => <<PendingLogs[j], PendingLogs[k]>> \in R
  BY <1>2, <1>3, <1>6, <1>7, OrderedRows
<1>9. ASSUME NEW j \in 1..Len(PendingLogs), NEW k \in 1..Len(PendingLogs), j < k
      PROVE  PendingLogs[j] # PendingLogs[k]
  <2>1. <<PendingLogs[j], PendingLogs[k]>> \in R
    BY <1>8, <1>9
  <2>2. PendingLogs[j] \in Unsynced
    BY <1>8
  <2>3. QED
    BY <1>3, <2>1, <2>2 DEF Orders
<1>10. Len(PendingLogs) \in Nat
  BY <1>8
<1>11. QED
  BY <1>8, <1>9, <1>10

\* A page of the log, when the times agree with the ids: the next rows.
LEMMA LogPage ==
  ASSUME LogsTypeOK, Chronological, NEW cursor \in 0..Len(logTable), NEW n \in Nat
  PROVE  LET m == IF Len(logTable) - cursor < StorePageSize(n)
                  THEN Len(logTable) - cursor ELSE StorePageSize(n)
         IN ListTaskLogs(cursor, n) = [k \in 1..m |-> cursor + k]
<1> DEFINE all == InOrder(AfterCursor(cursor), LoggedBefore)
           b == Len(logTable)
<1>1. b \in Nat /\ cursor \in Nat /\ cursor <= b /\ DOMAIN logTable = 1..b
  BY DEF LogsTypeOK
<1>2. AfterCursor(cursor) = cursor + 1..b
  BY <1>1 DEF AfterCursor
<1>3. ASSUME NEW i \in 1..b, NEW j \in 1..b PROVE LoggedBefore(i, j) <=> i < j
  <2>0. logTable[i] \in Entry /\ logTable[j] \in Entry
    BY <1>1 DEF LogsTypeOK
  <2>1. logTable[i].at \in Int /\ logTable[j].at \in Int
    BY <2>0, LogsAssumption DEF Entry
  <2>2. i < j => logTable[i].at <= logTable[j].at
    BY <1>1 DEF Chronological
  <2>3. j < i => logTable[j].at <= logTable[i].at
    BY <1>1 DEF Chronological
  <2>4. QED
    BY <1>1, <2>1, <2>2, <2>3 DEF LoggedBefore
<1>4. \A x \in cursor + 1..b : {y \in cursor + 1..b : LoggedBefore(y, x)}
                                 = {y \in cursor + 1..b : y < x}
  BY <1>1, <1>3
<1>5. all = [k \in 1..Cardinality(cursor + 1..b) |->
               CHOOSE x \in cursor + 1..b :
                 Cardinality({y \in cursor + 1..b : LoggedBefore(y, x)}) = k - 1]
  BY <1>2 DEF InOrder
<1> HIDE DEF all
<1>6. all \in [1..Cardinality(cursor + 1..b) -> {all[k] : k \in 1..Cardinality(cursor + 1..b)}]
  BY <1>5
<1>7. ASSUME NEW k \in 1..Cardinality(cursor + 1..b), NEW x \in cursor + 1..b,
             Cardinality({y \in cursor + 1..b : y < x}) = k - 1
      PROVE  /\ all[k] \in cursor + 1..b
             /\ Cardinality({y \in cursor + 1..b : y < all[k]}) = k - 1
  <2>1. Cardinality({y \in cursor + 1..b : LoggedBefore(y, x)}) = k - 1
    BY <1>4, <1>7
  <2>2. /\ all[k] \in cursor + 1..b
        /\ Cardinality({y \in cursor + 1..b : LoggedBefore(y, all[k])}) = k - 1
    BY <1>5, <2>1
  <2>3. QED
    BY <1>4, <2>2
<1>8. all = [k \in 1..b - cursor |-> cursor + k]
  BY <1>1, <1>6, <1>7, IntervalRows
<1>9. Len(all) = b - cursor
  BY <1>1, <1>8
<1>10. PICK p \in Nat : p = StorePageSize(n)
  BY LogsAssumption DEF StorePageSize
<1>11. PICK d \in Nat : d = b - cursor
  <2>1. b - cursor \in Nat
    BY <1>1
  <2>2. QED
    BY <2>1
<1>12. PICK m \in 0..d : m = IF d < p THEN d ELSE p
  BY <1>10, <1>11
<1>13. ListTaskLogs(cursor, n) = SubSeq(all, 1, m)
  BY <1>9, <1>10, <1>11, <1>12 DEF ListTaskLogs, all
<1>14. all \in Seq(Nat) /\ Len(all) = d /\ \A k \in 1..m : all[k] = cursor + k
  BY <1>1, <1>8, <1>9, <1>11
<1>15. /\ SubSeq(all, 1, m) \in Seq(Nat) /\ Len(SubSeq(all, 1, m)) = m
       /\ \A k \in 1..m : SubSeq(all, 1, m)[k] = cursor + k
  <2>1. \A k \in 1..m : all[k] \in Nat
    BY <1>1, <1>14
  <2>2. m \in Int /\ 1 \in Int
    BY <1>12
  <2>3. /\ SubSeq(all, 1, m) \in Seq(Nat)
        /\ Len(SubSeq(all, 1, m)) = IF 1 <= m THEN m - 1 + 1 ELSE 0
        /\ \A k \in 1..m - 1 + 1 : SubSeq(all, 1, m)[k] = all[1 + k - 1]
    BY <2>1, <2>2, SubSeqProperties
  <2>4. QED
    BY <1>11, <1>12, <1>14, <2>3
<1>16. SubSeq(all, 1, m) = [k \in 1..m |-> cursor + k]
  BY <1>15
<1>17. QED
  BY <1>10, <1>11, <1>12, <1>13, <1>16

--------------------------------------------------------------------------------
(* The types of the task's log                                             *)

RunnerStates == [pc : {"start", "sync", "idle", "script", "message"},
                 todo : Seq(Nat), sent : SUBSET Nat, stopped : SUBSET Outputs]
LogCounts == [emitted : 0..Lines, unread : SUBSET (1..Lines), lost : SUBSET (1..Lines),
              resent : SUBSET (1..Lines), faults : 0..MaxFaults]

LEMMA LogTypes ==
  LogsTypeOK <=>
    /\ clock \in 0..MaxClock
    /\ runner \in RunnerStates
    /\ runner.sent \subseteq DOMAIN journal /\ Range(runner.todo) \subseteq DOMAIN journal
    /\ hand \in [Outputs -> Entry \cup {NoLine}]
    /\ stream \in {"none", "open", "broken"}
    /\ wire \in Seq(Entry) /\ (wire # <<>> => stream = "open")
    /\ logTable \in Seq(Entry)
    /\ journal \in Seq(JournalRow) /\ \A i \in DOMAIN journal : journal[i].at <= clock
    /\ logAux \in LogCounts
  BY DEF LogsTypeOK, RunnerStates, LogCounts

LEMMA LogTypesNext ==
  LogsTypeOK' <=>
    /\ clock' \in 0..MaxClock
    /\ runner' \in RunnerStates
    /\ runner'.sent \subseteq DOMAIN journal' /\ Range(runner'.todo) \subseteq DOMAIN journal'
    /\ hand' \in [Outputs -> Entry \cup {NoLine}]
    /\ stream' \in {"none", "open", "broken"}
    /\ wire' \in Seq(Entry) /\ (wire' # <<>> => stream' = "open")
    /\ logTable' \in Seq(Entry)
    /\ journal' \in Seq(JournalRow) /\ \A i \in DOMAIN journal' : journal'[i].at <= clock'
    /\ logAux' \in LogCounts
  BY DEF LogsTypeOK, RunnerStates, LogCounts

LEMMA LinesAppended ==
  ASSUME NEW S, NEW s \in Seq(S), NEW e
  PROVE  LinesIn(Append(s, e)) = LinesIn(s) \cup {e.line}
<1>1. Len(s) \in Nat
  OBVIOUS
<1>2. /\ DOMAIN Append(s, e) = 1..Len(s) + 1 /\ DOMAIN s = 1..Len(s)
      /\ \A i \in 1..Len(s) : Append(s, e)[i] = s[i]
      /\ Append(s, e)[Len(s) + 1] = e
  OBVIOUS
<1>3. 1..Len(s) + 1 = 1..Len(s) \cup {Len(s) + 1}
  BY <1>1
<1>4. QED
  BY <1>2, <1>3 DEF LinesIn

LEMMA LinesTail ==
  ASSUME NEW S, NEW s \in Seq(S), s # <<>>
  PROVE  LinesIn(s) = {Head(s).line} \cup LinesIn(Tail(s))
<1>1. /\ Len(s) \in Nat \ {0} /\ Len(Tail(s)) = Len(s) - 1 /\ Head(s) = s[1]
      /\ DOMAIN s = 1..Len(s) /\ DOMAIN Tail(s) = 1..Len(s) - 1
      /\ \A i \in 1..Len(s) - 1 : Tail(s)[i] = s[i + 1]
  BY HeadTailProperties
<1>2. ASSUME NEW i \in 1..Len(s), i # 1 PROVE s[i].line \in LinesIn(Tail(s))
  <2>1. PICK j \in 1..Len(s) - 1 : i = j + 1
    <3>1. i - 1 \in 1..Len(s) - 1 /\ i = (i - 1) + 1
      BY <1>1, <1>2
    <3>2. QED
      BY <3>1
  <2>2. QED
    BY <1>1, <2>1 DEF LinesIn
<1>3. ASSUME NEW i \in 1..Len(s) - 1 PROVE i + 1 \in 1..Len(s)
  BY <1>1
<1>4. QED
  BY <1>1, <1>2, <1>3 DEF LinesIn

\* The INSERT's time is a whole second, and not after the clock.
LEMMA SavedAtType ==
  ASSUME LogsTypeOK
  PROVE  SavedAt \in 0..MaxClock /\ SavedAt <= clock
<1>1. clock \in Nat /\ TicksPerSecond \in Nat \ {0} /\ clock <= MaxClock /\ MaxClock \in Nat
  BY LogTypes, LogsAssumption
<1>2. clock % TicksPerSecond \in 0..TicksPerSecond - 1
  BY <1>1
<1>3. clock % TicksPerSecond <= clock
  BY <1>1
<1>4. QED
  BY <1>1, <1>2, <1>3 DEF SavedAt

LEMMA LinesTyped ==
  ASSUME NEW s \in Seq(Entry)
  PROVE  LinesIn(s) \subseteq 1..Lines
<1>1. \A i \in DOMAIN s : s[i] \in Entry
  OBVIOUS
<1>2. QED
  BY <1>1 DEF LinesIn, Entry

LEMMA SaveLogType ==
  ASSUME LogsTypeOK, NEW l \in 1..Lines, SaveLog(l)
  PROVE  /\ journal' \in Seq(JournalRow) /\ \A i \in DOMAIN journal' : journal'[i].at <= clock
         /\ DOMAIN journal \subseteq DOMAIN journal'
         /\ \A i \in DOMAIN journal : journal'[i] = journal[i]
         /\ logAux' \in LogCounts
<1>1. /\ journal \in Seq(JournalRow) /\ \A i \in DOMAIN journal : journal[i].at <= clock
      /\ logAux \in LogCounts
  BY LogTypes
<1>2. CASE journal' = Append(journal, [line |-> l, at |-> SavedAt, synced |-> FALSE])
           /\ UNCHANGED logAux
  <2>1. [line |-> l, at |-> SavedAt, synced |-> FALSE] \in JournalRow
    BY SavedAtType DEF JournalRow
  <2>2. QED
    BY <1>1, <1>2, <2>1, SavedAtType
<1>3. CASE /\ logAux.faults < MaxFaults
           /\ logAux' = [logAux EXCEPT !.faults = @ + 1, !.lost = @ \cup {l}]
           /\ UNCHANGED journal
  <2>1. logAux.faults + 1 \in 0..MaxFaults
    BY <1>1, <1>3, LogsAssumption DEF LogCounts
  <2>2. logAux' \in LogCounts
    BY <1>1, <1>3, <2>1 DEF LogCounts
  <2>3. QED
    BY <1>1, <1>3, <2>2
<1>4. QED
  BY <1>2, <1>3 DEF SaveLog

LEMMA NextLineType ==
  ASSUME LogsTypeOK, NextLine <= Lines
  PROVE  /\ NextLine \in 1..Lines /\ NextLine = logAux.emitted + 1
         /\ [logAux EXCEPT !.emitted = @ + 1] \in LogCounts
         /\ logAux.faults < MaxFaults
              => [logAux EXCEPT !.emitted = @ + 1, !.faults = @ + 1] \in LogCounts
<1>1. logAux \in LogCounts
  BY LogTypes
<1>2. logAux.emitted + 1 \in 1..Lines
  BY <1>1, LogsAssumption DEF LogCounts, NextLine
<1>3. [logAux EXCEPT !.emitted = @ + 1] \in LogCounts
  BY <1>1, <1>2 DEF LogCounts
<1>4. ASSUME logAux.faults < MaxFaults
      PROVE  [logAux EXCEPT !.emitted = @ + 1, !.faults = @ + 1] \in LogCounts
  <2>1. logAux.faults + 1 \in 0..MaxFaults
    BY <1>1, <1>4, LogsAssumption DEF LogCounts
  <2>2. PICK e \in 0..Lines, f \in 0..MaxFaults :
          e = logAux.emitted + 1 /\ f = logAux.faults + 1
    BY <1>2, <2>1
  <2>3. [logAux EXCEPT !.emitted = e, !.faults = f] \in LogCounts
    BY <1>1 DEF LogCounts
  <2>4. QED
    BY <2>2, <2>3
<1>5. QED
  BY <1>2, <1>3, <1>4 DEF NextLine

\* A line that nobody reads changes nothing on the lines' ways.
LEMMA UnreadFrame ==
  ASSUME LogsTypeOK, NEW o \in Outputs, UnreadLine(o)
  PROVE  /\ NextLine \in 1..Lines /\ NextLine = logAux.emitted + 1
         /\ runner' \in RunnerStates /\ runner'.pc = runner.pc
         /\ runner'.todo = runner.todo /\ runner'.sent = runner.sent
         /\ logAux' \in LogCounts /\ logAux'.emitted = logAux.emitted + 1
         /\ logAux'.unread = logAux.unread \cup {NextLine}
         /\ logAux'.lost = logAux.lost /\ logAux'.resent = logAux.resent
         /\ UNCHANGED <<clock, hand, stream, wire, journal, logTable, reader>>
<1>1. runner \in RunnerStates /\ logAux \in LogCounts
  BY LogTypes
<1>2. /\ runner' = [runner EXCEPT !.stopped = @ \cup {o}]
      /\ logAux' = [logAux EXCEPT !.emitted = @ + 1, !.unread = @ \cup {NextLine}]
      /\ NextLine <= Lines
      /\ UNCHANGED <<clock, hand, stream, wire, journal, logTable, reader>>
  BY DEF UnreadLine
<1>3. NextLine \in 1..Lines /\ NextLine = logAux.emitted + 1
  BY <1>2, NextLineType
<1>4. /\ runner' \in RunnerStates /\ runner'.pc = runner.pc
      /\ runner'.todo = runner.todo /\ runner'.sent = runner.sent
  BY <1>1, <1>2 DEF RunnerStates
<1>5. logAux' = [logAux EXCEPT !.emitted = NextLine, !.unread = @ \cup {NextLine}]
  BY <1>2, <1>3
<1>6. /\ logAux' \in LogCounts /\ logAux'.emitted = NextLine
      /\ logAux'.unread = logAux.unread \cup {NextLine}
      /\ logAux'.lost = logAux.lost /\ logAux'.resent = logAux.resent
  <2>1. PICK n \in 1..Lines : n = NextLine
    BY <1>3
  <2>2. PICK U \in SUBSET (1..Lines) : U = logAux.unread \cup {n}
    BY <1>1, <2>1 DEF LogCounts
  <2>3. logAux' = [logAux EXCEPT !.emitted = n, !.unread = U]
    BY <1>5, <2>1, <2>2
  <2>4. n \in 0..Lines
    BY <2>1, LogsAssumption
  <2>5. QED
    BY <1>1, <2>1, <2>2, <2>3, <2>4 DEF LogCounts
<1>7. QED
  BY <1>2, <1>3, <1>4, <1>6

\* A runner between two streams has none, and only a replay has rows to send or to
\* mark.
Quiet ==
  /\ runner.pc \in {"start", "idle"} => stream = "none"
  /\ runner.pc # "sync" => runner.todo = <<>> /\ runner.sent = {}

LEMMA AgentLogTypes ==
  LogsTypeOK /\ Quiet /\ (\/ SyncRead \/ SyncSend \/ SyncMark
                 \/ OpenStream \/ CloseStream \/ StreamAgentLog
                 \/ \E o \in Outputs : ScanLine(o) \/ UnreadLine(o) \/ SendLine(o) \/ BufferLine(o))
    => LogsTypeOK'
<1>1. ASSUME LogsTypeOK, SyncRead PROVE LogsTypeOK'
  <2>1. PendingLogs \in Seq(Unsynced) /\ Unsynced \subseteq DOMAIN journal
    BY <1>1, PendingRows DEF Unsynced
  <2>2. DOMAIN journal \subseteq Nat
    BY <1>1, LogTypes
  <2>3. PendingLogs \in Seq(Nat) /\ Range(PendingLogs) \subseteq DOMAIN journal
    BY <2>1, <2>2 DEF Range
  <2>4. \/ runner' = [runner EXCEPT !.pc = "sync", !.todo = PendingLogs] /\ stream' = "open"
        \/ runner' = [runner EXCEPT !.pc = "idle"] /\ UNCHANGED stream
    BY <1>1 DEF SyncRead
  <2>5. UNCHANGED <<clock, hand, wire, journal, logTable, logAux>>
    BY <1>1 DEF SyncRead
  <2>6. runner' \in RunnerStates /\ runner'.sent = runner.sent
        /\ (runner'.todo = runner.todo \/ runner'.todo = PendingLogs)
    BY <1>1, <2>3, <2>4, LogTypes DEF RunnerStates
  <2>7. stream' \in {"none", "open", "broken"} /\ (stream = "open" => stream' = "open")
    BY <1>1, <2>4, LogTypes
  <2>8. QED
    BY <1>1, <2>3, <2>5, <2>6, <2>7, LogTypes, LogTypesNext
<1>2. ASSUME LogsTypeOK, SyncSend PROVE LogsTypeOK'
  <2> DEFINE i == Head(runner.todo)
  <2>1. /\ runner \in RunnerStates /\ runner.todo # <<>> /\ runner.todo \in Seq(Nat)
        /\ Range(runner.todo) \subseteq DOMAIN journal
    BY <1>2, LogTypes DEF SyncSend, RunnerStates
  <2>2. i \in DOMAIN journal /\ i \in Nat /\ Tail(runner.todo) \in Seq(Nat)
        /\ Range(Tail(runner.todo)) \subseteq DOMAIN journal
    BY <2>1 DEF Range
  <2>3. /\ wire' = Append(wire, [line |-> journal[i].line, at |-> journal[i].at])
        /\ runner' = [runner EXCEPT !.todo = Tail(@), !.sent = @ \cup {i}]
        /\ stream = "open"
        /\ UNCHANGED <<clock, hand, stream, journal, logTable, logAux>>
    BY <1>2 DEF SyncSend
  <2> HIDE DEF i
  <2>4. journal[i] \in JournalRow
    BY <1>2, <2>2, LogTypes
  <2>5. [line |-> journal[i].line, at |-> journal[i].at] \in Entry
    BY <2>4 DEF JournalRow, Entry
  <2>6. wire' \in Seq(Entry)
    BY <1>2, <2>3, <2>5, LogTypes
  <2>7. runner' \in RunnerStates /\ runner'.todo = Tail(runner.todo)
        /\ runner'.sent = runner.sent \cup {i}
    BY <2>1, <2>2, <2>3 DEF RunnerStates
  <2>8. QED
    BY <1>2, <2>2, <2>3, <2>6, <2>7, LogTypes, LogTypesNext
<1>3. ASSUME LogsTypeOK, SyncMark PROVE LogsTypeOK'
  <2>1. /\ stream' = "none" /\ runner' = [pc |-> "idle", todo |-> <<>>, sent |-> {}, stopped |-> {}]
        /\ UNCHANGED <<clock, hand, wire, logTable>>
        /\ wire = <<>>
    BY <1>3, LogTypes DEF SyncMark
  <2>2. runner' \in RunnerStates /\ runner'.sent = {} /\ Range(runner'.todo) = {}
    BY <2>1 DEF RunnerStates, Range
  <2>3. /\ journal' \in Seq(JournalRow) /\ DOMAIN journal' = DOMAIN journal
        /\ \A i \in DOMAIN journal : journal'[i].at = journal[i].at
        /\ logAux' \in LogCounts
    <3>1. CASE /\ journal' = [i \in DOMAIN journal |->
                              [journal[i] EXCEPT !.synced = @ \/ i \in SyncedRows]]
               /\ UNCHANGED logAux
      <4>1. \A i \in DOMAIN journal : journal[i] \in JournalRow
        BY <1>3, LogTypes
      <4>2. ASSUME NEW i \in DOMAIN journal
            PROVE  /\ [journal[i] EXCEPT !.synced = @ \/ i \in SyncedRows] \in JournalRow
                   /\ [journal[i] EXCEPT !.synced = @ \/ i \in SyncedRows].at = journal[i].at
        <5>1. (journal[i].synced \/ i \in SyncedRows) \in BOOLEAN
          OBVIOUS
        <5>2. PICK b \in BOOLEAN : b = (journal[i].synced \/ i \in SyncedRows)
          BY <5>1
        <5>3. [journal[i] EXCEPT !.synced = b] \in JournalRow
              /\ [journal[i] EXCEPT !.synced = b].at = journal[i].at
          BY <4>1 DEF JournalRow
        <5>4. QED
          BY <5>2, <5>3
      <4>3. \A i \in DOMAIN journal :
              journal'[i] \in JournalRow /\ journal'[i].at = journal[i].at
        BY <3>1, <4>2
      <4>4. DOMAIN journal' = DOMAIN journal /\ DOMAIN journal = 1..Len(journal)
            /\ Len(journal) \in Nat
        BY <1>3, <3>1, LogTypes
      <4>5. journal' = [i \in 1..Len(journal) |-> journal'[i]]
        BY <3>1, <4>4
      <4>6. journal' \in Seq(JournalRow)
        BY <4>3, <4>4, <4>5
      <4>7. QED
        BY <1>3, <3>1, <4>3, <4>4, <4>6, LogTypes
    <3>2. CASE /\ Breaks
               /\ logAux' = [logAux EXCEPT !.faults = @ + 1,
                               !.resent = @ \cup {journal[i].line : i \in runner.sent}]
               /\ UNCHANGED journal
      <4>0. \A i \in runner.sent : journal[i] \in JournalRow
        BY <1>3, LogTypes
      <4>1. \A i \in runner.sent : journal[i].line \in 1..Lines
        BY <4>0 DEF JournalRow
      <4>2. logAux \in LogCounts /\ logAux.faults + 1 \in 0..MaxFaults
        BY <1>3, <3>2, LogTypes, LogsAssumption DEF LogCounts, Breaks
      <4>3. logAux' \in LogCounts
        BY <3>2, <4>1, <4>2 DEF LogCounts
      <4>4. QED
        BY <1>3, <3>2, <4>3, LogTypes
    <3>3. QED
      BY <1>3, <3>1, <3>2 DEF SyncMark
  <2>4. QED
    BY <1>3, <2>1, <2>2, <2>3, LogTypes, LogTypesNext
<1>4. ASSUME LogsTypeOK, Quiet, OpenStream \/ CloseStream PROVE LogsTypeOK'
  <2>1. PICK pc \in {"script", "idle"}, S \in SUBSET Outputs :
          runner' = [runner EXCEPT !.pc = pc, !.stopped = S]
    <3>1. CASE OpenStream
      BY <3>1 DEF OpenStream
    <3>2. CASE CloseStream
      <4>1. runner' = [runner EXCEPT !.pc = "idle"] /\ runner \in RunnerStates
        BY <1>4, <3>2, LogTypes DEF CloseStream
      <4>2. runner' = [runner EXCEPT !.pc = "idle", !.stopped = runner.stopped]
        BY <4>1 DEF RunnerStates
      <4>3. QED
        BY <4>1, <4>2 DEF RunnerStates
    <3>3. QED
      BY <1>4, <3>1, <3>2
  <2>2. /\ runner' \in RunnerStates /\ runner'.todo = runner.todo /\ runner'.sent = runner.sent
    BY <1>4, <2>1, LogTypes DEF RunnerStates
  <2>3. UNCHANGED <<clock, hand, wire, journal, logTable, logAux>>
    BY <1>4 DEF OpenStream, CloseStream
  <2>4. stream' \in {"none", "open"} /\ (stream' = "none" => wire = <<>>)
    <3>1. CASE OpenStream
      BY <1>4, <3>1, LogTypes DEF OpenStream, Quiet
    <3>2. CASE CloseStream
      BY <1>4, <3>2, LogTypes DEF CloseStream
    <3>3. QED
      BY <1>4, <3>1, <3>2
  <2>5. QED
    BY <1>4, <2>2, <2>3, <2>4, LogTypes, LogTypesNext
<1>5. ASSUME LogsTypeOK, StreamAgentLog PROVE LogsTypeOK'
  <2>1. /\ runner' = [runner EXCEPT !.pc = "message"] /\ NextLine <= Lines
        /\ UNCHANGED <<clock, hand, logTable>>
    BY <1>5 DEF StreamAgentLog
  <2>2. runner' \in RunnerStates /\ runner'.todo = runner.todo /\ runner'.sent = runner.sent
    BY <1>5, <2>1, LogTypes DEF RunnerStates
  <2>3. NextLine \in 1..Lines
    BY <1>5, <2>1, NextLineType
  <2>4. CASE /\ stream' = "open" /\ wire' = <<[line |-> NextLine, at |-> clock]>>
             /\ logAux' = [logAux EXCEPT !.emitted = @ + 1]
             /\ UNCHANGED journal
    <3>1. [line |-> NextLine, at |-> clock] \in Entry
      BY <1>5, <2>3, LogTypes DEF Entry
    <3>2. wire' \in Seq(Entry)
      BY <2>4, <3>1
    <3>3. logAux' \in LogCounts
      BY <1>5, <2>1, <2>4, NextLineType
    <3>4. QED
      BY <1>5, <2>1, <2>2, <2>4, <3>2, <3>3, LogTypes, LogTypesNext
  <2>5. CASE /\ Breaks
             /\ journal' = Append(journal, [line |-> NextLine, at |-> SavedAt, synced |-> FALSE])
             /\ logAux' = [logAux EXCEPT !.emitted = @ + 1, !.faults = @ + 1]
             /\ UNCHANGED <<stream, wire>>
    <3>1. [line |-> NextLine, at |-> SavedAt, synced |-> FALSE] \in JournalRow
      BY <1>5, <2>3, SavedAtType DEF JournalRow
    <3>2. /\ journal' \in Seq(JournalRow) /\ \A i \in DOMAIN journal' : journal'[i].at <= clock
          /\ DOMAIN journal \subseteq DOMAIN journal'
      BY <1>5, <2>5, <3>1, LogTypes, SavedAtType
    <3>3. logAux' \in LogCounts
      BY <1>5, <2>1, <2>5, NextLineType DEF Breaks
    <3>4. QED
      BY <1>5, <2>1, <2>2, <2>5, <3>2, <3>3, LogTypes, LogTypesNext
  <2>6. QED
    BY <1>5, <2>4, <2>5 DEF StreamAgentLog
<1>6. ASSUME LogsTypeOK, NEW o \in Outputs, ScanLine(o) PROVE LogsTypeOK'
  <2>1. /\ hand' = [hand EXCEPT ![o] = [line |-> NextLine, at |-> clock]]
        /\ logAux' = [logAux EXCEPT !.emitted = @ + 1]
        /\ UNCHANGED <<clock, runner, stream, wire, journal, logTable>>
        /\ NextLine <= Lines
    BY <1>6 DEF ScanLine
  <2>2. NextLine \in 1..Lines /\ logAux' \in LogCounts
    BY <1>6, <2>1, NextLineType
  <2>3. [line |-> NextLine, at |-> clock] \in Entry
    BY <1>6, <2>2, LogTypes DEF Entry
  <2>4. hand' \in [Outputs -> Entry \cup {NoLine}]
    BY <1>6, <2>1, <2>3, LogTypes
  <2>5. QED
    BY <1>6, <2>1, <2>2, <2>4, LogTypes, LogTypesNext
<1>10. ASSUME LogsTypeOK, NEW o \in Outputs, UnreadLine(o) PROVE LogsTypeOK'
  BY <1>10, UnreadFrame, LogTypes, LogTypesNext
<1>7. ASSUME LogsTypeOK, NEW o \in Outputs, SendLine(o) PROVE LogsTypeOK'
  <2>1. /\ hand[o] # NoLine /\ stream = "open" /\ wire' = Append(wire, hand[o])
        /\ hand' = [hand EXCEPT ![o] = NoLine]
        /\ UNCHANGED <<clock, runner, stream, journal, logTable, logAux>>
    BY <1>7 DEF SendLine
  <2>2. hand[o] \in Entry
    BY <1>7, <2>1, LogTypes
  <2>3. wire' \in Seq(Entry) /\ hand' \in [Outputs -> Entry \cup {NoLine}]
    BY <1>7, <2>1, <2>2, LogTypes
  <2>4. QED
    BY <1>7, <2>1, <2>3, LogTypes, LogTypesNext
<1>8. ASSUME LogsTypeOK, NEW o \in Outputs, BufferLine(o) PROVE LogsTypeOK'
  <2>1. /\ hand[o] # NoLine /\ SaveLog(hand[o].line)
        /\ hand' = [hand EXCEPT ![o] = NoLine]
        /\ UNCHANGED <<clock, runner, stream, wire, logTable>>
    BY <1>8 DEF BufferLine, JournalLine
  <2>2. hand[o] \in Entry
    BY <1>8, <2>1, LogTypes
  <2>3. hand[o].line \in 1..Lines
    BY <2>2 DEF Entry
  <2>4. hand' \in [Outputs -> Entry \cup {NoLine}]
    BY <1>8, <2>1, LogTypes
  <2>5. /\ journal' \in Seq(JournalRow) /\ \A i \in DOMAIN journal' : journal'[i].at <= clock
        /\ DOMAIN journal \subseteq DOMAIN journal'
        /\ logAux' \in LogCounts
    BY <1>8, <2>1, <2>3, SaveLogType
  <2>6. QED
    BY <1>8, <2>1, <2>4, <2>5, LogTypes, LogTypesNext
<1>9. QED
  BY <1>1, <1>2, <1>3, <1>4, <1>5, <1>6, <1>7, <1>8, <1>10

\* The steps of the controller, of a client and of the clock, and a crash.
LEMMA OtherLogTypes ==
  LogsTypeOK /\ (\/ InsertTaskLog \/ StreamBreaks \/ AgentRestarts
                 \/ StartReading \/ HandleListLogs \/ HandleDownloadLogs
                 \/ Tick \/ UNCHANGED logVars)
    => LogsTypeOK'
<1>1. ASSUME LogsTypeOK, InsertTaskLog PROVE LogsTypeOK'
  <2>1. /\ wire # <<>> /\ logTable' = Append(logTable, Head(wire)) /\ wire' = Tail(wire)
        /\ UNCHANGED <<clock, runner, hand, stream, journal, logAux>>
    BY <1>1 DEF InsertTaskLog
  <2>2. wire \in Seq(Entry) /\ logTable \in Seq(Entry)
    BY <1>1, LogTypes
  <2>3. Head(wire) \in Entry /\ wire' \in Seq(Entry) /\ logTable' \in Seq(Entry)
    BY <2>1, <2>2
  <2>4. QED
    BY <1>1, <2>1, <2>3, LogTypes, LogTypesNext
<1>2. ASSUME LogsTypeOK, StreamBreaks PROVE LogsTypeOK'
  <2>1. /\ stream' = "broken" /\ wire' = <<>> /\ Breaks
        /\ logAux' = [logAux EXCEPT !.faults = @ + 1, !.lost = @ \cup LinesIn(wire)]
        /\ UNCHANGED <<clock, runner, hand, journal, logTable>>
    BY <1>2 DEF StreamBreaks
  <2>2. logAux \in LogCounts /\ LinesIn(wire) \subseteq 1..Lines
    BY <1>2, LogTypes, LinesTyped
  <2>3. logAux.faults + 1 \in 0..MaxFaults
    BY <2>1, <2>2, LogsAssumption DEF LogCounts, Breaks
  <2>4. logAux' \in LogCounts
    BY <2>1, <2>2, <2>3 DEF LogCounts
  <2>5. QED
    BY <1>2, <2>1, <2>4, LogTypes, LogTypesNext
<1>3. ASSUME LogsTypeOK, AgentRestarts PROVE LogsTypeOK'
  <2> DEFINE held == {hand[o].line : o \in Outputs} \ {0}
             again == {journal[i].line : i \in runner.sent}
  <2>1. /\ stream' = "none" /\ wire' = <<>> /\ Breaks
        /\ runner' = [pc |-> "start", todo |-> <<>>, sent |-> {}, stopped |-> {}]
        /\ hand' = [o \in Outputs |-> NoLine]
        /\ logAux' = [logAux EXCEPT !.faults = @ + 1,
                        !.lost = @ \cup LinesIn(wire) \cup held,
                        !.resent = @ \cup again]
        /\ UNCHANGED <<clock, journal, logTable>>
    BY <1>3 DEF AgentRestarts
  <2>2. logAux \in LogCounts /\ LinesIn(wire) \subseteq 1..Lines
    BY <1>3, LogTypes, LinesTyped
  <2>3. held \subseteq 1..Lines
    BY <1>3, LogTypes DEF Entry, NoLine
  <2>4. again \subseteq 1..Lines
    <3>1. \A i \in runner.sent : journal[i] \in JournalRow
      BY <1>3, LogTypes
    <3>2. QED
      BY <3>1 DEF JournalRow
  <2> HIDE DEF held, again
  <2>5. logAux.faults + 1 \in 0..MaxFaults
    BY <2>1, <2>2, LogsAssumption DEF LogCounts, Breaks
  <2>6. logAux' \in LogCounts
    BY <2>1, <2>2, <2>3, <2>4, <2>5 DEF LogCounts
  <2>7. runner' \in RunnerStates /\ runner'.sent = {} /\ Range(runner'.todo) = {}
    BY <2>1 DEF RunnerStates, Range
  <2>8. QED
    BY <1>3, <2>1, <2>6, <2>7, LogTypes, LogTypesNext
<1>4. ASSUME LogsTypeOK, Tick PROVE LogsTypeOK'
  <2>1. clock' = clock + 1 /\ clock < MaxClock
        /\ UNCHANGED <<runner, hand, stream, wire, journal, logTable, logAux>>
    BY <1>4 DEF Tick
  <2>2. clock' \in 0..MaxClock /\ clock <= clock' /\ clock \in Nat
    BY <1>4, <2>1, LogTypes, LogsAssumption
  <2>3. ASSUME NEW i \in DOMAIN journal PROVE journal[i].at <= clock'
    <3>1. journal[i] \in JournalRow /\ journal[i].at <= clock
      BY <1>4, LogTypes
    <3>2. QED
      BY <2>2, <3>1, LogsAssumption DEF JournalRow
  <2>4. QED
    BY <1>4, <2>1, <2>2, <2>3, LogTypes, LogTypesNext
<1>5. ASSUME LogsTypeOK,
             StartReading \/ HandleListLogs \/ HandleDownloadLogs \/ UNCHANGED logVars
      PROVE  LogsTypeOK'
  <2>1. UNCHANGED <<clock, runner, hand, stream, wire, journal, logTable, logAux>>
    BY <1>5 DEF StartReading, HandleListLogs, HandleDownloadLogs, logVars
  <2>2. QED
    BY <1>5, <2>1, LogTypes, LogTypesNext
<1>6. QED
  BY <1>1, <1>2, <1>3, <1>4, <1>5

LEMMA LogTypesInit == LogsInit => LogsTypeOK
<1> SUFFICES ASSUME LogsInit PROVE LogsTypeOK
  OBVIOUS
<1>1. runner \in RunnerStates /\ runner.sent = {} /\ Range(runner.todo) = {}
  BY DEF LogsInit, RunnerStates, Range
<1>2. logAux \in LogCounts
  BY LogsAssumption DEF LogsInit, LogCounts
<1>3. QED
  BY <1>1, <1>2, LogsAssumption, LogTypes DEF LogsInit

LEMMA LogTypesStep ==
  LogsTypeOK /\ Quiet /\ [LogsNext]_logVars => LogsTypeOK' /\ Quiet'
<1> SUFFICES ASSUME LogsTypeOK, Quiet, [LogsNext]_logVars PROVE LogsTypeOK' /\ Quiet'
  OBVIOUS
<1>1. LogsTypeOK'
  BY AgentLogTypes, OtherLogTypes DEF LogsNext
<1>2. Quiet'
  <2>1. CASE SyncRead \/ SyncSend \/ SyncMark \/ OpenStream \/ CloseStream \/ StreamAgentLog
    <3>1. CASE SyncRead
      BY <3>1, LogTypes DEF SyncRead, Quiet, RunnerStates
    <3>2. CASE SyncSend
      BY <3>2, LogTypes DEF SyncSend, Quiet, RunnerStates
    <3>3. CASE SyncMark
      BY <3>3 DEF SyncMark, Quiet
    <3>4. CASE OpenStream \/ CloseStream \/ StreamAgentLog
      BY <3>4, LogTypes DEF OpenStream, CloseStream, StreamAgentLog, Quiet, RunnerStates
    <3>5. QED
      BY <2>1, <3>1, <3>2, <3>3, <3>4
  <2>2. CASE \E o \in Outputs : ScanLine(o) \/ UnreadLine(o) \/ SendLine(o) \/ BufferLine(o)
    <3>1. CASE \E o \in Outputs : UnreadLine(o)
      BY <3>1, UnreadFrame DEF Quiet
    <3>2. QED
      BY <2>2, <3>1 DEF ScanLine, SendLine, BufferLine, Quiet
  <2>3. CASE InsertTaskLog \/ StreamBreaks \/ AgentRestarts
    BY <2>3, LogTypes DEF InsertTaskLog, StreamBreaks, AgentRestarts, Quiet, Breaks
  <2>4. CASE StartReading \/ HandleListLogs \/ HandleDownloadLogs \/ Tick \/ UNCHANGED logVars
    BY <2>4 DEF StartReading, HandleListLogs, HandleDownloadLogs, Tick, logVars, Quiet
  <2>5. QED
    BY <2>1, <2>2, <2>3, <2>4 DEF LogsNext
<1>3. QED
  BY <1>1, <1>2

--------------------------------------------------------------------------------
(***************************************************************************)
(* LinesAccounted is not inductive: a replay marks the rows it has sent,   *)
(* so what it has sent must be somewhere else by then.                     *)
(***************************************************************************)

Arrived ==
  \A i \in runner.sent :
    journal[i].line \in LinesIn(wire) \cup LinesIn(logTable) \cup logAux.lost

Located(l) ==
  l \in {hand[o].line : o \in Outputs} \cup LinesIn(wire) \cup LinesIn(logTable)
          \cup Pending \cup logAux.lost

\* Nothing leaves the journal but by being marked.
LEMMA JournalKept ==
  ASSUME DOMAIN journal \subseteq DOMAIN journal',
         \A i \in DOMAIN journal : /\ journal'[i].line = journal[i].line
                                   /\ journal'[i].synced => journal[i].synced
  PROVE  Pending \subseteq Pending'
  BY DEF Pending

LEMMA SaveLogKeeps ==
  ASSUME LogsTypeOK, NEW l \in 1..Lines, SaveLog(l)
  PROVE  /\ Pending \subseteq Pending' /\ logAux.lost \subseteq logAux'.lost
         /\ l \in Pending' \cup logAux'.lost
         /\ logAux'.emitted = logAux.emitted /\ logAux'.unread = logAux.unread
         /\ logAux'.resent = logAux.resent
<1>1. journal \in Seq(JournalRow) /\ logAux \in LogCounts
  BY LogTypes
<1>2. CASE journal' = Append(journal, [line |-> l, at |-> SavedAt, synced |-> FALSE])
           /\ UNCHANGED logAux
  <2>1. /\ DOMAIN journal \subseteq DOMAIN journal'
        /\ \A i \in DOMAIN journal : journal'[i] = journal[i]
        /\ Len(journal) + 1 \in DOMAIN journal'
        /\ journal'[Len(journal) + 1] = [line |-> l, at |-> SavedAt, synced |-> FALSE]
    BY <1>1, <1>2
  <2>2. Pending \subseteq Pending'
    BY <2>1, JournalKept
  <2>3. l \in Pending'
    BY <2>1 DEF Pending
  <2>4. QED
    BY <1>2, <2>2, <2>3
<1>3. CASE /\ logAux.faults < MaxFaults
           /\ logAux' = [logAux EXCEPT !.faults = @ + 1, !.lost = @ \cup {l}]
           /\ UNCHANGED journal
  BY <1>1, <1>3 DEF LogCounts, Pending
<1>4. QED
  BY <1>2, <1>3 DEF SaveLog

LEMMA AgentLocates ==
  LogsTypeOK /\ LogsTypeOK' /\ Quiet /\ Arrived /\ LinesAccounted
    /\ (\/ SyncRead \/ SyncSend \/ SyncMark
        \/ OpenStream \/ CloseStream \/ StreamAgentLog
        \/ \E o \in Outputs : ScanLine(o) \/ UnreadLine(o) \/ SendLine(o) \/ BufferLine(o))
    => LinesAccounted'
<1>1. ASSUME LogsTypeOK, LinesAccounted, SyncRead \/ OpenStream \/ CloseStream
      PROVE  LinesAccounted'
  <2>1. UNCHANGED <<hand, wire, journal, logTable, logAux>>
    BY <1>1 DEF SyncRead, OpenStream, CloseStream
  <2>2. QED
    BY <1>1, <2>1 DEF LinesAccounted, LinesIn, Pending
<1>2. ASSUME LogsTypeOK, LinesAccounted, SyncSend PROVE LinesAccounted'
  <2>1. PICK e : wire' = Append(wire, e)
    BY <1>2 DEF SyncSend
  <2>2. UNCHANGED <<hand, journal, logTable, logAux>>
    BY <1>2 DEF SyncSend
  <2>3. LinesIn(wire) \subseteq LinesIn(wire')
    BY <1>2, <2>1, LinesAppended, LogTypes
  <2>4. LinesIn(logTable') = LinesIn(logTable) /\ Pending' = Pending
    BY <2>2 DEF LinesIn, Pending
  <2>5. QED
    BY <1>2, <2>2, <2>3, <2>4 DEF LinesAccounted
<1>3. ASSUME LogsTypeOK, Arrived, LinesAccounted, SyncMark PROVE LinesAccounted'
  <2>1. UNCHANGED <<hand, wire, logTable>> /\ wire = <<>>
    BY <1>3, LogTypes DEF SyncMark
  <2>2. LinesIn(wire') = LinesIn(wire) /\ LinesIn(logTable') = LinesIn(logTable)
    BY <2>1 DEF LinesIn
  <2>3. CASE /\ journal' = [i \in DOMAIN journal |->
                             [journal[i] EXCEPT !.synced = @ \/ i \in SyncedRows]]
             /\ UNCHANGED logAux
    <3>1. ASSUME NEW i \in DOMAIN journal
          PROVE  /\ i \in DOMAIN journal' /\ journal'[i].line = journal[i].line
                 /\ journal'[i].synced => journal[i].synced \/ i \in runner.sent
      <4>1. journal[i] \in JournalRow
        BY <1>3, LogTypes
      <4>2. QED
        BY <2>3, <4>1 DEF JournalRow, SyncedRows
    <3>2. ASSUME NEW l \in Pending
          PROVE  l \in Pending' \cup LinesIn(wire) \cup LinesIn(logTable) \cup logAux.lost
      <4>1. PICK i \in DOMAIN journal : ~journal[i].synced /\ journal[i].line = l
        BY DEF Pending
      <4>2. CASE i \in runner.sent
        BY <1>3, <4>1, <4>2 DEF Arrived
      <4>3. CASE i \notin runner.sent
        BY <3>1, <4>1, <4>3 DEF Pending
      <4>4. QED
        BY <4>2, <4>3
    <3>3. QED
      BY <1>3, <2>1, <2>2, <2>3, <3>2 DEF LinesAccounted
  <2>4. CASE /\ Breaks
             /\ logAux' = [logAux EXCEPT !.faults = @ + 1,
                             !.resent = @ \cup {journal[i].line : i \in runner.sent}]
             /\ UNCHANGED journal
    <3>1. logAux'.lost = logAux.lost /\ logAux'.unread = logAux.unread /\ logAux'.emitted = logAux.emitted
      BY <1>3, <2>4, LogTypes DEF LogCounts
    <3>2. Pending' = Pending
      BY <2>4 DEF Pending
    <3>3. QED
      BY <1>3, <2>1, <2>2, <3>1, <3>2 DEF LinesAccounted
  <2>5. QED
    BY <1>3, <2>3, <2>4 DEF SyncMark
<1>4. ASSUME LogsTypeOK, Quiet, LinesAccounted, StreamAgentLog PROVE LinesAccounted'
  <2>1. UNCHANGED <<hand, logTable>> /\ runner.pc = "idle" /\ NextLine <= Lines
    BY <1>4 DEF StreamAgentLog
  <2>2. wire = <<>>
    BY <1>4, <2>1, LogTypes DEF Quiet
  <2>3. LinesIn(wire) = {} /\ LinesIn(logTable') = LinesIn(logTable)
    BY <2>1, <2>2 DEF LinesIn
  <2>4. logAux \in LogCounts /\ NextLine = logAux.emitted + 1
    BY <1>4, <2>1, LogTypes, NextLineType
  <2>5. 1..logAux.emitted + 1 = 1..logAux.emitted \cup {NextLine}
    BY <2>4 DEF LogCounts
  <2>6. CASE /\ wire' = <<[line |-> NextLine, at |-> clock]>>
             /\ logAux' = [logAux EXCEPT !.emitted = @ + 1]
             /\ UNCHANGED journal
    <3>1. wire'[1].line = NextLine /\ 1 \in DOMAIN wire'
      BY <2>6
    <3>2. NextLine \in LinesIn(wire')
      BY <3>1 DEF LinesIn
    <3>3. logAux'.lost = logAux.lost /\ logAux'.unread = logAux.unread /\ logAux'.emitted = logAux.emitted + 1
      BY <2>4, <2>6 DEF LogCounts
    <3>4. Pending' = Pending
      BY <2>6 DEF Pending
    <3>5. QED
      BY <1>4, <2>1, <2>3, <2>5, <3>2, <3>3, <3>4 DEF LinesAccounted
  <2>7. CASE /\ journal' = Append(journal, [line |-> NextLine, at |-> SavedAt, synced |-> FALSE])
             /\ logAux' = [logAux EXCEPT !.emitted = @ + 1, !.faults = @ + 1]
             /\ UNCHANGED <<stream, wire>>
    <3>1. /\ DOMAIN journal \subseteq DOMAIN journal'
          /\ \A i \in DOMAIN journal : journal'[i] = journal[i]
          /\ Len(journal) + 1 \in DOMAIN journal'
          /\ journal'[Len(journal) + 1] = [line |-> NextLine, at |-> SavedAt, synced |-> FALSE]
      BY <1>4, <2>7, LogTypes
    <3>2. Pending \subseteq Pending' /\ NextLine \in Pending'
      BY <3>1 DEF Pending
    <3>3. logAux'.lost = logAux.lost /\ logAux'.unread = logAux.unread /\ logAux'.emitted = logAux.emitted + 1
      BY <2>4, <2>7 DEF LogCounts
    <3>4. LinesIn(wire') = LinesIn(wire)
      BY <2>7 DEF LinesIn
    <3>5. QED
      BY <1>4, <2>1, <2>3, <2>5, <3>2, <3>3, <3>4 DEF LinesAccounted
  <2>8. QED
    BY <1>4, <2>6, <2>7 DEF StreamAgentLog
<1>5. ASSUME LogsTypeOK, LinesAccounted, NEW o \in Outputs, ScanLine(o) PROVE LinesAccounted'
  <2>1. /\ hand' = [hand EXCEPT ![o] = [line |-> NextLine, at |-> clock]] /\ hand[o] = NoLine
        /\ logAux' = [logAux EXCEPT !.emitted = @ + 1]
        /\ UNCHANGED <<wire, journal, logTable>>
        /\ NextLine <= Lines
    BY <1>5 DEF ScanLine
  <2>2. logAux \in LogCounts /\ NextLine = logAux.emitted + 1
    BY <1>5, <2>1, LogTypes, NextLineType
  <2>3. 1..logAux.emitted + 1 = 1..logAux.emitted \cup {NextLine}
    BY <2>2 DEF LogCounts
  <2>4. logAux'.lost = logAux.lost /\ logAux'.unread = logAux.unread /\ logAux'.emitted = logAux.emitted + 1
    BY <2>1, <2>2 DEF LogCounts
  <2>5. PICK n : n = NextLine
    OBVIOUS
  <2>6. /\ hand'[o].line = n /\ hand[o].line = 0
        /\ \A p \in Outputs : p # o => hand'[p] = hand[p]
    BY <1>5, <2>1, <2>5, LogTypes DEF NoLine
  <2>7. ASSUME NEW l \in 1..logAux.emitted, l \in {hand[p].line : p \in Outputs}
        PROVE  l \in {hand'[p].line : p \in Outputs}
    BY <2>2, <2>6, <2>7 DEF LogCounts
  <2>8. LinesIn(wire') = LinesIn(wire) /\ LinesIn(logTable') = LinesIn(logTable)
        /\ Pending' = Pending
    BY <2>1 DEF LinesIn, Pending
  <2>9. \A l \in (1..logAux.emitted) \ logAux.unread : Located(l)'
    BY <1>5, <2>4, <2>7, <2>8 DEF Located, LinesAccounted
  <2>10. Located(n)'
    BY <2>6 DEF Located
  <2>11. QED
    BY <2>3, <2>4, <2>5, <2>9, <2>10 DEF Located, LinesAccounted
<1>6. ASSUME LogsTypeOK, LinesAccounted, NEW o \in Outputs, SendLine(o) PROVE LinesAccounted'
  <2>1. /\ wire' = Append(wire, hand[o]) /\ hand' = [hand EXCEPT ![o] = NoLine]
        /\ UNCHANGED <<journal, logTable, logAux>>
    BY <1>6 DEF SendLine
  <2>2. LinesIn(wire') = LinesIn(wire) \cup {hand[o].line}
    BY <1>6, <2>1, LinesAppended, LogTypes
  <2>3. \A p \in Outputs : p # o => hand'[p] = hand[p]
    BY <1>6, <2>1, LogTypes
  <2>4. LinesIn(logTable') = LinesIn(logTable) /\ Pending' = Pending
    BY <2>1 DEF LinesIn, Pending
  <2>5. QED
    BY <1>6, <2>1, <2>2, <2>3, <2>4 DEF LinesAccounted
<1>7. ASSUME LogsTypeOK, LinesAccounted, NEW o \in Outputs, BufferLine(o) PROVE LinesAccounted'
  <2>1. /\ SaveLog(hand[o].line) /\ hand' = [hand EXCEPT ![o] = NoLine] /\ hand[o] # NoLine
        /\ UNCHANGED <<wire, logTable>>
    BY <1>7 DEF BufferLine, JournalLine
  <2>2. hand[o] \in Entry
    BY <1>7, <2>1, LogTypes
  <2>3. /\ Pending \subseteq Pending' /\ logAux.lost \subseteq logAux'.lost
        /\ hand[o].line \in Pending' \cup logAux'.lost
        /\ logAux'.emitted = logAux.emitted /\ logAux'.unread = logAux.unread
    <3>1. hand[o].line \in 1..Lines
      BY <2>2 DEF Entry
    <3>2. QED
      BY <1>7, <2>1, <3>1, SaveLogKeeps
  <2>4. \A p \in Outputs : p # o => hand'[p] = hand[p]
    BY <1>7, <2>1, LogTypes
  <2>5. LinesIn(wire') = LinesIn(wire) /\ LinesIn(logTable') = LinesIn(logTable)
    BY <2>1 DEF LinesIn
  <2>6. QED
    BY <1>7, <2>3, <2>4, <2>5 DEF LinesAccounted
<1>8. ASSUME LogsTypeOK, LinesAccounted, NEW o \in Outputs, UnreadLine(o) PROVE LinesAccounted'
  <2>1. /\ LinesIn(wire') = LinesIn(wire) /\ LinesIn(logTable') = LinesIn(logTable)
        /\ Pending' = Pending /\ hand' = hand /\ logAux'.lost = logAux.lost
    BY <1>8, UnreadFrame DEF LinesIn, Pending
  <2>2. /\ logAux'.emitted = logAux.emitted + 1
        /\ logAux'.unread = logAux.unread \cup {logAux.emitted + 1}
    BY <1>8, UnreadFrame
  <2>3. logAux.emitted \in Nat
    BY <1>8, LogTypes DEF LogCounts
  <2>4. (1..logAux'.emitted) \ logAux'.unread \subseteq (1..logAux.emitted) \ logAux.unread
    BY <2>2, <2>3
  <2>5. QED
    BY <1>8, <2>1, <2>4 DEF LinesAccounted
<1>9. QED
  BY <1>1, <1>2, <1>3, <1>4, <1>5, <1>6, <1>7, <1>8

LEMMA OtherLocates ==
  LogsTypeOK /\ LinesAccounted
    /\ (\/ InsertTaskLog \/ StreamBreaks \/ AgentRestarts
        \/ StartReading \/ HandleListLogs \/ HandleDownloadLogs
        \/ Tick \/ UNCHANGED logVars)
    => LinesAccounted'
<1>1. ASSUME LogsTypeOK, LinesAccounted, InsertTaskLog PROVE LinesAccounted'
  <2>1. /\ wire # <<>> /\ logTable' = Append(logTable, Head(wire)) /\ wire' = Tail(wire)
        /\ UNCHANGED <<hand, journal, logAux>>
    BY <1>1 DEF InsertTaskLog
  <2>2. LinesIn(wire) = {Head(wire).line} \cup LinesIn(wire')
    BY <1>1, <2>1, LinesTail, LogTypes
  <2>3. LinesIn(logTable') = LinesIn(logTable) \cup {Head(wire).line}
    BY <1>1, <2>1, LinesAppended, LogTypes
  <2>4. Pending' = Pending
    BY <2>1 DEF Pending
  <2>5. QED
    BY <1>1, <2>1, <2>2, <2>3, <2>4 DEF LinesAccounted
<1>2. ASSUME LogsTypeOK, LinesAccounted, StreamBreaks PROVE LinesAccounted'
  <2>1. /\ logAux' = [logAux EXCEPT !.faults = @ + 1, !.lost = @ \cup LinesIn(wire)]
        /\ UNCHANGED <<hand, journal, logTable>>
    BY <1>2 DEF StreamBreaks
  <2>2. logAux'.lost = logAux.lost \cup LinesIn(wire) /\ logAux'.emitted = logAux.emitted
        /\ logAux'.unread = logAux.unread
    BY <1>2, <2>1, LogTypes DEF LogCounts
  <2>3. LinesIn(logTable') = LinesIn(logTable) /\ Pending' = Pending
    BY <2>1 DEF LinesIn, Pending
  <2>4. QED
    BY <1>2, <2>1, <2>2, <2>3 DEF LinesAccounted
<1>3. ASSUME LogsTypeOK, LinesAccounted, AgentRestarts PROVE LinesAccounted'
  <2>1. /\ logAux' = [logAux EXCEPT !.faults = @ + 1,
             !.lost = @ \cup LinesIn(wire) \cup ({hand[o].line : o \in Outputs} \ {0}),
             !.resent = @ \cup {journal[i].line : i \in runner.sent}]
        /\ UNCHANGED <<journal, logTable>>
    BY <1>3 DEF AgentRestarts
  <2>2. /\ logAux'.lost = logAux.lost \cup LinesIn(wire) \cup ({hand[o].line : o \in Outputs} \ {0})
        /\ logAux'.emitted = logAux.emitted /\ logAux'.unread = logAux.unread
    BY <1>3, <2>1, LogTypes DEF LogCounts
  <2>3. LinesIn(logTable') = LinesIn(logTable) /\ Pending' = Pending
    BY <2>1 DEF LinesIn, Pending
  <2>4. 0 \notin 1..logAux.emitted
    OBVIOUS
  <2>5. QED
    BY <1>3, <2>2, <2>3, <2>4 DEF LinesAccounted
<1>4. ASSUME LinesAccounted, \/ StartReading \/ HandleListLogs \/ HandleDownloadLogs
                             \/ Tick \/ UNCHANGED logVars
      PROVE  LinesAccounted'
  <2>1. UNCHANGED <<hand, wire, journal, logTable, logAux>>
    BY <1>4 DEF StartReading, HandleListLogs, HandleDownloadLogs, Tick, logVars
  <2>2. QED
    BY <1>4, <2>1 DEF LinesAccounted, LinesIn, Pending
<1>5. QED
  BY <1>1, <1>2, <1>3, <1>4

\* What the replay has sent goes the way of the other entries.
LEMMA ArrivedStep ==
  LogsTypeOK /\ Quiet /\ Arrived /\ [LogsNext]_logVars => Arrived'
<1>1. ASSUME LogsTypeOK, Arrived, SyncRead \/ OpenStream \/ CloseStream PROVE Arrived'
  <2>1. UNCHANGED <<wire, journal, logTable, logAux>> /\ runner'.sent = runner.sent
    BY <1>1, LogTypes DEF SyncRead, OpenStream, CloseStream, RunnerStates
  <2>2. QED
    BY <1>1, <2>1 DEF Arrived, LinesIn
<1>2. ASSUME LogsTypeOK, Arrived, SyncSend PROVE Arrived'
  <2> DEFINE i == Head(runner.todo)
  <2>1. /\ wire' = Append(wire, [line |-> journal[i].line, at |-> journal[i].at])
        /\ runner' = [runner EXCEPT !.todo = Tail(@), !.sent = @ \cup {i}]
        /\ UNCHANGED <<journal, logTable, logAux>>
    BY <1>2 DEF SyncSend
  <2> HIDE DEF i
  <2>2. LinesIn(wire') = LinesIn(wire) \cup {journal[i].line}
    BY <1>2, <2>1, LinesAppended, LogTypes
  <2>3. runner'.sent = runner.sent \cup {i}
    BY <1>2, <2>1, LogTypes DEF RunnerStates
  <2>4. LinesIn(logTable') = LinesIn(logTable)
    BY <2>1 DEF LinesIn
  <2>5. QED
    BY <1>2, <2>1, <2>2, <2>3, <2>4 DEF Arrived
<1>3. ASSUME SyncMark \/ AgentRestarts PROVE Arrived'
  BY <1>3 DEF SyncMark, AgentRestarts, Arrived
<1>4. ASSUME LogsTypeOK, Quiet, StreamAgentLog PROVE Arrived'
  <2>1. runner.sent = {} /\ runner'.sent = runner.sent
    BY <1>4, LogTypes DEF StreamAgentLog, Quiet, RunnerStates
  <2>2. QED
    BY <2>1 DEF Arrived
<1>5. ASSUME LogsTypeOK, Quiet, NEW o \in Outputs, ScanLine(o) PROVE Arrived'
  <2>1. runner.sent = {} /\ runner'.sent = runner.sent
    BY <1>5, LogTypes DEF ScanLine, Quiet
  <2>2. QED
    BY <2>1 DEF Arrived
<1>12. ASSUME LogsTypeOK, Arrived, NEW o \in Outputs, UnreadLine(o) PROVE Arrived'
  BY <1>12, UnreadFrame DEF Arrived, LinesIn
<1>6. ASSUME LogsTypeOK, Arrived, NEW o \in Outputs, SendLine(o) PROVE Arrived'
  <2>1. wire' = Append(wire, hand[o]) /\ UNCHANGED <<runner, journal, logTable, logAux>>
    BY <1>6 DEF SendLine
  <2>2. LinesIn(wire') = LinesIn(wire) \cup {hand[o].line}
    BY <1>6, <2>1, LinesAppended, LogTypes
  <2>3. LinesIn(logTable') = LinesIn(logTable)
    BY <2>1 DEF LinesIn
  <2>4. QED
    BY <1>6, <2>1, <2>2, <2>3 DEF Arrived
<1>7. ASSUME LogsTypeOK, Arrived, NEW o \in Outputs, BufferLine(o) PROVE Arrived'
  <2>1. /\ SaveLog(hand[o].line) /\ hand[o] # NoLine
        /\ UNCHANGED <<runner, wire, logTable>>
    BY <1>7 DEF BufferLine, JournalLine
  <2>2. hand[o] \in Entry
    BY <1>7, <2>1, LogTypes
  <2>3. hand[o].line \in 1..Lines
    BY <2>2 DEF Entry
  <2>4. /\ \A i \in DOMAIN journal : journal'[i] = journal[i]
        /\ logAux.lost \subseteq logAux'.lost
    BY <1>7, <2>1, <2>3, SaveLogType, SaveLogKeeps
  <2>5. LinesIn(wire') = LinesIn(wire) /\ LinesIn(logTable') = LinesIn(logTable)
    BY <2>1 DEF LinesIn
  <2>6. runner.sent \subseteq DOMAIN journal
    BY <1>7, LogTypes
  <2>7. QED
    BY <1>7, <2>1, <2>4, <2>5, <2>6 DEF Arrived
<1>8. ASSUME LogsTypeOK, Arrived, InsertTaskLog PROVE Arrived'
  <2>1. /\ wire # <<>> /\ logTable' = Append(logTable, Head(wire)) /\ wire' = Tail(wire)
        /\ UNCHANGED <<runner, journal, logAux>>
    BY <1>8 DEF InsertTaskLog
  <2>2. LinesIn(wire) = {Head(wire).line} \cup LinesIn(wire')
    BY <1>8, <2>1, LinesTail, LogTypes
  <2>3. LinesIn(logTable') = LinesIn(logTable) \cup {Head(wire).line}
    BY <1>8, <2>1, LinesAppended, LogTypes
  <2>4. QED
    BY <1>8, <2>1, <2>2, <2>3 DEF Arrived
<1>9. ASSUME LogsTypeOK, Arrived, StreamBreaks PROVE Arrived'
  <2>1. /\ logAux' = [logAux EXCEPT !.faults = @ + 1, !.lost = @ \cup LinesIn(wire)]
        /\ UNCHANGED <<runner, journal, logTable>>
    BY <1>9 DEF StreamBreaks
  <2>2. logAux'.lost = logAux.lost \cup LinesIn(wire)
    BY <1>9, <2>1, LogTypes DEF LogCounts
  <2>3. LinesIn(logTable') = LinesIn(logTable)
    BY <2>1 DEF LinesIn
  <2>4. QED
    BY <1>9, <2>1, <2>2, <2>3 DEF Arrived
<1>10. ASSUME Arrived, \/ StartReading \/ HandleListLogs \/ HandleDownloadLogs
                       \/ Tick \/ UNCHANGED logVars
      PROVE  Arrived'
  <2>1. UNCHANGED <<runner, wire, journal, logTable, logAux>>
    BY <1>10 DEF StartReading, HandleListLogs, HandleDownloadLogs, Tick, logVars
  <2>2. QED
    BY <1>10, <2>1 DEF Arrived, LinesIn
<1>11. QED
  BY <1>1, <1>2, <1>3, <1>4, <1>5, <1>6, <1>7, <1>8, <1>9, <1>10, <1>12 DEF LogsNext

LogsIInv == LogsTypeOK /\ Quiet /\ Arrived /\ LinesAccounted

LEMMA LogsIInvStep == LogsIInv /\ [LogsNext]_logVars => LogsIInv'
<1> SUFFICES ASSUME LogsIInv, [LogsNext]_logVars PROVE LogsIInv'
  OBVIOUS
<1>1. LogsTypeOK' /\ Quiet' /\ Arrived'
  BY LogTypesStep, ArrivedStep DEF LogsIInv
<1>2. LinesAccounted'
  BY <1>1, AgentLocates, OtherLocates DEF LogsIInv, LogsNext
<1>3. QED
  BY <1>1, <1>2 DEF LogsIInv

LEMMA LogsIInvInit == LogsInit => LogsIInv
<1> SUFFICES ASSUME LogsInit PROVE LogsIInv
  OBVIOUS
<1>1. Quiet /\ Arrived /\ LinesAccounted
  BY LogsAssumption DEF LogsInit, Quiet, Arrived, LinesAccounted
<1>2. QED
  BY <1>1, LogTypesInit DEF LogsIInv

--------------------------------------------------------------------------------
(***************************************************************************)
(* LinesOnce, likewise, needs that a line is nowhere before it is read,    *)
(* that it has one place at a time, and that a replay sends a row once.    *)
(***************************************************************************)

Held == {hand[o].line : o \in Outputs}
Waiting == {i \in DOMAIN journal : ~journal[i].synced /\ i \notin runner.sent}
WaitingLines == {journal[i].line : i \in Waiting}

FreshLines ==
  Held \cup LinesIn(wire) \cup LinesIn(logTable) \cup LinesIn(journal) \subseteq 0..logAux.emitted

ToSend ==
  /\ \A j \in DOMAIN runner.todo : runner.todo[j] \in Waiting
  /\ \A j, k \in DOMAIN runner.todo : j # k => runner.todo[j] # runner.todo[k]

OneOf(s, l) == \A i, j \in DOMAIN s : s[i].line = l /\ s[j].line = l => i = j

OnePlace(l) ==
  /\ \A o, p \in Outputs : hand[o].line = l /\ hand[p].line = l => o = p
  /\ OneOf(wire, l) /\ OneOf(logTable, l)
  /\ \A i, j \in Waiting : journal[i].line = l /\ journal[j].line = l => i = j
  /\ l \in Held => l \notin LinesIn(wire) \cup LinesIn(logTable) \cup WaitingLines
  /\ l \in LinesIn(wire) => l \notin LinesIn(logTable) \cup WaitingLines
  /\ l \in LinesIn(logTable) => l \notin WaitingLines

LinesApart == \A l \in (1..Lines) \ logAux.resent : OnePlace(l)

LEMMA OneOfAppended ==
  ASSUME NEW S, NEW s \in Seq(S), NEW e, NEW l, OneOf(s, l), e.line = l => l \notin LinesIn(s)
  PROVE  OneOf(Append(s, e), l)
<1>1. /\ Len(s) \in Nat
      /\ DOMAIN Append(s, e) = 1..Len(s) + 1 /\ DOMAIN s = 1..Len(s)
      /\ \A i \in 1..Len(s) : Append(s, e)[i] = s[i]
      /\ Append(s, e)[Len(s) + 1] = e
  OBVIOUS
<1>2. SUFFICES ASSUME NEW i \in 1..Len(s) + 1, NEW j \in 1..Len(s) + 1,
                      Append(s, e)[i].line = l, Append(s, e)[j].line = l
               PROVE  i = j
  BY <1>1 DEF OneOf
<1>3. CASE i \in 1..Len(s) /\ j \in 1..Len(s)
  BY <1>1, <1>2, <1>3 DEF OneOf
<1>4. CASE i = Len(s) + 1 /\ j # i
  BY <1>1, <1>2, <1>4 DEF LinesIn
<1>5. CASE j = Len(s) + 1 /\ j # i
  BY <1>1, <1>2, <1>5 DEF LinesIn
<1>6. QED
  BY <1>1, <1>3, <1>4, <1>5

LEMMA OneOfTail ==
  ASSUME NEW S, NEW s \in Seq(S), s # <<>>, NEW l, OneOf(s, l)
  PROVE  OneOf(Tail(s), l) /\ (Head(s).line = l => l \notin LinesIn(Tail(s)))
<1>1. /\ Len(s) \in Nat \ {0} /\ Head(s) = s[1]
      /\ DOMAIN s = 1..Len(s) /\ DOMAIN Tail(s) = 1..Len(s) - 1
      /\ \A i \in 1..Len(s) - 1 : Tail(s)[i] = s[i + 1]
  BY HeadTailProperties
<1>2. ASSUME NEW i \in 1..Len(s) - 1
      PROVE  i + 1 \in 1..Len(s) /\ i + 1 # 1 /\ Tail(s)[i] = s[i + 1]
  BY <1>1
<1>3. ASSUME NEW i \in 1..Len(s) - 1, NEW j \in 1..Len(s) - 1,
             Tail(s)[i].line = l, Tail(s)[j].line = l
      PROVE  i = j
  <2>1. i + 1 = j + 1
    BY <1>1, <1>2, <1>3 DEF OneOf
  <2>2. QED
    BY <2>1
<1>4. ASSUME Head(s).line = l, NEW i \in 1..Len(s) - 1, Tail(s)[i].line = l PROVE FALSE
  <2>1. 1 \in 1..Len(s)
    BY <1>1
  <2>2. QED
    BY <1>1, <1>2, <1>4, <2>1 DEF OneOf
<1>5. QED
  BY <1>1, <1>3, <1>4 DEF OneOf, LinesIn

LEMMA ApartOnce == LogsTypeOK /\ LinesApart => LinesOnce
<1> SUFFICES ASSUME LogsTypeOK, LinesApart, NEW l \in (1..logAux.emitted) \ logAux.resent
             PROVE  Cardinality({i \in DOMAIN logTable : logTable[i].line = l})
                      + Cardinality({i \in DOMAIN wire : wire[i].line = l})
                      + Cardinality({i \in DOMAIN journal :
                                       /\ journal[i].line = l /\ ~journal[i].synced
                                       /\ i \notin runner.sent}) <= 1
  BY DEF LinesOnce
<1> DEFINE A == {i \in DOMAIN logTable : logTable[i].line = l}
           B == {i \in DOMAIN wire : wire[i].line = l}
           C == {i \in DOMAIN journal : /\ journal[i].line = l /\ ~journal[i].synced
                                        /\ i \notin runner.sent}
<1>1. OnePlace(l)
  <2>1. l \in 1..Lines
    BY LogTypes, LogsAssumption DEF LogCounts
  <2>2. QED
    BY <2>1 DEF LinesApart
<1>2. /\ \A x, y \in A : x = y
      /\ \A x, y \in B : x = y
      /\ \A x, y \in C : x = y
  BY <1>1 DEF OnePlace, OneOf, Waiting
<1>3. (A = {} /\ B = {}) \/ (A = {} /\ C = {}) \/ (B = {} /\ C = {})
  BY <1>1 DEF OnePlace, LinesIn, Waiting, WaitingLines
<1> HIDE DEF A, B, C
<1>4. /\ Cardinality(A) \in {0, 1} /\ (A = {} => Cardinality(A) = 0)
      /\ Cardinality(B) \in {0, 1} /\ (B = {} => Cardinality(B) = 0)
      /\ Cardinality(C) \in {0, 1} /\ (C = {} => Cardinality(C) = 0)
  BY <1>2, AtMostOne
<1>5. Cardinality(A) + Cardinality(B) + Cardinality(C) <= 1
  BY <1>3, <1>4
<1>6. QED
  BY <1>5 DEF A, B, C

\* A line that goes nowhere stays in one place.
LEMMA OnePlaceKept ==
  ASSUME NEW l, OnePlace(l),
         \A o \in Outputs : hand'[o].line = l => hand[o].line = l,
         OneOf(wire', l), OneOf(logTable', l),
         l \in LinesIn(wire') => l \in LinesIn(wire),
         l \in LinesIn(logTable') => l \in LinesIn(logTable),
         \A i \in Waiting' : journal'[i].line = l => i \in Waiting /\ journal[i].line = l
  PROVE  OnePlace(l)'
<1>1. /\ l \in Held' => l \in Held
      /\ l \in WaitingLines' => l \in WaitingLines
  BY DEF Held, WaitingLines
<1>2. \A o, p \in Outputs : hand'[o].line = l /\ hand'[p].line = l => o = p
  BY DEF OnePlace
<1>3. \A i, j \in Waiting' : journal'[i].line = l /\ journal'[j].line = l => i = j
  BY DEF OnePlace
<1>4. QED
  BY <1>1, <1>2, <1>3 DEF OnePlace

\* The lines after the last one that was read are nowhere.
LEMMA NewLine ==
  ASSUME LogsTypeOK, FreshLines, NextLine <= Lines
  PROVE  /\ NextLine \in 1..Lines /\ logAux.emitted + 1 = NextLine
         /\ NextLine \notin Held \cup LinesIn(wire) \cup LinesIn(logTable) \cup LinesIn(journal)
         /\ NextLine \notin WaitingLines
<1>1. NextLine \in 1..Lines /\ NextLine = logAux.emitted + 1 /\ logAux.emitted \in Nat
  BY NextLineType, LogTypes DEF LogCounts
<1>2. NextLine \notin 0..logAux.emitted
  BY <1>1
<1>3. WaitingLines \subseteq LinesIn(journal)
  BY DEF WaitingLines, Waiting, LinesIn
<1>4. QED
  BY <1>1, <1>2, <1>3 DEF FreshLines

LEMMA SyncSendApart ==
  ASSUME LogsTypeOK, ToSend, LinesApart, SyncSend PROVE LinesApart' /\ ToSend'
<1> DEFINE i == Head(runner.todo)
           x == journal[i].line
<1>1. /\ wire' = Append(wire, [line |-> x, at |-> journal[i].at])
      /\ runner' = [runner EXCEPT !.todo = Tail(@), !.sent = @ \cup {i}]
      /\ runner.todo # <<>>
      /\ UNCHANGED <<hand, journal, logTable, logAux>>
  BY DEF SyncSend
<1>2. runner.todo \in Seq(Nat) /\ wire \in Seq(Entry)
  BY LogTypes DEF RunnerStates
<1>3. i = runner.todo[1] /\ 1 \in DOMAIN runner.todo /\ i \in Waiting
  BY <1>1, <1>2 DEF ToSend
<1>4. /\ runner'.todo = Tail(runner.todo) /\ runner'.sent = runner.sent \cup {i}
  BY <1>1, LogTypes DEF RunnerStates
<1>5. Waiting' = Waiting \ {i}
  BY <1>1, <1>4 DEF Waiting
<1> HIDE DEF i
<1>6. ASSUME NEW l \in (1..Lines) \ logAux.resent PROVE OnePlace(l)'
  <2>1. OnePlace(l)
    BY <1>6 DEF LinesApart
  <2>2. CASE l # x
    <3>1. OneOf(wire', l) /\ (l \in LinesIn(wire') => l \in LinesIn(wire))
      BY <1>1, <1>2, <2>1, <2>2, OneOfAppended, LinesAppended DEF OnePlace
    <3>2. QED
      BY <1>1, <1>5, <2>1, <3>1, OnePlaceKept DEF OnePlace
  <2>3. CASE l = x
    <3>1. l \in WaitingLines
      BY <1>3, <2>3 DEF WaitingLines
    <3>2. l \notin Held /\ l \notin LinesIn(wire) /\ l \notin LinesIn(logTable)
      BY <2>1, <3>1 DEF OnePlace
    <3>3. l \notin WaitingLines'
      BY <1>1, <1>3, <1>5, <2>1, <2>3 DEF OnePlace, WaitingLines
    <3>4. OneOf(wire', l)
      BY <1>1, <1>2, <2>1, <3>2, OneOfAppended DEF OnePlace
    <3>5. l \notin Held' /\ l \notin LinesIn(logTable') /\ OneOf(logTable', l)
      BY <1>1, <2>1, <3>2 DEF Held, LinesIn, OnePlace
    <3>6. QED
      BY <1>1, <1>5, <2>1, <3>3, <3>4, <3>5 DEF OnePlace
  <2>4. QED
    BY <2>2, <2>3
<1>7. LinesApart'
  BY <1>1, <1>6 DEF LinesApart
<1>8. /\ Len(runner.todo) \in Nat \ {0} /\ DOMAIN runner.todo = 1..Len(runner.todo)
      /\ DOMAIN runner'.todo = 1..Len(runner.todo) - 1
      /\ \A j \in 1..Len(runner.todo) - 1 : runner'.todo[j] = runner.todo[j + 1]
  BY <1>1, <1>2, <1>4, HeadTailProperties
<1>9. ASSUME NEW j \in 1..Len(runner.todo) - 1
      PROVE  /\ j + 1 \in 1..Len(runner.todo) /\ j + 1 # 1
             /\ runner'.todo[j] = runner.todo[j + 1]
  BY <1>8
<1>10. ASSUME NEW j \in 1..Len(runner.todo) - 1 PROVE runner'.todo[j] \in Waiting'
  BY <1>3, <1>5, <1>8, <1>9 DEF ToSend
<1>11. ASSUME NEW j \in 1..Len(runner.todo) - 1, NEW k \in 1..Len(runner.todo) - 1, j # k
       PROVE  runner'.todo[j] # runner'.todo[k]
  <2>1. j + 1 # k + 1
    BY <1>11
  <2>2. QED
    BY <1>8, <1>9, <2>1 DEF ToSend
<1>12. ToSend'
  BY <1>8, <1>10, <1>11 DEF ToSend
<1>13. QED
  BY <1>7, <1>12

LEMMA SyncMarkApart ==
  ASSUME LogsTypeOK, LinesApart, SyncMark PROVE LinesApart' /\ ToSend'
<1>1. /\ runner' = [pc |-> "idle", todo |-> <<>>, sent |-> {}, stopped |-> {}]
      /\ UNCHANGED <<hand, wire, logTable>>
  BY DEF SyncMark
<1>2. ToSend'
  BY <1>1 DEF ToSend
<1>3. ASSUME NEW l \in (1..Lines) \ logAux'.resent
      PROVE  /\ l \notin logAux.resent
             /\ \A i \in Waiting' : journal'[i].line = l => i \in Waiting /\ journal[i].line = l
  <2>1. CASE /\ journal' = [i \in DOMAIN journal |->
                             [journal[i] EXCEPT !.synced = @ \/ i \in SyncedRows]]
             /\ UNCHANGED logAux
    <3>1. ASSUME NEW i \in DOMAIN journal
          PROVE  /\ i \in DOMAIN journal' /\ journal'[i].line = journal[i].line
                 /\ ~journal'[i].synced => ~journal[i].synced /\ i \notin runner.sent
      <4>1. journal[i] \in JournalRow
        BY LogTypes
      <4>2. QED
        BY <2>1, <4>1 DEF JournalRow, SyncedRows
    <3>2. DOMAIN journal' = DOMAIN journal
      BY <2>1
    <3>3. QED
      BY <1>3, <2>1, <3>1, <3>2 DEF Waiting
  <2>2. CASE /\ logAux' = [logAux EXCEPT !.faults = @ + 1,
                             !.resent = @ \cup {journal[i].line : i \in runner.sent}]
             /\ UNCHANGED journal
    <3>1. logAux'.resent = logAux.resent \cup {journal[i].line : i \in runner.sent}
      BY <2>2, LogTypes DEF LogCounts
    <3>2. QED
      BY <1>3, <2>2, <3>1 DEF Waiting
  <2>3. QED
    BY <2>1, <2>2 DEF SyncMark
<1>4. ASSUME NEW l \in (1..Lines) \ logAux'.resent PROVE OnePlace(l)'
  BY <1>1, <1>3, OnePlaceKept DEF LinesApart, OnePlace
<1>5. QED
  BY <1>2, <1>4 DEF LinesApart

\* The rows to replay stay so while the runner does not replay.
LEMMA ToSendKept ==
  ASSUME ToSend, runner'.todo = runner.todo, Waiting \subseteq Waiting'
  PROVE  ToSend'
  BY DEF ToSend

LEMMA UnmovedApart ==
  ASSUME LogsTypeOK, LinesApart, ToSend,
         \/ OpenStream \/ CloseStream \/ \E o \in Outputs : UnreadLine(o)
         \/ StartReading \/ HandleListLogs \/ HandleDownloadLogs \/ Tick \/ UNCHANGED logVars
  PROVE  LinesApart' /\ ToSend'
<1>1. /\ UNCHANGED <<hand, wire, journal, logTable>> /\ logAux'.resent = logAux.resent
      /\ runner'.todo = runner.todo /\ runner'.sent = runner.sent
  <2>4. CASE \E o \in Outputs : UnreadLine(o)
    BY <2>4, UnreadFrame
  <2>1. CASE OpenStream \/ CloseStream
    BY <2>1, LogTypes DEF OpenStream, CloseStream, RunnerStates
  <2>2. CASE StartReading \/ HandleListLogs \/ HandleDownloadLogs \/ Tick \/ UNCHANGED logVars
    BY <2>2 DEF StartReading, HandleListLogs, HandleDownloadLogs, Tick, logVars
  <2>3. QED
    BY <2>1, <2>2, <2>4
<1>2. Waiting' = Waiting
  BY <1>1 DEF Waiting
<1>3. ASSUME NEW l, OnePlace(l) PROVE OnePlace(l)'
  BY <1>1, <1>2, <1>3, OnePlaceKept DEF OnePlace
<1>4. QED
  BY <1>1, <1>2, <1>3, ToSendKept DEF LinesApart

LEMMA SyncReadApart ==
  ASSUME LogsTypeOK, Quiet, LinesApart, ToSend, SyncRead PROVE LinesApart' /\ ToSend'
<1>1. /\ UNCHANGED <<hand, wire, journal, logTable, logAux>>
      /\ runner'.sent = runner.sent
      /\ runner'.todo = runner.todo \/ runner'.todo = PendingLogs
  BY LogTypes DEF SyncRead, RunnerStates
<1>2. Waiting' = Waiting
  BY <1>1 DEF Waiting
<1>3. ASSUME NEW l, OnePlace(l) PROVE OnePlace(l)'
  BY <1>1, <1>2, <1>3, OnePlaceKept DEF OnePlace
<1>4. CASE runner'.todo = runner.todo
  BY <1>1, <1>2, <1>3, <1>4, ToSendKept DEF LinesApart
<1>5. CASE runner'.todo = PendingLogs
  <2>1. runner.sent = {}
    BY DEF SyncRead, Quiet
  <2>2. Unsynced = Waiting'
    BY <1>2, <2>1 DEF Unsynced, Waiting
  <2>3. ToSend'
    BY <1>5, <2>2, PendingRows DEF ToSend
  <2>4. QED
    BY <1>1, <1>3, <2>3 DEF LinesApart
<1>6. QED
  BY <1>1, <1>4, <1>5

LEMMA ScanLineApart ==
  ASSUME LogsTypeOK, FreshLines, LinesApart, ToSend, NEW o \in Outputs, ScanLine(o)
  PROVE  LinesApart' /\ ToSend'
<1>1. /\ hand' = [hand EXCEPT ![o] = [line |-> NextLine, at |-> clock]] /\ hand[o] = NoLine
      /\ logAux' = [logAux EXCEPT !.emitted = @ + 1] /\ NextLine <= Lines
      /\ UNCHANGED <<runner, wire, journal, logTable>>
  BY DEF ScanLine
<1>2. PICK x : x = NextLine
  OBVIOUS
<1>3. /\ hand'[o].line = x /\ hand[o].line = 0
      /\ \A p \in Outputs : p # o => hand'[p] = hand[p]
  BY <1>1, <1>2, LogTypes DEF NoLine
<1>4. x \notin Held \cup LinesIn(wire) \cup LinesIn(logTable) \cup WaitingLines
  BY <1>1, <1>2, NewLine
<1>5. logAux'.resent = logAux.resent
  BY <1>1, LogTypes DEF LogCounts
<1>6. Waiting' = Waiting
  BY <1>1 DEF Waiting
<1>7. ASSUME NEW l \in (1..Lines) \ logAux.resent PROVE OnePlace(l)'
  <2>1. OnePlace(l)
    BY <1>7 DEF LinesApart
  <2>2. CASE l # x
    BY <1>1, <1>3, <1>6, <2>1, <2>2, OnePlaceKept DEF OnePlace
  <2>3. CASE l = x
    <3>1. \A p \in Outputs : hand'[p].line = l => p = o
      BY <1>3, <1>4, <2>3 DEF Held
    <3>2. l \notin LinesIn(wire') \cup LinesIn(logTable') \cup WaitingLines'
      BY <1>1, <1>4, <1>6, <2>3 DEF LinesIn, WaitingLines
    <3>3. \A i, j \in Waiting' : journal'[i].line = l /\ journal'[j].line = l => i = j
      BY <1>1, <1>6, <2>1 DEF OnePlace
    <3>4. QED
      BY <1>1, <2>1, <3>1, <3>2, <3>3 DEF OnePlace
  <2>4. QED
    BY <2>2, <2>3
<1>8. QED
  BY <1>1, <1>5, <1>6, <1>7, ToSendKept DEF LinesApart

LEMMA SendLineApart ==
  ASSUME LogsTypeOK, LinesApart, ToSend, NEW o \in Outputs, SendLine(o)
  PROVE  LinesApart' /\ ToSend'
<1>1. /\ wire' = Append(wire, hand[o]) /\ hand' = [hand EXCEPT ![o] = NoLine]
      /\ UNCHANGED <<runner, journal, logTable, logAux>>
  BY DEF SendLine
<1>2. /\ hand'[o].line = 0 /\ \A p \in Outputs : p # o => hand'[p] = hand[p]
      /\ wire \in Seq(Entry)
  BY <1>1, LogTypes DEF NoLine
<1>3. Waiting' = Waiting
  BY <1>1 DEF Waiting
<1>4. ASSUME NEW l \in (1..Lines) \ logAux.resent PROVE OnePlace(l)'
  <2>1. OnePlace(l) /\ l # 0
    BY <1>4 DEF LinesApart
  <2>2. CASE l # hand[o].line
    <3>1. OneOf(wire', l) /\ (l \in LinesIn(wire') => l \in LinesIn(wire))
      BY <1>1, <1>2, <2>1, <2>2, OneOfAppended, LinesAppended DEF OnePlace
    <3>2. QED
      BY <1>1, <1>2, <1>3, <2>1, <3>1, OnePlaceKept DEF OnePlace
  <2>3. CASE l = hand[o].line
    <3>1. l \notin LinesIn(wire) \cup LinesIn(logTable) \cup WaitingLines
      BY <2>1, <2>3 DEF OnePlace, Held
    <3>2. OneOf(wire', l)
      BY <1>1, <1>2, <2>1, <3>1, OneOfAppended DEF OnePlace
    <3>3. l \notin Held'
      BY <1>2, <2>1, <2>3 DEF OnePlace, Held
    <3>4. l \notin LinesIn(logTable') \cup WaitingLines'
      BY <1>1, <1>3, <3>1 DEF LinesIn, WaitingLines
    <3>5. /\ \A i, j \in Waiting' : journal'[i].line = l /\ journal'[j].line = l => i = j
          /\ \A p, q \in Outputs : hand'[p].line = l /\ hand'[q].line = l => p = q
      BY <1>1, <1>3, <2>1, <3>3 DEF OnePlace, Held
    <3>6. QED
      BY <1>1, <2>1, <3>2, <3>3, <3>4, <3>5 DEF OnePlace
  <2>4. QED
    BY <2>2, <2>3
<1>5. QED
  BY <1>1, <1>3, <1>4, ToSendKept DEF LinesApart

\* A row added to the journal is the one place of its line.
LEMMA AddedApart ==
  ASSUME LogsTypeOK, LinesApart, ToSend,
         NEW x, NEW at,
         journal' = Append(journal, [line |-> x, at |-> at, synced |-> FALSE]),
         UNCHANGED <<wire, logTable>>,
         runner'.todo = runner.todo, runner'.sent = runner.sent,
         logAux'.resent = logAux.resent,
         \A o \in Outputs : hand'[o].line = hand[o].line \/ hand'[o].line = 0,
         \/ x \in logAux.resent
         \/ /\ \A o \in Outputs : hand'[o].line # x
            /\ x \notin LinesIn(wire) \cup LinesIn(logTable) \cup WaitingLines
  PROVE  LinesApart' /\ ToSend'
<1>1. /\ Len(journal) \in Nat /\ DOMAIN journal = 1..Len(journal)
      /\ DOMAIN journal' = 1..Len(journal) + 1
      /\ \A i \in 1..Len(journal) : journal'[i] = journal[i]
      /\ journal'[Len(journal) + 1] = [line |-> x, at |-> at, synced |-> FALSE]
      /\ runner.sent \subseteq DOMAIN journal
  BY LogTypes
<1>2. PICK n \in Nat : n = Len(journal) + 1
  BY <1>1
<1>3. Waiting' = Waiting \cup {n} /\ n \notin Waiting
  BY <1>1, <1>2 DEF Waiting
<1>4. \A i \in Waiting : journal'[i] = journal[i]
  BY <1>1 DEF Waiting
<1>5. journal'[n].line = x
  BY <1>1, <1>2
<1>6. ASSUME NEW l \in (1..Lines) \ logAux.resent PROVE OnePlace(l)'
  <2>1. OnePlace(l) /\ l # 0
    BY <1>6 DEF LinesApart
  <2>2. CASE l # x
    <3>1. \A i \in Waiting' : journal'[i].line = l => i \in Waiting /\ journal[i].line = l
      BY <1>3, <1>4, <1>5, <2>2
    <3>2. \A o \in Outputs : hand'[o].line = l => hand[o].line = l
      BY <2>1
    <3>3. OneOf(wire', l) /\ OneOf(logTable', l) /\ wire' = wire /\ logTable' = logTable
      BY <2>1 DEF OnePlace
    <3>4. QED
      BY <2>1, <3>1, <3>2, <3>3, OnePlaceKept
  <2>3. CASE l = x
    <3>1. l \notin LinesIn(wire') \cup LinesIn(logTable') \cup WaitingLines
      BY <1>6, <2>3 DEF LinesIn
    <3>2. l \notin Held'
      BY <2>1, <2>3 DEF Held
    <3>3. \A i \in Waiting' : journal'[i].line = l => i = n
      BY <1>3, <1>4, <3>1 DEF WaitingLines
    <3>4. QED
      BY <2>1, <3>1, <3>2, <3>3 DEF OnePlace, Held
  <2>4. QED
    BY <2>2, <2>3
<1>7. Waiting \subseteq Waiting'
  BY <1>3
<1>8. QED
  BY <1>6, <1>7, ToSendKept DEF LinesApart

LEMMA BufferLineApart ==
  ASSUME LogsTypeOK, LinesApart, ToSend, NEW o \in Outputs, BufferLine(o)
  PROVE  LinesApart' /\ ToSend'
<1>1. /\ SaveLog(hand[o].line) /\ hand' = [hand EXCEPT ![o] = NoLine] /\ hand[o] # NoLine
      /\ UNCHANGED <<runner, wire, logTable>>
  BY DEF BufferLine, JournalLine
<1>2. /\ hand'[o].line = 0 /\ \A p \in Outputs : p # o => hand'[p] = hand[p]
      /\ hand[o] \in Entry
  BY <1>1, LogTypes DEF NoLine
<1>3. PICK x \in 1..Lines : x = hand[o].line
  BY <1>2 DEF Entry
<1>4. logAux'.resent = logAux.resent
  BY <1>1, <1>3, SaveLogKeeps
<1>5. CASE journal' = Append(journal, [line |-> x, at |-> SavedAt, synced |-> FALSE])
  <2>1. CASE x \in logAux.resent
    <3>1. \A p \in Outputs : hand'[p].line = hand[p].line \/ hand'[p].line = 0
      BY <1>2
    <3>2. QED
      BY <1>1, <1>4, <1>5, <2>1, <3>1, AddedApart
  <2>2. CASE x \notin logAux.resent
    <3>1. OnePlace(x)
      BY <2>2 DEF LinesApart
    <3>2. x \notin LinesIn(wire) \cup LinesIn(logTable) \cup WaitingLines
      BY <1>3, <3>1 DEF OnePlace, Held
    <3>3. \A p \in Outputs : hand'[p].line # x
      BY <1>2, <1>3, <3>1 DEF OnePlace
    <3>4. \A p \in Outputs : hand'[p].line = hand[p].line \/ hand'[p].line = 0
      BY <1>2
    <3>5. QED
      BY <1>1, <1>4, <1>5, <3>2, <3>3, <3>4, AddedApart
  <2>3. QED
    BY <2>1, <2>2
<1>6. CASE UNCHANGED journal
  <2>1. Waiting' = Waiting
    BY <1>1, <1>6 DEF Waiting
  <2>2. ASSUME NEW l \in (1..Lines) \ logAux.resent PROVE OnePlace(l)'
    <3>1. OnePlace(l) /\ l # 0
      BY <2>2 DEF LinesApart
    <3>2. \A p \in Outputs : hand'[p].line = l => hand[p].line = l
      BY <1>2, <3>1
    <3>3. QED
      BY <1>1, <1>6, <2>1, <3>1, <3>2, OnePlaceKept DEF OnePlace
  <2>3. QED
    BY <1>1, <1>4, <2>1, <2>2, ToSendKept DEF LinesApart
<1>7. QED
  BY <1>1, <1>3, <1>5, <1>6 DEF SaveLog

LEMMA StreamAgentLogApart ==
  ASSUME LogsTypeOK, Quiet, FreshLines, LinesApart, ToSend, StreamAgentLog
  PROVE  LinesApart' /\ ToSend'
<1>1. /\ runner' = [runner EXCEPT !.pc = "message"] /\ runner.pc = "idle"
      /\ NextLine <= Lines /\ UNCHANGED <<hand, logTable>>
  BY DEF StreamAgentLog
<1>2. PICK x \in 1..Lines : x = NextLine
  BY <1>1, NewLine
<1>3. x \notin Held \cup LinesIn(wire) \cup LinesIn(logTable) \cup WaitingLines
  BY <1>1, <1>2, NewLine
<1>4. runner'.todo = runner.todo /\ runner'.sent = runner.sent
  BY <1>1, LogTypes DEF RunnerStates
<1>5. wire = <<>>
  BY <1>1, LogTypes DEF Quiet
<1>6. CASE /\ wire' = <<[line |-> x, at |-> clock]>>
           /\ logAux' = [logAux EXCEPT !.emitted = @ + 1]
           /\ UNCHANGED journal
  <2>1. Waiting' = Waiting
    BY <1>4, <1>6 DEF Waiting
  <2>2. DOMAIN wire' = {1} /\ wire'[1].line = x
    BY <1>6
  <2>3. ASSUME NEW l \in (1..Lines) \ logAux.resent PROVE OnePlace(l)'
    <3>1. OnePlace(l) /\ OneOf(wire', l)
      BY <2>2, <2>3 DEF LinesApart, OneOf
    <3>2. CASE l # x
      <4>1. l \notin LinesIn(wire')
        BY <2>2, <3>2 DEF LinesIn
      <4>2. QED
        BY <1>1, <1>6, <2>1, <3>1, <4>1, OnePlaceKept DEF OnePlace
    <3>3. CASE l = x
      <4>1. l \notin Held' \cup LinesIn(logTable') \cup WaitingLines'
        BY <1>1, <1>3, <1>6, <2>1, <3>3 DEF Held, LinesIn, WaitingLines
      <4>2. QED
        BY <1>1, <1>6, <2>1, <3>1, <4>1 DEF OnePlace
    <3>4. QED
      BY <3>2, <3>3
  <2>4. logAux'.resent = logAux.resent
    BY <1>6, LogTypes DEF LogCounts
  <2>5. QED
    BY <1>4, <2>1, <2>3, <2>4, ToSendKept DEF LinesApart
<1>7. CASE /\ journal' = Append(journal, [line |-> x, at |-> SavedAt, synced |-> FALSE])
           /\ logAux' = [logAux EXCEPT !.emitted = @ + 1, !.faults = @ + 1]
           /\ UNCHANGED <<stream, wire>>
  <2>1. logAux'.resent = logAux.resent
    BY <1>7, LogTypes DEF LogCounts
  <2>2. \A o \in Outputs : hand'[o].line # x
    BY <1>1, <1>3 DEF Held
  <2>3. \A o \in Outputs : hand'[o].line = hand[o].line \/ hand'[o].line = 0
    BY <1>1
  <2>4. QED
    BY <1>1, <1>3, <1>4, <1>7, <2>1, <2>2, <2>3, AddedApart
<1>8. QED
  BY <1>2, <1>6, <1>7 DEF StreamAgentLog

LEMMA InsertApart ==
  ASSUME LogsTypeOK, LinesApart, ToSend, InsertTaskLog PROVE LinesApart' /\ ToSend'
<1>1. /\ wire # <<>> /\ logTable' = Append(logTable, Head(wire)) /\ wire' = Tail(wire)
      /\ UNCHANGED <<runner, hand, journal, logAux>>
  BY DEF InsertTaskLog
<1>2. wire \in Seq(Entry) /\ logTable \in Seq(Entry)
  BY LogTypes
<1>3. PICK e : e = Head(wire)
  OBVIOUS
<1>4. /\ LinesIn(wire) = {e.line} \cup LinesIn(wire')
      /\ LinesIn(logTable') = LinesIn(logTable) \cup {e.line}
  BY <1>1, <1>2, <1>3, LinesTail, LinesAppended
<1>5. Waiting' = Waiting /\ Held' = Held /\ WaitingLines' = WaitingLines
  BY <1>1 DEF Waiting, Held, WaitingLines
<1>6. ASSUME NEW l \in (1..Lines) \ logAux.resent PROVE OnePlace(l)'
  <2>1. OnePlace(l)
    BY <1>6 DEF LinesApart
  <2>2. OneOf(wire', l) /\ (e.line = l => l \notin LinesIn(wire'))
    BY <1>1, <1>2, <1>3, <2>1, OneOfTail DEF OnePlace
  <2>3. OneOf(logTable', l)
    <3>1. e.line = l => l \notin LinesIn(logTable)
      BY <1>4, <2>1 DEF OnePlace
    <3>2. QED
      BY <1>1, <1>2, <1>3, <2>1, <3>1, OneOfAppended DEF OnePlace
  <2>4. /\ \A o, p \in Outputs : hand'[o].line = l /\ hand'[p].line = l => o = p
        /\ \A i, j \in Waiting' : journal'[i].line = l /\ journal'[j].line = l => i = j
    BY <1>1, <1>5, <2>1 DEF OnePlace
  <2>5. /\ l \in Held => l \notin LinesIn(wire) \cup LinesIn(logTable) \cup WaitingLines
        /\ l \in LinesIn(wire) => l \notin LinesIn(logTable) \cup WaitingLines
        /\ l \in LinesIn(logTable) => l \notin WaitingLines
    BY <2>1 DEF OnePlace
  <2>6. QED
    BY <1>4, <1>5, <2>2, <2>3, <2>4, <2>5 DEF OnePlace
<1>7. QED
  BY <1>1, <1>5, <1>6, ToSendKept DEF LinesApart

LEMMA FailureApart ==
  ASSUME LogsTypeOK, LinesApart, ToSend, StreamBreaks \/ AgentRestarts
  PROVE  LinesApart' /\ ToSend'
<1>1. wire' = <<>> /\ UNCHANGED <<journal, logTable>>
  BY DEF StreamBreaks, AgentRestarts
<1>2. CASE StreamBreaks
  <2>1. UNCHANGED <<runner, hand>> /\ logAux'.resent = logAux.resent
    BY <1>2, LogTypes DEF StreamBreaks, LogCounts
  <2>2. Waiting' = Waiting
    BY <1>1, <2>1 DEF Waiting
  <2>3. ASSUME NEW l \in (1..Lines) \ logAux.resent PROVE OnePlace(l)'
    <3>1. OnePlace(l) /\ OneOf(wire', l) /\ l \notin LinesIn(wire')
      BY <1>1, <2>3 DEF LinesApart, OneOf, LinesIn
    <3>2. QED
      BY <1>1, <2>1, <2>2, <3>1, OnePlaceKept DEF OnePlace
  <2>4. QED
    BY <2>1, <2>2, <2>3, ToSendKept DEF LinesApart
<1>3. CASE AgentRestarts
  <2>1. /\ runner' = [pc |-> "start", todo |-> <<>>, sent |-> {}, stopped |-> {}]
        /\ hand' = [o \in Outputs |-> NoLine]
    BY <1>3 DEF AgentRestarts
  <2>2. logAux'.resent = logAux.resent \cup {journal[i].line : i \in runner.sent}
    BY <1>3, LogTypes DEF AgentRestarts, LogCounts
  <2>3. ToSend'
    BY <2>1 DEF ToSend
  <2>4. ASSUME NEW l \in (1..Lines) \ logAux'.resent PROVE OnePlace(l)'
    <3>1. OnePlace(l) /\ OneOf(wire', l) /\ l \notin LinesIn(wire')
      BY <1>1, <2>2, <2>4 DEF LinesApart, OneOf, LinesIn
    <3>2. \A o \in Outputs : hand'[o].line # l
      BY <2>1, <2>4 DEF NoLine
    <3>3. \A i \in Waiting' : journal'[i].line = l => i \in Waiting /\ journal[i].line = l
      BY <1>1, <2>2, <2>4 DEF Waiting
    <3>4. QED
      BY <1>1, <3>1, <3>2, <3>3, OnePlaceKept DEF OnePlace
  <2>5. QED
    BY <2>3, <2>4 DEF LinesApart
<1>4. QED
  BY <1>2, <1>3

LEMMA ApartStep ==
  LogsTypeOK /\ Quiet /\ FreshLines /\ LinesApart /\ ToSend /\ [LogsNext]_logVars
    => LinesApart' /\ ToSend'
  BY SyncReadApart, SyncSendApart, SyncMarkApart, UnmovedApart, StreamAgentLogApart,
     ScanLineApart, SendLineApart, BufferLineApart, InsertApart, FailureApart
     DEF LogsNext

\* A line comes into being as the next one.
LEMMA FreshAgent ==
  LogsTypeOK /\ FreshLines
    /\ (\/ SyncRead \/ SyncSend \/ SyncMark
        \/ OpenStream \/ CloseStream \/ StreamAgentLog
        \/ \E o \in Outputs : ScanLine(o) \/ UnreadLine(o) \/ SendLine(o) \/ BufferLine(o))
    => FreshLines'
<1>1. ASSUME FreshLines, SyncRead \/ OpenStream \/ CloseStream PROVE FreshLines'
  <2>1. UNCHANGED <<hand, wire, journal, logTable, logAux>>
    BY <1>1 DEF SyncRead, OpenStream, CloseStream
  <2>2. QED
    BY <1>1, <2>1 DEF FreshLines, LinesIn, Held
<1>2. ASSUME LogsTypeOK, FreshLines, SyncSend PROVE FreshLines'
  <2> DEFINE i == Head(runner.todo)
  <2>1. /\ wire' = Append(wire, [line |-> journal[i].line, at |-> journal[i].at])
        /\ runner.todo # <<>>
        /\ UNCHANGED <<hand, journal, logTable, logAux>>
    BY <1>2 DEF SyncSend
  <2>2. i \in DOMAIN journal
    BY <1>2, <2>1, LogTypes DEF RunnerStates, Range
  <2> HIDE DEF i
  <2>3. LinesIn(wire') = LinesIn(wire) \cup {journal[i].line}
    BY <1>2, <2>1, LinesAppended, LogTypes
  <2>4. journal[i].line \in LinesIn(journal)
    BY <2>2 DEF LinesIn
  <2>5. /\ LinesIn(logTable') = LinesIn(logTable) /\ LinesIn(journal') = LinesIn(journal)
        /\ Held' = Held
    BY <2>1 DEF LinesIn, Held
  <2>6. QED
    BY <1>2, <2>1, <2>3, <2>4, <2>5 DEF FreshLines
<1>3. ASSUME LogsTypeOK, FreshLines, SyncMark PROVE FreshLines'
  <2>1. UNCHANGED <<hand, wire, logTable>>
    BY <1>3 DEF SyncMark
  <2>2. logAux'.emitted = logAux.emitted
    BY <1>3, LogTypes DEF SyncMark, LogCounts
  <2>3. LinesIn(journal') = LinesIn(journal)
    <3>1. CASE UNCHANGED journal
      BY <3>1 DEF LinesIn
    <3>2. CASE journal' = [i \in DOMAIN journal |->
                            [journal[i] EXCEPT !.synced = @ \/ i \in SyncedRows]]
      <4>1. ASSUME NEW i \in DOMAIN journal PROVE journal'[i].line = journal[i].line
        <5>1. journal[i] \in JournalRow
          BY <1>3, LogTypes
        <5>2. QED
          BY <3>2, <5>1 DEF JournalRow
      <4>2. DOMAIN journal' = DOMAIN journal
        BY <3>2
      <4>3. QED
        BY <4>1, <4>2 DEF LinesIn
    <3>3. QED
      BY <1>3, <3>1, <3>2 DEF SyncMark
  <2>4. LinesIn(logTable') = LinesIn(logTable) /\ LinesIn(wire') = LinesIn(wire) /\ Held' = Held
    BY <2>1 DEF LinesIn, Held
  <2>5. QED
    BY <1>3, <2>2, <2>3, <2>4 DEF FreshLines
<1>4. ASSUME LogsTypeOK, FreshLines, StreamAgentLog PROVE FreshLines'
  <2>1. NextLine <= Lines /\ UNCHANGED <<hand, logTable>>
    BY <1>4 DEF StreamAgentLog
  <2>2. NextLine = logAux.emitted + 1 /\ logAux.emitted \in Nat
    BY <1>4, <2>1, NextLineType, LogTypes DEF LogCounts
  <2>3. LinesIn(wire') \cup LinesIn(journal')
          \subseteq LinesIn(wire) \cup LinesIn(journal) \cup {NextLine}
    <3>1. CASE /\ wire' = <<[line |-> NextLine, at |-> clock]>>
               /\ UNCHANGED journal
      <4>1. DOMAIN wire' = {1} /\ wire'[1].line = NextLine
        BY <3>1
      <4>2. QED
        BY <3>1, <4>1 DEF LinesIn
    <3>2. CASE /\ journal' = Append(journal, [line |-> NextLine, at |-> SavedAt, synced |-> FALSE])
               /\ UNCHANGED <<stream, wire>>
      <4>1. LinesIn(journal') = LinesIn(journal) \cup {NextLine}
        BY <1>4, <3>2, LinesAppended, LogTypes
      <4>2. QED
        BY <3>2, <4>1 DEF LinesIn
    <3>3. QED
      BY <1>4, <3>1, <3>2 DEF StreamAgentLog
  <2>4. logAux'.emitted = NextLine
    BY <1>4, <2>2, LogTypes DEF StreamAgentLog, LogCounts
  <2>5. LinesIn(logTable') = LinesIn(logTable) /\ Held' = Held
    BY <2>1 DEF LinesIn, Held
  <2>6. 0..logAux.emitted \cup {NextLine} = 0..NextLine
    BY <2>2
  <2>7. QED
    BY <1>4, <2>3, <2>4, <2>5, <2>6 DEF FreshLines
<1>5. ASSUME LogsTypeOK, FreshLines, NEW o \in Outputs, ScanLine(o) PROVE FreshLines'
  <2>1. /\ hand' = [hand EXCEPT ![o] = [line |-> NextLine, at |-> clock]]
        /\ logAux' = [logAux EXCEPT !.emitted = @ + 1]
        /\ NextLine <= Lines /\ UNCHANGED <<wire, journal, logTable>>
    BY <1>5 DEF ScanLine
  <2>2. NextLine = logAux.emitted + 1 /\ logAux.emitted \in Nat
    BY <1>5, <2>1, NextLineType, LogTypes DEF LogCounts
  <2>3. logAux'.emitted = NextLine
    BY <1>5, <2>1, <2>2, LogTypes DEF LogCounts
  <2>4. \A p \in Outputs : hand'[p].line \in {hand[p].line, NextLine}
    BY <1>5, <2>1, LogTypes
  <2>5. Held' \subseteq Held \cup {NextLine}
    BY <2>4 DEF Held
  <2>6. LinesIn(logTable') = LinesIn(logTable) /\ LinesIn(wire') = LinesIn(wire)
        /\ LinesIn(journal') = LinesIn(journal)
    BY <2>1 DEF LinesIn
  <2>7. 0..logAux.emitted \cup {NextLine} = 0..NextLine
    BY <2>2
  <2>8. QED
    BY <1>5, <2>3, <2>5, <2>6, <2>7 DEF FreshLines
<1>9. ASSUME LogsTypeOK, FreshLines, NEW o \in Outputs, UnreadLine(o) PROVE FreshLines'
  <2>1. /\ LinesIn(logTable') = LinesIn(logTable) /\ LinesIn(wire') = LinesIn(wire)
        /\ LinesIn(journal') = LinesIn(journal) /\ Held' = Held
        /\ logAux'.emitted = logAux.emitted + 1
    BY <1>9, UnreadFrame DEF LinesIn, Held
  <2>2. logAux.emitted \in Nat
    BY <1>9, LogTypes DEF LogCounts
  <2>3. 0..logAux.emitted \subseteq 0..logAux'.emitted
    BY <2>1, <2>2
  <2>4. QED
    BY <1>9, <2>1, <2>3 DEF FreshLines
<1>6. ASSUME LogsTypeOK, FreshLines, NEW o \in Outputs, SendLine(o) PROVE FreshLines'
  <2>1. /\ wire' = Append(wire, hand[o]) /\ hand' = [hand EXCEPT ![o] = NoLine]
        /\ UNCHANGED <<journal, logTable, logAux>>
    BY <1>6 DEF SendLine
  <2>2. LinesIn(wire') = LinesIn(wire) \cup {hand[o].line}
    BY <1>6, <2>1, LinesAppended, LogTypes
  <2>3. \A p \in Outputs : hand'[p].line \in {hand[p].line, 0}
    BY <1>6, <2>1, LogTypes DEF NoLine
  <2>4. Held' \subseteq Held \cup {0} /\ hand[o].line \in Held
    BY <2>3 DEF Held
  <2>5. LinesIn(logTable') = LinesIn(logTable) /\ LinesIn(journal') = LinesIn(journal)
    BY <2>1 DEF LinesIn
  <2>6. 0 \in 0..logAux.emitted
    BY <1>6, LogTypes DEF LogCounts
  <2>7. QED
    BY <1>6, <2>1, <2>2, <2>4, <2>5, <2>6 DEF FreshLines
<1>7. ASSUME LogsTypeOK, FreshLines, NEW o \in Outputs, BufferLine(o) PROVE FreshLines'
  <2>1. /\ SaveLog(hand[o].line) /\ hand' = [hand EXCEPT ![o] = NoLine] /\ hand[o] # NoLine
        /\ UNCHANGED <<wire, logTable>>
    BY <1>7 DEF BufferLine, JournalLine
  <2>2. hand[o] \in Entry
    BY <1>7, <2>1, LogTypes
  <2>3. logAux'.emitted = logAux.emitted
    <3>1. hand[o].line \in 1..Lines
      BY <2>2 DEF Entry
    <3>2. QED
      BY <1>7, <2>1, <3>1, SaveLogKeeps
  <2>4. LinesIn(journal') \subseteq LinesIn(journal) \cup {hand[o].line}
    <3>1. CASE journal' = Append(journal, [line |-> hand[o].line, at |-> SavedAt, synced |-> FALSE])
      BY <1>7, <3>1, LinesAppended, LogTypes
    <3>2. CASE UNCHANGED journal
      BY <3>2 DEF LinesIn
    <3>3. QED
      BY <2>1, <3>1, <3>2 DEF SaveLog
  <2>5. \A p \in Outputs : hand'[p].line \in {hand[p].line, 0}
    BY <1>7, <2>1, LogTypes DEF NoLine
  <2>6. Held' \subseteq Held \cup {0} /\ hand[o].line \in Held
    BY <2>5 DEF Held
  <2>7. LinesIn(logTable') = LinesIn(logTable) /\ LinesIn(wire') = LinesIn(wire)
    BY <2>1 DEF LinesIn
  <2>8. 0 \in 0..logAux.emitted
    BY <1>7, LogTypes DEF LogCounts
  <2>9. QED
    BY <1>7, <2>3, <2>4, <2>6, <2>7, <2>8 DEF FreshLines
<1>8. QED
  BY <1>1, <1>2, <1>3, <1>4, <1>5, <1>6, <1>7, <1>9

LEMMA FreshOther ==
  LogsTypeOK /\ FreshLines
    /\ (\/ InsertTaskLog \/ StreamBreaks \/ AgentRestarts
        \/ StartReading \/ HandleListLogs \/ HandleDownloadLogs
        \/ Tick \/ UNCHANGED logVars)
    => FreshLines'
<1>1. ASSUME LogsTypeOK, FreshLines, InsertTaskLog PROVE FreshLines'
  <2>1. /\ wire # <<>> /\ logTable' = Append(logTable, Head(wire)) /\ wire' = Tail(wire)
        /\ UNCHANGED <<hand, journal, logAux>>
    BY <1>1 DEF InsertTaskLog
  <2>2. LinesIn(wire) = {Head(wire).line} \cup LinesIn(wire')
    BY <1>1, <2>1, LinesTail, LogTypes
  <2>3. LinesIn(logTable') = LinesIn(logTable) \cup {Head(wire).line}
    BY <1>1, <2>1, LinesAppended, LogTypes
  <2>4. LinesIn(journal') = LinesIn(journal) /\ Held' = Held
    BY <2>1 DEF LinesIn, Held
  <2>5. QED
    BY <1>1, <2>1, <2>2, <2>3, <2>4 DEF FreshLines
<1>2. ASSUME LogsTypeOK, FreshLines, StreamBreaks \/ AgentRestarts PROVE FreshLines'
  <2>1. wire' = <<>> /\ UNCHANGED <<journal, logTable>> /\ logAux'.emitted = logAux.emitted
    BY <1>2, LogTypes DEF StreamBreaks, AgentRestarts, LogCounts
  <2>2. LinesIn(wire') = {} /\ LinesIn(journal') = LinesIn(journal)
        /\ LinesIn(logTable') = LinesIn(logTable)
    BY <2>1 DEF LinesIn
  <2>3. Held' \subseteq Held \cup {0}
    BY <1>2 DEF StreamBreaks, AgentRestarts, Held, NoLine
  <2>4. 0 \in 0..logAux.emitted
    BY <1>2, LogTypes DEF LogCounts
  <2>5. QED
    BY <1>2, <2>1, <2>2, <2>3, <2>4 DEF FreshLines
<1>3. ASSUME FreshLines, \/ StartReading \/ HandleListLogs \/ HandleDownloadLogs
                         \/ Tick \/ UNCHANGED logVars
      PROVE  FreshLines'
  <2>1. UNCHANGED <<hand, wire, journal, logTable, logAux>>
    BY <1>3 DEF StartReading, HandleListLogs, HandleDownloadLogs, Tick, logVars
  <2>2. QED
    BY <1>3, <2>1 DEF FreshLines, LinesIn, Held
<1>4. QED
  BY <1>1, <1>2, <1>3

--------------------------------------------------------------------------------
(***************************************************************************)
(* ReadsComplete: while the times agree with the ids, a client that reads  *)
(* page by page has the rows up to its cursor.                             *)
(***************************************************************************)

Reading ==
  /\ reader = [pc |-> reader.pc, cursor |-> reader.cursor, got |-> reader.got,
               there |-> reader.there]
  /\ reader.pc = "pages" =>
       /\ reader.there \in 0..Len(logTable)
       /\ Chronological => /\ reader.cursor \in 0..Len(logTable)
                           /\ reader.got = [i \in 1..reader.cursor |-> i]
  /\ ReadsComplete

\* A row is only added at the end: the order of those before it stays.
LEMMA StillChronological ==
  ASSUME LogsTypeOK, NEW e, logTable' = Append(logTable, e), Chronological'
  PROVE  Chronological
<1>1. /\ Len(logTable) \in Nat /\ DOMAIN logTable = 1..Len(logTable)
      /\ DOMAIN logTable' = 1..Len(logTable) + 1
      /\ \A i \in 1..Len(logTable) : logTable'[i] = logTable[i] /\ i \in 1..Len(logTable) + 1
  BY LogTypes
<1>2. QED
  BY <1>1 DEF Chronological

LEMMA InsertReading ==
  ASSUME LogsTypeOK, Reading, InsertTaskLog PROVE Reading'
<1>1. UNCHANGED reader /\ logTable' = Append(logTable, Head(wire)) /\ logTable \in Seq(Entry)
      /\ wire # <<>> /\ wire \in Seq(Entry)
  BY LogTypes DEF InsertTaskLog
<1>2. Len(logTable') = Len(logTable) + 1 /\ Len(logTable) \in Nat
  BY <1>1
<1>3. Chronological' => Chronological
  BY <1>1, StillChronological
<1>4. 0..Len(logTable) \subseteq 0..Len(logTable')
  BY <1>2
<1>5. QED
  BY <1>1, <1>3, <1>4 DEF Reading, ReadsComplete, WalkComplete

LEMMA ReadingStarted ==
  ASSUME LogsTypeOK, StartReading PROVE Reading'
<1>1. reader' = [pc |-> "pages", cursor |-> 0, got |-> <<>>, there |-> Len(logTable)]
      /\ UNCHANGED logTable
  BY DEF StartReading, NoReader
<1>2. Len(logTable) \in Nat
  BY LogTypes
<1>3. <<>> = [i \in 1..0 |-> i]
  OBVIOUS
<1>4. QED
  BY <1>1, <1>2, <1>3 DEF Reading, ReadsComplete, WalkComplete

LEMMA PageRead ==
  ASSUME LogsTypeOK, Reading, HandleListLogs PROVE Reading'
<1> DEFINE page == ListTaskLogs(reader.cursor, PageSize)
           more == Len(page) = PageSize
           b == Len(logTable)
<1>1. /\ reader.pc = "pages" /\ UNCHANGED logTable
      /\ reader' = [reader EXCEPT
           !.got = @ \o page,
           !.pc = IF more THEN "pages" ELSE "done",
           !.cursor = IF more THEN Last(page) ELSE @]
  BY DEF HandleListLogs
<1>2. reader' = [pc |-> IF more THEN "pages" ELSE "done",
                 cursor |-> IF more THEN Last(page) ELSE reader.cursor,
                 got |-> reader.got \o page, there |-> reader.there]
  BY <1>1 DEF Reading
<1>3. reader'.there \in 0..b /\ b \in Nat
  BY <1>1, <1>2, LogTypes DEF Reading
<1>4. Chronological' <=> Chronological
  BY <1>1 DEF Chronological
<1>5. CASE ~Chronological
  BY <1>1, <1>2, <1>3, <1>4, <1>5 DEF Reading, ReadsComplete
<1>6. CASE Chronological
  <2>1. PICK c \in 0..b : c = reader.cursor /\ reader.got = [i \in 1..c |-> i]
    BY <1>1, <1>6 DEF Reading
  <2>2. PageSize \in Nat /\ PageSize >= 1 /\ StorePageSize(PageSize) = PageSize
    BY LogsAssumption DEF StorePageSize
  <2>3. PICK m \in Nat : /\ m = IF b - c < PageSize THEN b - c ELSE PageSize
                         /\ m <= b - c
    <3>1. b - c \in Nat
      BY <1>3
    <3>2. QED
      BY <2>2, <3>1
  <2>4. page = [k \in 1..m |-> c + k]
    <3>1. m = IF b - c < StorePageSize(PageSize) THEN b - c ELSE StorePageSize(PageSize)
      BY <2>2, <2>3
    <3>2. ListTaskLogs(c, PageSize) = [k \in 1..m |-> c + k]
      BY <1>6, <2>2, <3>1, LogPage
    <3>3. QED
      BY <2>1, <3>2
  <2> HIDE DEF page
  <2>5. Len(page) = m
    BY <2>4
  <2>6. reader.got \o page = [i \in 1..c + m |-> i]
    <3>1. c \in Nat
      BY <1>3, <2>1
    <3>2. PICK got, next : got = reader.got /\ next = page
      OBVIOUS
    <3>3. got = [i \in 1..c |-> i] /\ next = [k \in 1..m |-> c + k]
      BY <2>1, <2>4, <3>2
    <3>4. got \o next = [i \in 1..c + m |-> i]
      BY <3>1, <3>3, CountedOn
    <3>5. QED
      BY <3>2, <3>4
  <2>7. CASE more
    <3>1. m = PageSize
      BY <2>5, <2>7
    <3>2. Last(page) = c + m
      BY <2>2, <2>4, <2>5, <3>1 DEF Last
    <3>3. reader'.cursor = c + m /\ reader'.got = [i \in 1..c + m |-> i] /\ reader'.pc = "pages"
      BY <1>2, <2>6, <2>7, <3>2
    <3>4. c + m \in 0..b
      BY <1>3, <2>3
    <3>5. QED
      BY <1>1, <1>2, <1>3, <3>3, <3>4 DEF Reading, ReadsComplete, WalkComplete
  <2>8. CASE ~more
    <3>1. m = b - c
      BY <2>3, <2>5, <2>8
    <3>2. c + m = b
      BY <1>3, <3>1
    <3>3. reader'.pc = "done" /\ reader'.got = [i \in 1..b |-> i]
      BY <1>2, <2>6, <2>8, <3>2
    <3>4. Len(reader'.got) = b
      BY <1>3, <3>3
    <3>5. reader'.there <= b
      BY <1>3
    <3>6. QED
      BY <1>2, <3>3, <3>4, <3>5 DEF Reading, ReadsComplete, WalkComplete
  <2>9. QED
    BY <2>7, <2>8
<1>7. QED
  BY <1>5, <1>6

LEMMA DownloadRead ==
  ASSUME LogsTypeOK, HandleDownloadLogs PROVE Reading'
<1> DEFINE page == ListTaskLogs(0, DownloadSize)
           b == Len(logTable)
<1>1. /\ UNCHANGED logTable
      /\ reader' = [pc |-> "downloaded", cursor |-> 0, there |-> b, got |-> page]
  BY DEF HandleDownloadLogs
<1>2. b \in Nat
  BY LogTypes
<1>3. Chronological' <=> Chronological
  BY <1>1 DEF Chronological
<1>4. ASSUME Chronological
      PROVE  /\ page = [i \in 1..Len(page) |-> i]
             /\ b <= StoreDefault => Len(page) = b
  <2>1. DownloadSize \in Nat /\ StoreDefault \in Nat
    BY LogsAssumption
  <2>2. PICK p \in Nat : p = StorePageSize(DownloadSize) /\ p >= StoreDefault
    BY <2>1, LogsAssumption DEF StorePageSize
  <2>3. PICK m \in Nat : m = (IF b < p THEN b ELSE p)
    BY <1>2
  <2>4. page = [k \in 1..m |-> 0 + k]
    <3>1. 0 \in 0..Len(logTable) /\ b - 0 = b
      BY <1>2
    <3>2. QED
      BY <1>4, <2>1, <2>2, <2>3, <3>1, LogPage
  <2> HIDE DEF page
  <2>5. page = [k \in 1..m |-> k] /\ Len(page) = m
    BY <2>4
  <2>6. b <= StoreDefault => m = b
    BY <1>2, <2>1, <2>2, <2>3
  <2>7. QED
    BY <2>5, <2>6
<1> HIDE DEF page
<1>5. QED
  BY <1>1, <1>3, <1>4 DEF Reading, ReadsComplete, WalkComplete

LEMMA ReadingStep ==
  LogsTypeOK /\ Reading /\ [LogsNext]_logVars => Reading'
<1>1. ASSUME Reading, UNCHANGED <<reader, logTable>> PROVE Reading'
  BY <1>1 DEF Reading, ReadsComplete, WalkComplete, Chronological
<1>2. ASSUME Reading,
             \/ SyncRead \/ SyncSend \/ SyncMark
             \/ OpenStream \/ CloseStream \/ StreamAgentLog
             \/ \E o \in Outputs : ScanLine(o) \/ UnreadLine(o) \/ SendLine(o) \/ BufferLine(o)
             \/ StreamBreaks \/ AgentRestarts \/ Tick \/ UNCHANGED logVars
      PROVE  Reading'
  <2>1. UNCHANGED <<reader, logTable>>
    BY <1>2 DEF SyncRead, SyncSend, SyncMark, OpenStream, CloseStream, StreamAgentLog, ScanLine,
       UnreadLine, SendLine, BufferLine, StreamBreaks, AgentRestarts, Tick, logVars
  <2>2. QED
    BY <1>1, <1>2, <2>1
<1>3. QED
  BY <1>2, InsertReading, ReadingStarted, PageRead, DownloadRead DEF LogsNext

--------------------------------------------------------------------------------
(* The theorems about the log                                              *)

LogsInv == LogsIInv /\ FreshLines /\ ToSend /\ LinesApart /\ Reading

LEMMA LogsInvStep == LogsInv /\ [LogsNext]_logVars => LogsInv'
<1> SUFFICES ASSUME LogsInv, [LogsNext]_logVars PROVE LogsInv'
  OBVIOUS
<1>1. LogsTypeOK /\ Quiet
  BY DEF LogsInv, LogsIInv
<1>2. LogsIInv' /\ LinesApart' /\ ToSend' /\ Reading'
  BY <1>1, LogsIInvStep, ApartStep, ReadingStep DEF LogsInv
<1>3. FreshLines'
  BY <1>1, FreshAgent, FreshOther DEF LogsInv, LogsNext
<1>4. QED
  BY <1>2, <1>3 DEF LogsInv

LEMMA LogsInvInit == LogsInit => LogsInv
<1> SUFFICES ASSUME LogsInit PROVE LogsInv
  OBVIOUS
<1>1. FreshLines
  BY DEF LogsInit, FreshLines, Held, LinesIn, NoLine
<1>2. ToSend
  BY DEF LogsInit, ToSend
<1>3. LinesApart
  BY DEF LogsInit, LinesApart, OnePlace, OneOf, Held, Waiting, WaitingLines, LinesIn, NoLine
<1>4. Reading
  BY DEF LogsInit, NoReader, Reading, ReadsComplete, WalkComplete
<1>5. QED
  BY <1>1, <1>2, <1>3, <1>4, LogsIInvInit DEF LogsInv

LEMMA LogsInvAlways == LogsSpec => []LogsInv
  BY LogsInvInit, LogsInvStep, PTL DEF LogsSpec

\* The fallback to the journal drops no line that was read.
THEOREM LinesAccountedHolds == LogsSpec => []LinesAccounted
<1>1. LogsInv => LinesAccounted
  BY DEF LogsInv, LogsIInv
<1>2. QED
  BY <1>1, LogsInvAlways, PTL

\* The fallback to the journal never doubles a line.
THEOREM LinesOnceHolds == LogsSpec => []LinesOnce
<1>1. LogsInv => LinesOnce
  BY ApartOnce DEF LogsInv, LogsIInv
<1>2. QED
  BY <1>1, LogsInvAlways, PTL

\* Reading page by page skips and repeats nothing while the times agree with the ids.
THEOREM ReadsCompleteHolds == LogsSpec => []ReadsComplete
<1>1. LogsInv => ReadsComplete
  BY DEF LogsInv, Reading
<1>2. QED
  BY <1>1, LogsInvAlways, PTL

\* The log's state keeps its types.
THEOREM LogsTypeCorrect == LogsSpec => []LogsTypeOK
<1>1. LogsInv => LogsTypeOK
  BY DEF LogsInv, LogsIInv
<1>2. QED
  BY <1>1, LogsInvAlways, PTL

--------------------------------------------------------------------------------
(* The two parts of an agent, side by side                                 *)

SideInv == LogsInv /\ UpInv

\* The types of whichever part an instance runs.
THEOREM SideTypeCorrect == Spec => []SideTypeOK
<1>1. Init => SideInv
  BY LogsInvInit, UpInit DEF Init, AtRest, SideInv
<1>2. SideInv /\ [Next]_vars => SideInv'
  <2> SUFFICES ASSUME SideInv, [Next]_vars PROVE SideInv'
    OBVIOUS
  <2>1. LogsNext \/ UNCHANGED logVars
    BY DEF Next, vars
  <2>2. UpgradeNext \/ UNCHANGED upVars
    BY DEF Next, vars
  <2>3. QED
    BY <2>1, <2>2, LogsInvStep, UpStep DEF SideInv
<1>3. SideInv => SideTypeOK
  BY DEF SideInv, LogsInv, LogsIInv, UpInv, SideTypeOK
<1>4. QED
  BY <1>1, <1>2, <1>3, PTL DEF Spec

================================================================================
