------------------------------ MODULE AgentUpgrade ------------------------------
(***************************************************************************)
(* An agent that replaces its own executable: every ten minutes it asks    *)
(* the controller for the version on offer, and if that differs from its   *)
(* own and it has no task, it downloads the binary, puts it in the place   *)
(* of the executable and has the service manager restart it.  The file     *)
(* operations are steps of their own: any of them may fail, and the        *)
(* process may die between two of them.                                    *)
(***************************************************************************)
EXTENDS Integers

CONSTANTS
  Versions,         \* versions of the agent
  DefaultVersion,   \* "0.0.0", offered when none is configured
  NoFile,
  Down,             \* in the place of a version: the agent's process is not running
  MaxOffers,        \* bounds what the operator publishes and configures
  MaxMishaps        \* bounds failing requests, failing renames and crashes

ASSUME UpgradeAssumption ==
  /\ DefaultVersion \notin Versions /\ NoFile \notin Versions /\ Down \notin Versions
  /\ MaxOffers \in Nat /\ MaxMishaps \in Nat

VARIABLES
  offer,      \* the controller: upgrade.version, and the binary in upgrade.bin_dir
  file,       \* the agent's files: the executable, .old, .new and the download
  agent,      \* the process: the version it was built as, its upgrader, its task
  upAux       \* what has happened: offers, mishaps, interrupted replacements

upVars == <<offer, file, agent, upAux>>

--------------------------------------------------------------------------------
(* The controller                                                          *)

\* Another binary is put in bin_dir; it replaces the old one at once.
PublishBinary ==
  /\ upAux.offers < MaxOffers
  /\ \E v \in Versions : offer' = [offer EXCEPT !.binary = v]
  /\ upAux' = [upAux EXCEPT !.offers = @ + 1]
  /\ UNCHANGED <<file, agent>>

\* The controller is started again with another version in its configuration.
ConfigureVersion ==
  /\ upAux.offers < MaxOffers
  /\ \E v \in Versions : offer' = [offer EXCEPT !.version = v]
  /\ upAux' = [upAux EXCEPT !.offers = @ + 1]
  /\ UNCHANGED <<file, agent>>

--------------------------------------------------------------------------------
(* The upgrader: check and applyUpgrade                                    *)

Runs == agent.version # Down

At(pc) == Runs /\ agent.pc = pc
Goto(pc) == agent' = [agent EXCEPT !.pc = pc]

Mishap == /\ upAux.mishaps < MaxMishaps
          /\ upAux' = [upAux EXCEPT !.mishaps = @ + 1]
MishapThat(hurts) ==
  /\ upAux.mishaps < MaxMishaps
  /\ upAux' = [upAux EXCEPT !.mishaps = @ + 1, !.hurt = @ \/ hurts]

\* Versions are compared for equality only.
IsOther_Newer(v) == v # DefaultVersion /\ v > agent.version
IsOther(v) == v # agent.version

Check ==
  /\ At("waiting")
  /\ IsOther(offer.version)
  /\ offer.binary # NoFile
  /\ ~agent.busy
  /\ Goto("download")
  /\ UNCHANGED <<offer, file, upAux>>

\* No checksum is sent, so none is verified.
Download ==
  /\ At("download")
  /\ \/ /\ file' = [file EXCEPT !.tmp = offer.binary]
        /\ Goto("stage")
        /\ UNCHANGED upAux
     \/ Mishap /\ Goto("waiting") /\ UNCHANGED file
  /\ UNCHANGED offer

Stage ==
  /\ At("stage")
  /\ \/ /\ file' = [file EXCEPT !.new = file.tmp, !.tmp = NoFile]
        /\ Goto("clear")
        /\ UNCHANGED upAux
     \/ /\ Mishap
        /\ file' = [file EXCEPT !.tmp = NoFile]
        /\ Goto("waiting")
  /\ UNCHANGED offer

RemoveOld ==
  /\ At("clear")
  /\ file' = [file EXCEPT !.old = NoFile]
  /\ Goto("backup")
  /\ UNCHANGED <<offer, upAux>>

Backup ==
  /\ At("backup")
  /\ \/ /\ file.exe # NoFile
        /\ file' = [file EXCEPT !.old = file.exe, !.exe = NoFile]
        /\ Goto("replace")
        /\ UNCHANGED upAux
     \/ /\ \/ Mishap
           \/ file.exe = NoFile /\ UNCHANGED upAux
        /\ Goto("waiting")
        /\ UNCHANGED file
  /\ UNCHANGED offer

\* If the second rename fails the first is undone, which may fail as well.
Restored_Not == file
Restored == [file EXCEPT !.exe = file.old, !.old = NoFile]

Replace ==
  /\ At("replace")
  /\ \/ /\ file' = [file EXCEPT !.exe = file.new, !.new = NoFile]
        /\ Goto("restart")
        /\ UNCHANGED upAux
     \/ /\ MishapThat(FALSE)
        /\ file' = Restored
        /\ Goto("waiting")
     \/ /\ MishapThat(TRUE)
        /\ Goto("waiting")
        /\ UNCHANGED file
  /\ UNCHANGED offer

Started(v) == [agent EXCEPT !.version = v, !.pc = "waiting", !.busy = FALSE]
Process == IF file.exe = NoFile THEN Down ELSE file.exe

\* systemd restarts the process, and with it kills a task that has started since
\* the check.  The Windows service stops by cancelling the context that "sc start"
\* is to run under, so nothing starts it again.  In the foreground there is no
\* service to restart: the old process goes on and checks again.
RestartService ==
  /\ At("restart")
  /\ agent' = CASE agent.kind = "systemd"    -> Started(Process)
                [] agent.kind = "windows"    -> Started(Down)
                [] agent.kind = "foreground" -> [agent EXCEPT !.pc = "waiting"]
  /\ UNCHANGED <<offer, file, upAux>>

--------------------------------------------------------------------------------
(* The rest of the agent                                                   *)

TaskStarts ==
  /\ Runs /\ ~agent.busy
  /\ agent' = [agent EXCEPT !.busy = TRUE]
  /\ UNCHANGED <<offer, file, upAux>>

TaskEnds ==
  /\ Runs /\ agent.busy
  /\ agent' = [agent EXCEPT !.busy = FALSE]
  /\ UNCHANGED <<offer, file, upAux>>

\* The process dies; systemd starts it again (Restart=on-failure).
Crash ==
  /\ Runs
  /\ MishapThat(agent.pc = "replace")
  /\ agent' = Started(IF agent.kind = "systemd" THEN Process ELSE Down)
  /\ UNCHANGED <<offer, file>>

\* The machine is booted, or somebody starts the agent.
StartByHand ==
  /\ ~Runs /\ file.exe # NoFile
  /\ agent' = Started(file.exe)
  /\ UNCHANGED <<offer, file, upAux>>

--------------------------------------------------------------------------------
Kinds == {"systemd", "windows", "foreground"}   \* of service, or none

UpgradeInit ==
  \E v \in Versions, kind \in Kinds :
    /\ offer = [version |-> DefaultVersion, binary |-> NoFile]
    /\ file = [exe |-> v, old |-> NoFile, new |-> NoFile, tmp |-> NoFile]
    /\ agent = [version |-> v, pc |-> "waiting", busy |-> FALSE, kind |-> kind]
    /\ upAux = [offers |-> 0, mishaps |-> 0, hurt |-> FALSE]

ApplyUpgrade == Download \/ Stage \/ RemoveOld \/ Backup \/ Replace \/ RestartService

UpgradeNext ==
  \/ PublishBinary \/ ConfigureVersion
  \/ Check \/ ApplyUpgrade
  \/ TaskStarts \/ TaskEnds \/ Crash \/ StartByHand

\* A started upgrade goes on, tasks end, and some check finds the agent idle.
UpgradeFairness == /\ WF_upVars(ApplyUpgrade)
                   /\ WF_upVars(TaskEnds)
                   /\ SF_upVars(Check)

UpgradeSpec == UpgradeInit /\ [][UpgradeNext]_upVars
UpgradeFairSpec == UpgradeSpec /\ UpgradeFairness

--------------------------------------------------------------------------------
(* Properties                                                              *)

UpgradeTypeOK ==
  /\ offer \in [version : Versions \cup {DefaultVersion}, binary : Versions \cup {NoFile}]
  /\ file \in [exe : Versions \cup {NoFile}, old : Versions \cup {NoFile},
               new : Versions \cup {NoFile}, tmp : Versions \cup {NoFile}]
  /\ agent \in [version : Versions \cup {Down},
                pc : {"waiting", "download", "stage", "clear", "backup", "replace", "restart"},
                busy : BOOLEAN, kind : Kinds]
  /\ upAux \in [offers : 0..MaxOffers, mishaps : 0..MaxMishaps, hurt : BOOLEAN]

\* The agent's machine is never left without a binary: the executable is in its
\* place whenever no replacement is under way, unless the process died between
\* the two renames or undoing the first one failed; and even then a binary is
\* beside it.  Under systemd the agent is not left stopped for any other reason.
BinaryKept ==
  /\ (file.exe = NoFile /\ agent.pc # "replace") => upAux.hurt
  /\ \/ file.exe # NoFile \/ file.old # NoFile \/ file.new # NoFile
  /\ agent.version = Down => upAux.hurt \/ agent.kind # "systemd"

\* Once the configured version is the one of the published binary, and both
\* stay, every agent that systemd runs settles on it, be it newer or older
\* than the agent's own, and stops upgrading; the exception is an agent whose
\* replacement was interrupted.
Agreed == offer.version = offer.binary
UpgradeSettles ==
  (agent.kind = "systemd" /\ <>[]Agreed)
    => <>[]((agent.version = offer.version /\ agent.pc = "waiting") \/ upAux.hurt)

================================================================================
