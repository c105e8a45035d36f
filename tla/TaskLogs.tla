-------------------------------- MODULE TaskLogs --------------------------------
(***************************************************************************)
(* The log lines of one task: from the script's output and the agent's own *)
(* messages over a gRPC stream, or over the agent's journal, into          *)
(* task_logs, and from there in pages to a client of the HTTP API.         *)
(*                                                                         *)
(* The runner has one stream open at a time: to replay the journal when    *)
(* the agent starts, for one message of its own, or for a script, whose    *)
(* stdout and stderr are read by two goroutines.                           *)
(***************************************************************************)
EXTENDS Integers, Sequences, FiniteSets, SequencesExt, Ordering

CONSTANTS
  Lines,             \* lines are numbered 1..Lines; bounds how many there are
  Outputs,           \* what the script writes to: stdout and stderr
  TicksPerSecond,    \* the journal's clock counts seconds, the lines' clock ticks
  MaxClock,          \* bounds the clock
  PageSize,          \* page_size of the client, at most 1000
  DownloadSize,      \* the page size that the download asks the store for: 500000
  StoreMax,          \* the largest page the store accepts: 1000
  StoreDefault,      \* what it takes instead of a larger one: 200
  MaxFaults          \* bounds broken streams, failed writes and crashes

ASSUME LogsAssumption ==
  /\ Lines \in Nat /\ MaxClock \in Nat /\ MaxFaults \in Nat
  /\ TicksPerSecond \in Nat \ {0}
  /\ StoreMax \in Nat /\ PageSize \in 1..StoreMax
  /\ StoreDefault \in Nat \ {0} /\ DownloadSize \in Nat /\ DownloadSize >= StoreDefault

VARIABLES
  clock,
  runner,     \* what the runner does, the journal rows it replays, and the outputs
              \* of the script that nobody reads any more
  hand,       \* the line each goroutine has read and stamped, but not yet sent
  stream,     \* the open stream: "none", "open" or "broken"
  wire,       \* the entries sent on it that the controller has not inserted
  journal,    \* offline_logs, by id
  logTable,   \* task_logs, by id
  reader,     \* a client reading the task's log
  logAux      \* lines emitted, left unread, lost, replayed twice; faults

logVars == <<clock, runner, hand, stream, wire, journal, logTable, reader, logAux>>

--------------------------------------------------------------------------------
(* Entries                                                                 *)

NoLine == [line |-> 0, at |-> 0]
NextLine == logAux.emitted + 1

\* CURRENT_TIMESTAMP: the time of the INSERT, in seconds.
SavedAt_RoundedUp == clock - (clock % TicksPerSecond) + TicksPerSecond
SavedAt == clock - (clock % TicksPerSecond)

\* The error of saveLog is ignored.
SaveLog(l) ==
  \/ /\ journal' = Append(journal, [line |-> l, at |-> SavedAt, synced |-> FALSE])
     /\ UNCHANGED logAux
  \/ /\ logAux.faults < MaxFaults
     /\ logAux' = [logAux EXCEPT !.faults = @ + 1, !.lost = @ \cup {l}]
     /\ UNCHANGED journal

LinesIn(s) == {s[i].line : i \in DOMAIN s}
Breaks == logAux.faults < MaxFaults

--------------------------------------------------------------------------------
(* Replay of the journal when the agent starts                             *)

PendingLogs == InOrder({i \in DOMAIN journal : ~journal[i].synced}, <)

SyncRead ==
  /\ runner.pc = "start"
  /\ \/ /\ PendingLogs # <<>>
        /\ stream' = "open"
        /\ runner' = [runner EXCEPT !.pc = "sync", !.todo = PendingLogs]
     \/ /\ PendingLogs = <<>> \/ Breaks
        /\ runner' = [runner EXCEPT !.pc = "idle"]
        /\ UNCHANGED stream
  /\ UNCHANGED <<clock, hand, wire, journal, logTable, reader, logAux>>

SyncSend ==
  /\ runner.pc = "sync" /\ runner.todo # <<>>
  /\ stream = "open"
  /\ LET i == Head(runner.todo) IN
     /\ wire' = Append(wire, [line |-> journal[i].line, at |-> journal[i].at])
     /\ runner' = [runner EXCEPT !.todo = Tail(@), !.sent = @ \cup {i}]
  /\ UNCHANGED <<clock, hand, stream, journal, logTable, reader, logAux>>

\* The rows to mark are those whose Send succeeded, whether they arrived or not.
SyncedRows_None == {}
SyncedRows == runner.sent

\* CloseAndRecv returns when everything sent is inserted or the stream broke.
SyncMark ==
  /\ runner.pc = "sync"
  /\ stream = "broken" \/ (runner.todo = <<>> /\ wire = <<>>)
  /\ stream' = "none"
  /\ runner' = [pc |-> "idle", todo |-> <<>>, sent |-> {}, stopped |-> {}]
  /\ \/ /\ journal' = [i \in DOMAIN journal |->
                        [journal[i] EXCEPT !.synced = @ \/ i \in SyncedRows]]
        /\ UNCHANGED logAux
     \/ /\ Breaks
        /\ logAux' = [logAux EXCEPT !.faults = @ + 1,
                        !.resent = @ \cup {journal[i].line : i \in runner.sent}]
        /\ UNCHANGED journal
  /\ UNCHANGED <<clock, hand, wire, logTable, reader>>

--------------------------------------------------------------------------------
(* A script, and a message of the agent                                    *)

\* With no stream the script runs all the same.
OpenStream ==
  /\ runner.pc = "idle"
  /\ runner' = [runner EXCEPT !.pc = "script", !.stopped = {}]
  /\ \/ stream' = "open"
     \/ Breaks /\ stream' = "none"
  /\ UNCHANGED <<clock, hand, wire, journal, logTable, reader, logAux>>

\* A goroutine reads a line and stamps it.
ScanLine(o) ==
  /\ runner.pc = "script"
  /\ hand[o] = NoLine /\ o \notin runner.stopped
  /\ NextLine <= Lines
  /\ hand' = [hand EXCEPT ![o] = [line |-> NextLine, at |-> clock]]
  /\ logAux' = [logAux EXCEPT !.emitted = @ + 1]
  /\ UNCHANGED <<clock, runner, stream, wire, journal, logTable, reader>>

\* A line of 64 KB or more ends the goroutine, as the scanner's error is not looked
\* at.  What the script writes to that output from then on is not read either.
UnreadLine(o) ==
  /\ runner.pc = "script"
  /\ hand[o] = NoLine
  /\ NextLine <= Lines
  /\ runner' = [runner EXCEPT !.stopped = @ \cup {o}]
  /\ logAux' = [logAux EXCEPT !.emitted = @ + 1, !.unread = @ \cup {NextLine}]
  /\ UNCHANGED <<clock, hand, stream, wire, journal, logTable, reader>>

\* Both goroutines send on one stream, in either order.
SendLine(o) ==
  /\ hand[o] # NoLine
  /\ stream = "open"
  /\ wire' = Append(wire, hand[o])
  /\ hand' = [hand EXCEPT ![o] = NoLine]
  /\ UNCHANGED <<clock, runner, stream, journal, logTable, reader, logAux>>

JournalLine_Unnoticed(o) == stream # "open" /\ UNCHANGED <<journal, logAux>>
JournalLine(o) == stream # "open" /\ SaveLog(hand[o].line)

\* Send fails, or there is no stream.
BufferLine(o) ==
  /\ hand[o] # NoLine
  /\ JournalLine(o)
  /\ hand' = [hand EXCEPT ![o] = NoLine]
  /\ UNCHANGED <<clock, runner, stream, wire, logTable, reader>>

CloseStream ==
  /\ runner.pc \in {"script", "message"}
  /\ \A o \in Outputs : hand[o] = NoLine
  /\ wire = <<>> \/ stream # "open"
  /\ runner' = [runner EXCEPT !.pc = "idle"]
  /\ stream' = "none"
  /\ UNCHANGED <<clock, hand, wire, journal, logTable, reader, logAux>>

\* streamAgentLog: one line on a stream of its own, or straight to the journal.
\* A Send that fails is not noticed: the line is lost.
StreamAgentLog ==
  /\ runner.pc = "idle"
  /\ NextLine <= Lines
  /\ runner' = [runner EXCEPT !.pc = "message"]
  /\ \/ /\ stream' = "open"
        /\ wire' = <<[line |-> NextLine, at |-> clock]>>
        /\ logAux' = [logAux EXCEPT !.emitted = @ + 1]
        /\ UNCHANGED journal
     \/ /\ Breaks
        /\ journal' = Append(journal, [line |-> NextLine, at |-> SavedAt, synced |-> FALSE])
        /\ logAux' = [logAux EXCEPT !.emitted = @ + 1, !.faults = @ + 1]
        /\ UNCHANGED <<stream, wire>>
  /\ UNCHANGED <<clock, hand, logTable, reader>>

--------------------------------------------------------------------------------
(* The controller                                                          *)

InsertTaskLog ==
  /\ wire # <<>>
  /\ logTable' = Append(logTable, Head(wire))
  /\ wire' = Tail(wire)
  /\ UNCHANGED <<clock, runner, hand, stream, journal, reader, logAux>>

\* The connection breaks, the controller stops or an INSERT is refused.
StreamBreaks ==
  /\ stream = "open" /\ Breaks
  /\ stream' = "broken"
  /\ wire' = <<>>
  /\ logAux' = [logAux EXCEPT !.faults = @ + 1, !.lost = @ \cup LinesIn(wire)]
  /\ UNCHANGED <<clock, runner, hand, journal, logTable, reader>>

\* The agent's process dies and starts again.
AgentRestarts ==
  /\ Breaks
  /\ runner' = [pc |-> "start", todo |-> <<>>, sent |-> {}, stopped |-> {}]
  /\ hand' = [o \in Outputs |-> NoLine]
  /\ stream' = "none"
  /\ wire' = <<>>
  /\ logAux' = [logAux EXCEPT !.faults = @ + 1,
       !.lost = @ \cup LinesIn(wire) \cup ({hand[o].line : o \in Outputs} \ {0}),
       !.resent = @ \cup {journal[i].line : i \in runner.sent}]
  /\ UNCHANGED <<clock, journal, logTable, reader>>

Tick ==
  /\ clock < MaxClock
  /\ clock' = clock + 1
  /\ UNCHANGED <<runner, hand, stream, wire, journal, logTable, reader, logAux>>

--------------------------------------------------------------------------------
(* GET /tasks/{id}/logs, /jobs/{id}/logs and /tasks/{id}/logs/download     *)

\* ORDER BY logged_at, id.
LoggedBefore(i, j) ==
  \/ logTable[i].at < logTable[j].at
  \/ logTable[i].at = logTable[j].at /\ i < j

StorePageSize(n) == IF n <= 0 \/ n > StoreMax THEN StoreDefault ELSE n

AfterCursor_Inclusive(cursor) == {i \in DOMAIN logTable : i >= cursor}
AfterCursor(cursor) == {i \in DOMAIN logTable : i > cursor}

ListTaskLogs(cursor, n) ==
  LET all == InOrder(AfterCursor(cursor), LoggedBefore)
      size == StorePageSize(n)
  IN SubSeq(all, 1, IF Len(all) < size THEN Len(all) ELSE size)

NoReader == [pc |-> "idle", cursor |-> 0, got |-> <<>>, there |-> 0]

StartReading ==
  /\ reader.pc = "idle"
  /\ reader' = [NoReader EXCEPT !.pc = "pages", !.there = Len(logTable)]
  /\ UNCHANGED <<clock, runner, hand, stream, wire, journal, logTable, logAux>>

\* The cursor of a full page is the id of its last row.
HandleListLogs ==
  /\ reader.pc = "pages"
  /\ LET page == ListTaskLogs(reader.cursor, PageSize)
         more == Len(page) = PageSize
     IN reader' = [reader EXCEPT
          !.got = @ \o page,
          !.pc = IF more THEN "pages" ELSE "done",
          !.cursor = IF more THEN Last(page) ELSE @]
  /\ UNCHANGED <<clock, runner, hand, stream, wire, journal, logTable, logAux>>

HandleDownloadLogs ==
  /\ reader.pc = "idle"
  /\ reader' = [pc |-> "downloaded", cursor |-> 0, there |-> Len(logTable),
                got |-> ListTaskLogs(0, DownloadSize)]
  /\ UNCHANGED <<clock, runner, hand, stream, wire, journal, logTable, logAux>>

--------------------------------------------------------------------------------
LogsInit ==
  /\ clock = 0
  /\ runner = [pc |-> "start", todo |-> <<>>, sent |-> {}, stopped |-> {}]
  /\ hand = [o \in Outputs |-> NoLine]
  /\ stream = "none"
  /\ wire = <<>>
  /\ journal = <<>>
  /\ logTable = <<>>
  /\ reader = NoReader
  /\ logAux = [emitted |-> 0, unread |-> {}, lost |-> {}, resent |-> {}, faults |-> 0]

LogsNext ==
  \/ SyncRead \/ SyncSend \/ SyncMark
  \/ OpenStream \/ CloseStream \/ StreamAgentLog
  \/ \E o \in Outputs : ScanLine(o) \/ UnreadLine(o) \/ SendLine(o) \/ BufferLine(o)
  \/ InsertTaskLog \/ StreamBreaks \/ AgentRestarts
  \/ StartReading \/ HandleListLogs \/ HandleDownloadLogs
  \/ Tick

LogsSpec == LogsInit /\ [][LogsNext]_logVars

--------------------------------------------------------------------------------
(* Properties                                                              *)

Entry == [line : 1..Lines, at : 0..MaxClock]

JournalRow == [line : 1..Lines, at : 0..MaxClock, synced : BOOLEAN]

LogsTypeOK ==
  /\ clock \in 0..MaxClock
  /\ runner \in [pc : {"start", "sync", "idle", "script", "message"},
                 todo : Seq(Nat), sent : SUBSET Nat, stopped : SUBSET Outputs]
  /\ runner.sent \subseteq DOMAIN journal /\ Range(runner.todo) \subseteq DOMAIN journal
  /\ hand \in [Outputs -> Entry \cup {NoLine}]
  /\ stream \in {"none", "open", "broken"}
  /\ wire \in Seq(Entry) /\ (wire # <<>> => stream = "open")
  /\ logTable \in Seq(Entry)
  /\ journal \in Seq(JournalRow) /\ \A i \in DOMAIN journal : journal[i].at <= clock
  /\ logAux \in [emitted : 0..Lines, unread : SUBSET (1..Lines), lost : SUBSET (1..Lines),
                 resent : SUBSET (1..Lines), faults : 0..MaxFaults]

Pending == {journal[i].line : i \in {k \in DOMAIN journal : ~journal[k].synced}}

\* Where a line may be that a goroutine has read, or that is the agent's own: with
\* its goroutine, on the stream, in task_logs or waiting in the journal, unless a
\* broken stream, a crash or a failed write to the journal took it.  The fallback
\* drops none.  Of the lines a script writes, those from one that is too long for
\* the scanner to the end of that output are never read, without any fault, and
\* the property says nothing of them.
LinesAccounted ==
  (1..logAux.emitted) \ logAux.unread \subseteq
    {hand[o].line : o \in Outputs} \cup LinesIn(wire) \cup LinesIn(logTable)
      \cup Pending \cup logAux.lost

\* A line is in task_logs once, and not replayed again, unless the replay that
\* sent it could not mark it: the fallback to the journal never doubles a line.
LinesOnce ==
  \A l \in (1..logAux.emitted) \ logAux.resent :
    Cardinality({i \in DOMAIN logTable : logTable[i].line = l})
      + Cardinality({i \in DOMAIN wire : wire[i].line = l})
      + Cardinality({i \in DOMAIN journal : journal[i].line = l /\ ~journal[i].synced
                                            /\ i \notin runner.sent}) <= 1

\* Reading page by page while lines come in yields the rows without a gap or a
\* repetition, and at least those that were there at the start.
WalkComplete ==
  reader.pc = "done" =>
    /\ reader.got = [i \in 1..Len(reader.got) |-> i]
    /\ Len(reader.got) >= reader.there

Chronological ==
  \A i, j \in DOMAIN logTable : i < j => logTable[i].at <= logTable[j].at

\* That is so as long as the rows' ids and times agree; and a download has every
\* row if the store's page size holds them.
ReadsComplete ==
  Chronological =>
    /\ WalkComplete
    /\ reader.pc = "downloaded" =>
         /\ reader.got = [i \in 1..Len(reader.got) |-> i]
         /\ reader.there <= StoreDefault => Len(reader.got) = reader.there

================================================================================
