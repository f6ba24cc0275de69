------------------------------ MODULE FileTail ------------------------------
(***************************************************************************)
(* A file-out node that writes a file (internal/nodes/filesystem/          *)
(* file_out.go) and an incremental file-read node that follows it          *)
(* (file_read.go, cursor.go), in two goroutines.  The cursor lives in the  *)
(* persistent context of the flow, so it survives a crash; the file can    *)
(* change between any two of the reader's calls.  A byte is a newline or   *)
(* not, and carries a number by which the properties tell bytes apart.     *)
(***************************************************************************)
EXTENDS Integers, Sequences, FiniteSets

CONSTANTS FtModes,       \* modes file-out may have
          FtFromStarts,  \* fromStart settings of the reader
          FtDelims,      \* "line" (LF, CRLF, auto) and "none"
          FtChunks,      \* payloads: sequences of "c" and "n" (newline)
          FtMaxLine,     \* maxLineBytes
          FtWrites,      \* bound: messages to file-out
          FtReads,       \* bound: messages to file-read
          FtCrashes      \* bound: crashes of the process

ASSUME FtAssumption ==
  /\ FtFromStarts \subseteq BOOLEAN /\ FtChunks \subseteq Seq({"c", "n"})
  /\ FtMaxLine \in Nat /\ FtWrites \in Nat /\ FtReads \in Nat /\ FtCrashes \in Nat

VARIABLES ftCfg,     \* mode, fromStart and delimiter
          ftFile,    \* the bytes in the file, <<>> also when it was never made
          ftExists,  \* whether the file exists
          ftNext,    \* bytes written so far
          ftOut,     \* file-out: idle, or open with the data still to write
          ftCursor,  \* the stored cursor, Absent at first
          ftRead,    \* what the reader is doing
          ftSent,    \* numbers of the bytes sent since the file was last truncated
          ftPinned,  \* the size of the file at the first read,
          ftSeen,    \* and at the last one
          ftLost,    \* a truncation went unseen, or a crash hit between save and send
          ftLeft     \* what the bounds have left

ftVars == <<ftCfg, ftFile, ftExists, ftNext, ftOut, ftCursor, ftRead, ftSent, ftPinned, ftSeen,
            ftLost, ftLeft>>

FtAbsent == -1   \* no value stored
FtNoData == [step |-> "idle", data |-> <<>>]
FtIdle == [step |-> "idle", size |-> 0, cursor |-> 0, reset |-> FALSE, data |-> <<>>]

FtTypeOK ==
  /\ ftCfg.mode \in FtModes /\ ftCfg.fromStart \in FtFromStarts /\ ftCfg.delim \in FtDelims
  /\ \A i \in DOMAIN ftFile : ftFile[i].nl \in BOOLEAN /\ ftFile[i].id \in 1 .. ftNext
  /\ ftCursor \in Nat \cup {FtAbsent}
  /\ ftRead.step \in {"idle", "load", "open", "save", "send"}
  /\ ftSent \in Seq(1 .. ftNext)
  /\ ftLost \in BOOLEAN

FtInit ==
  /\ ftCfg \in [mode : FtModes, fromStart : FtFromStarts, delim : FtDelims]
  /\ ftFile = <<>> /\ ftExists = FALSE /\ ftNext = 0 /\ ftOut = FtNoData
  /\ ftCursor = FtAbsent /\ ftRead = FtIdle /\ ftSent = <<>> /\ ftPinned = FtAbsent /\ ftSeen = 0
  /\ ftLost = FALSE
  /\ ftLeft = [writes |-> FtWrites, reads |-> FtReads, crashes |-> FtCrashes]

-----------------------------------------------------------------------------
(* file-out.                                                                *)

\* HandleMessage up to OpenFile, whose flags come from the mode: create fails
\* on an existing file, overwrite truncates it.
FtOpen(chunk) ==
  /\ ftOut.step = "idle" /\ ftLeft.writes > 0
  /\ ftLeft' = [ftLeft EXCEPT !.writes = @ - 1]
  /\ IF ftCfg.mode = "create" /\ ftExists
     THEN UNCHANGED <<ftFile, ftExists, ftOut, ftSent, ftLost>>
     ELSE /\ ftOut' = [step |-> "open", data |-> chunk] /\ ftExists' = TRUE
          /\ IF ftCfg.mode = "overwrite"
             THEN /\ ftFile' = <<>> /\ ftSent' = <<>>
                  /\ ftLost' = (ftRead.step # "idle" /\ (ftLost \/ ftFile # <<>>))
             ELSE UNCHANGED <<ftFile, ftSent, ftLost>>
  /\ UNCHANGED <<ftCfg, ftNext, ftCursor, ftRead, ftPinned, ftSeen>>

\* f.Write of all the data, which may take the file past a cursor that was
\* beyond its end.
FtWrite ==
  /\ ftOut.step = "open" /\ ftOut' = FtNoData
  /\ ftFile' = ftFile \o [i \in 1 .. Len(ftOut.data) |->
                            [id |-> ftNext + i, nl |-> ftOut.data[i] = "n"]]
  /\ ftNext' = ftNext + Len(ftOut.data)
  /\ ftLost' = (ftLost \/ (ftCursor # FtAbsent /\ ftCursor > Len(ftFile) /\ Len(ftFile') >= ftCursor))
  /\ UNCHANGED <<ftCfg, ftExists, ftCursor, ftRead, ftSent, ftPinned, ftSeen, ftLeft>>

-----------------------------------------------------------------------------
(* file-read.                                                               *)

\* HandleMessage of a message to read: os.Stat, which fails without a file.
FtStat ==
  /\ ftRead.step = "idle" /\ ftLeft.reads > 0
  /\ ftLeft' = [ftLeft EXCEPT !.reads = @ - 1]
  /\ ftRead' = IF ftExists THEN [FtIdle EXCEPT !.step = "load", !.size = Len(ftFile)] ELSE ftRead
  /\ ftPinned' = IF ftExists /\ ftPinned = FtAbsent THEN Len(ftFile) ELSE ftPinned
  /\ ftSeen' = Len(ftFile)
  /\ UNCHANGED <<ftCfg, ftFile, ftExists, ftNext, ftOut, ftCursor, ftSent, ftLost>>

\* HandleMessage of a message with resetCursor: the key is deleted.
FtResetCursor ==
  /\ ftRead.step = "idle" /\ ftLeft.reads > 0 /\ ftCursor # FtAbsent
  /\ ftLeft' = [ftLeft EXCEPT !.reads = @ - 1]
  /\ ftCursor' = FtAbsent /\ ftSent' = <<>>
  /\ UNCHANGED <<ftCfg, ftFile, ftExists, ftNext, ftOut, ftRead, ftPinned, ftSeen, ftLost>>

loadCursor == IF ftCursor # FtAbsent THEN ftCursor
              ELSE IF ftCfg.fromStart THEN 0 ELSE ftRead.size

\* The stored cursor against the size: truncation, nothing new, or a read.
FtLoad ==
  LET reset == loadCursor > ftRead.size
      cursor == IF reset THEN 0 ELSE loadCursor
  IN  /\ ftRead.step = "load"
      /\ ftRead' = IF cursor # ftRead.size
                   THEN [ftRead EXCEPT !.step = "open", !.cursor = cursor, !.reset = reset]
                   ELSE IF reset THEN [ftRead EXCEPT !.step = "save", !.cursor = 0]
                   ELSE FtIdle
      /\ UNCHANGED <<ftCfg, ftFile, ftExists, ftNext, ftOut, ftCursor, ftSent, ftPinned, ftSeen, ftLost, ftLeft>>

\* Mutant: a partial line is sent as well.
trimNothing(buf) == buf

\* trimToLastLine: up to the last newline.
trimToLastLine(buf) ==
  LET ends == {i \in DOMAIN buf : buf[i].nl}
  IN  IF ends = {} THEN <<>> ELSE SubSeq(buf, 1, CHOOSE i \in ends : \A j \in ends : j <= i)

\* Open, Seek and ReadAll of what the file has now; a partial line leaves the
\* cursor as it is stored, also when a truncation was seen.
FtReadAll ==
  LET buf == IF ftRead.cursor >= Len(ftFile) THEN <<>>
             ELSE SubSeq(ftFile, ftRead.cursor + 1, Len(ftFile))
      data == IF ftCfg.delim = "none" THEN buf ELSE trimToLastLine(buf)
      tooLong == ftCfg.delim # "none" /\ data = <<>> /\ Len(buf) >= FtMaxLine
  IN  /\ ftRead.step = "open"
      /\ IF tooLong \/ (data = <<>> /\ ftCfg.delim # "none")
         THEN ftRead' = FtIdle /\ ftLost' = (ftLost \/ ftRead.reset)
         ELSE /\ ftRead' = [ftRead EXCEPT !.step = "save", !.data = data,
                                          !.cursor = @ + Len(data)]
              /\ UNCHANGED ftLost
      /\ UNCHANGED <<ftCfg, ftFile, ftExists, ftNext, ftOut, ftCursor, ftSent, ftPinned, ftSeen, ftLeft>>

\* saveCursor, before anything is sent.
FtSave ==
  /\ ftRead.step = "save"
  /\ ftCursor' = ftRead.cursor /\ ftRead' = [ftRead EXCEPT !.step = "send"]
  /\ UNCHANGED <<ftCfg, ftFile, ftExists, ftNext, ftOut, ftSent, ftPinned, ftSeen, ftLost, ftLeft>>

FtSend ==
  /\ ftRead.step = "send" /\ ftRead' = FtIdle
  /\ ftSent' = ftSent \o [i \in DOMAIN ftRead.data |-> ftRead.data[i].id]
  /\ UNCHANGED <<ftCfg, ftFile, ftExists, ftNext, ftOut, ftCursor, ftPinned, ftSeen, ftLost, ftLeft>>

\* The process dies and comes back: the file and the cursor are what is left.
FtCrash ==
  /\ ftLeft.crashes > 0 /\ ftLeft' = [ftLeft EXCEPT !.crashes = @ - 1]
  /\ ftOut' = FtNoData /\ ftRead' = FtIdle
  /\ ftLost' = (ftLost \/ ftRead.step = "send") /\ ftSeen' = 0
  /\ UNCHANGED <<ftCfg, ftFile, ftExists, ftNext, ftCursor, ftSent, ftPinned>>

-----------------------------------------------------------------------------
FtProgress == FtWrite \/ FtLoad \/ FtReadAll \/ FtSave \/ FtSend

FtNext ==
  \/ \E c \in FtChunks : FtOpen(c)
  \/ FtStat \/ FtResetCursor \/ FtCrash \/ FtProgress

\* A handler that has begun goes on.
FtSpec == FtInit /\ [][FtNext]_ftVars /\ WF_ftVars(FtProgress)

FtStored == IF ftCursor = FtAbsent THEN 0 ELSE ftCursor

(***************************************************************************)
(* Between reads, what was sent of the file is exactly what lies before    *)
(* the cursor, each byte once and in order, and with a delimiter the       *)
(* cursor stands behind a newline: a line is sent whole or not yet.  It    *)
(* holds whatever the writer does between stat, read and save, and across  *)
(* crashes; the exceptions are a truncation that grew back unseen or fell  *)
(* into a read, one whose first line was still partial when it was seen,   *)
(* and a crash between saving the cursor and sending.                      *)
(***************************************************************************)
FtTailExact ==
  (ftCfg.fromStart /\ ~ftLost /\ ftRead.step = "idle" /\ FtStored <= Len(ftFile)) =>
    /\ ftSent = [i \in 1 .. FtStored |-> ftFile[i].id]
    /\ (ftCfg.delim # "none" /\ FtStored > 0) => ftFile[FtStored].nl

(***************************************************************************)
(* "fromStart=false (default): cursor is pinned to the current file size   *)
(* at the first Start() call - only content written after deploy is        *)
(* emitted" (docs/nodes/file-read.md): when a read has ended, the lines    *)
(* appended since the first one have been sent.                            *)
(***************************************************************************)
FtTailFromEnd ==
  (~ftCfg.fromStart /\ ftCfg.mode = "append" /\ ~ftLost /\ ftRead.step = "idle"
    /\ ftPinned # FtAbsent) =>
    \A i \in ftPinned + 1 .. ftSeen :
      (\E j \in i .. ftSeen : ftFile[j].nl) => \E k \in DOMAIN ftSent : ftSent[k] = ftFile[i].id

\* A message to either node is being handled, which must come to an end.
FtPending == ftRead.step # "idle" \/ ftOut.step # "idle"
=============================================================================
