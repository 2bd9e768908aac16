----------------------------- MODULE ProgramLog -----------------------------
(***************************************************************************)
(* One log: the FileLogger and the CompositeLogger around it               *)
(* (logger/log.go) and the goroutines of process/process.go that use them. *)
(* The log belongs to a program (a NullLocker, a child that starts and     *)
(* ends) or to supervisord itself (a Mutex, a writer that never ends).     *)
(*                                                                         *)
(*   run      Process.run between p.cmd.Start and the release of p.lock    *)
(*   writer   the goroutine of os/exec that copies the child's output, or  *)
(*            the goroutine of supervisord that logs                       *)
(*   waiter   waitForExit          closer   the logger-closing goroutine   *)
(*   clear    a client in ClearAllLogFile                                  *)
(*                                                                         *)
(* Every attempt to start the program opens the log anew and has a waiter  *)
(* and a closer of its own, but those of every attempt close the logger    *)
(* the program has when they get to it.                                    *)
(*                                                                         *)
(* A byte of output is a number, 1, 2, 3, ... in the order of the writes.  *)
(* p.lock, the composite lock and the locker are not variables: they are   *)
(* held exactly at the control points named below.  ReadLog, ReadTailLog   *)
(* and ClearAllLogFile bypass the composite lock.                          *)
(***************************************************************************)
EXTENDS Integers, Sequences

CONSTANTS
  Lockers,        \* the lockers a log may be created with
  MaxSize,        \* *_logfile_maxbytes
  Backups,        \* *_logfile_backups
  EventsEnabled,  \* stdout_events_enabled
  Descendants,    \* may a descendant outlive the child and keep its output pipe?
  MaxAttempts,    \* bound: times the program is started
  MaxChunk,       \* bound: the most bytes of one write
  Found,          \* bound: sizes of the files l.name.1 and l.name that are found at the start
  MaxByte,        \* bound: bytes written over a whole behaviour, the found ones included
  IntLimit,       \* 2^63: int64 is -IntLimit .. IntLimit - 1
  TailLengths,    \* bound: the lengths a tailing client asks for
  ReadArgs        \* the offsets and lengths clients read with

ASSUME LockersAssumption == Lockers \subseteq {"null", "mutex"}
ASSUME SizeAssumption == MaxSize \in Nat \ {0} /\ Backups \in Nat
ASSUME EventsAssumption == EventsEnabled \in BOOLEAN
ASSUME DescendantsAssumption == Descendants \in BOOLEAN
ASSUME BoundAssumption == MaxChunk \in Nat \ {0} /\ MaxByte \in Nat
ASSUME MoreBoundsAssumption == MaxAttempts \in Nat \ {0} /\ TailLengths \subseteq Nat \ {0}
ASSUME FoundAssumption == Found \subseteq Nat \X Nat /\ \A f \in Found : f[1] = 0 \/ f[1] >= MaxSize
ASSUME IntAssumption == IntLimit \in Nat \ {0} /\ ReadArgs \subseteq -IntLimit .. IntLimit - 1

VARIABLES
  locker,    \* "null": a program's log; "mutex": supervisord's own
  run, child, writer, clear,
  attempt,   \* the current attempt
  waiter, closer,  \* of every attempt
  piped,     \* a descendant of the child keeps its output pipe open
  handle,    \* l.file: "open", "closed" (not nil) or "nil"
  cur,       \* the bytes of the file l.name
  backup,    \* backup[i]: the bytes of l.name.i, << >> if there is no such file
  fileSize,  \* l.fileSize
  next,      \* the next byte of output
  opened,    \* ghost: the value of next when the logger was opened
  refused,   \* a write to the logger has failed
  intruded,  \* ghost: an earlier attempt's goroutine has closed the logger
  base,      \* the first byte written after the last clear, 0 before it
  tail,      \* the offset a tailing client will ask for
  seen       \* the last byte it has been given, 0 if none

closeVars  == <<waiter, closer>>
threadVars == <<run, child, piped, writer, attempt, closeVars>>
fileVars   == <<handle, cur, backup, fileSize>>
outVars    == <<next, opened, refused, intruded>>
readVars   == <<tail, seen>>
vars == <<locker, threadVars, clear, fileVars, outVars, base, readVars>>

Attempts == 1 .. MaxAttempts

\* backupFiles keeps l.name.1 even when no backup is configured.
Files == 1 .. (IF Backups = 0 THEN 1 ELSE Backups)

\* The bytes of one write of k bytes.
Chunk(k) == [i \in 1..k |-> next + i - 1]

-----------------------------------------------------------------------------
\* The locks.

\* p.lock: run() until it has set the pids, waitForExit while it closes.
ProcessLocked == run \in {"exec", "setPid"} \/ \E a \in Attempts : waiter[a] = "closing"

\* CompositeLogger.lock and the locker: FileLogger.Write from its first to its
\* last step.  SetPid and Close are one step each.
Writing == writer \in {"emit", "count", "backup", "reopen"}
CompositeLocked_LeftByError == Writing \/ writer = "ended"
CompositeLocked == Writing
Locked == locker = "mutex" /\ (Writing \/ clear # "idle")

-----------------------------------------------------------------------------
\* NewFileLogger appends to the file it finds, of any size, and asks for that.
InitialSize_Zero == 0
InitialSize == Len(cur)

\* supervisord's log is in use from the start, by a process that does not end.
Init ==
  /\ locker \in Lockers
  /\ run = IF locker = "null" THEN "exec" ELSE "released"
  /\ child = IF locker = "null" THEN "none" ELSE "alive"
  /\ writer = "idle" /\ clear = "idle" /\ piped = FALSE /\ attempt = 1
  /\ waiter = [a \in Attempts |-> "none"] /\ closer = [a \in Attempts |-> "none"]
  /\ handle = "open"
  /\ \E f \in Found :
       /\ cur = [i \in 1 .. f[2] |-> f[1] + i]
       /\ backup = [i \in Files |-> IF i = 1 THEN [j \in 1 .. f[1] |-> j] ELSE << >>]
       /\ next = f[1] + f[2] + 1
  /\ fileSize = InitialSize /\ opened = next
  /\ refused = FALSE /\ intruded = FALSE /\ base = 0
  /\ tail = 0 /\ seen = 0

-----------------------------------------------------------------------------
\* run(): p.cmd.Start; SetPid of the loggers; the goroutines; the unlock.

RunStartsChild ==
  /\ run = "exec"
  /\ run' = "setPid" /\ child' = "alive"
  /\ piped' \in {FALSE} \cup (IF Descendants THEN {TRUE} ELSE {})
  /\ UNCHANGED <<locker, writer, attempt, closeVars, clear, fileVars, outVars, base, readVars>>

RunSetsPid ==
  /\ run = "setPid" /\ ~CompositeLocked
  /\ run' = "released"
  /\ closer' = [closer EXCEPT ![attempt] = "polling"]
  /\ waiter' = [waiter EXCEPT ![attempt] = "waiting"]
  /\ UNCHANGED <<locker, child, piped, writer, attempt, clear, fileVars, outVars, base, readVars>>

\* Only a program's child ends.
ChildExits ==
  /\ child = "alive" /\ locker = "null"
  /\ child' = "dead"
  /\ UNCHANGED <<locker, run, piped, writer, attempt, closeVars, clear, fileVars, outVars, base, readVars>>

\* A descendant keeps the pipe for as long as it likes.
PipeCloses ==
  /\ piped /\ child = "dead"
  /\ piped' = FALSE
  /\ UNCHANGED <<locker, run, child, writer, attempt, closeVars, clear, fileVars, outVars, base, readVars>>

\* The program is started again, by run() or by another Start: createProgramCommand
\* opens new loggers on the same file.  The old waiter may not have closed the
\* old ones.  Bound: no log is both cleared and opened anew.
RunRetries ==
  /\ run = "released" /\ waiter[attempt] \in {"stored", "done"} /\ ~ProcessLocked
  /\ attempt < MaxAttempts /\ clear = "idle" /\ base = 0
  /\ attempt' = attempt + 1
  /\ run' = "exec" /\ child' = "none" /\ piped' = FALSE /\ writer' = "idle"
  /\ handle' = "open" /\ fileSize' = InitialSize /\ opened' = next
  /\ refused' = FALSE /\ intruded' = FALSE
  /\ UNCHANGED <<locker, closeVars, clear, cur, backup, next, base, readVars>>

-----------------------------------------------------------------------------
\* CompositeLogger.Write and FileLogger.Write.  A child may have left output
\* in the pipe when it ends.  Only the writer uses fileSize, so it is counted
\* with the write, before the event.

WriterAt(from, to) == writer = from /\ writer' = to

CanWrite == writer = "idle" /\ child # "none" /\ ~Locked

WriteFile(k) ==
  /\ CanWrite /\ handle = "open" /\ next + k <= MaxByte + 1
  /\ WriterAt("idle", "emit")
  /\ cur' = cur \o Chunk(k) /\ next' = next + k /\ fileSize' = fileSize + k
  /\ UNCHANGED <<locker, run, child, piped, attempt, closeVars, clear, handle, backup, opened, refused, intruded, base, readVars>>

\* A nil or closed handle: io.Copy ends, logrus drops the line.
WriteRefused ==
  /\ CanWrite /\ handle # "open"
  /\ WriterAt("idle", IF locker = "null" THEN "ended" ELSE "idle")
  /\ refused' = TRUE
  /\ UNCHANGED <<locker, run, child, piped, attempt, closeVars, clear, fileVars, next, opened, intruded, base, readVars>>

\* emitLogEvent asks for the pid, GetPid for p.lock.
WriteEmits ==
  /\ EventsEnabled /\ locker = "null" => ~ProcessLocked
  /\ WriterAt("emit", "count")
  /\ UNCHANGED <<locker, run, child, piped, attempt, closeVars, clear, fileVars, outVars, base, readVars>>

\* fileSize is only an upper bound: a file that is created anew leaves it
\* alone, so at the limit the size of the file itself decides.
MeasuredSize == IF fileSize >= MaxSize THEN Len(cur) ELSE fileSize

WriteCounts ==
  /\ fileSize' = MeasuredSize
  /\ WriterAt("count", IF fileSize' >= MaxSize THEN "backup" ELSE "idle")
  /\ handle' = IF fileSize' >= MaxSize THEN "nil" ELSE handle
  /\ UNCHANGED <<locker, run, child, piped, attempt, closeVars, clear, cur, backup, outVars, base, readVars>>

\* backupFiles: name.(i) becomes name.(i+1) for i = Backups-1 .. 1, if it
\* exists, and name becomes name.1, over whatever was there.
Shifted_OneTooFew ==
  [i \in Files |-> IF i = 1 THEN cur
                   ELSE IF i < Backups /\ backup[i-1] # << >> THEN backup[i-1]
                   ELSE IF i + 1 < Backups THEN << >> ELSE backup[i]]
Shifted ==
  [i \in Files |-> IF i = 1 THEN cur
                   ELSE IF backup[i-1] # << >> THEN backup[i-1]
                   ELSE IF i < Backups THEN << >> ELSE backup[i]]

WriteBacksUp ==
  /\ WriterAt("backup", "reopen")
  /\ backup' = Shifted /\ cur' = << >>
  /\ UNCHANGED <<locker, run, child, piped, attempt, closeVars, clear, handle, fileSize, outVars, base, readVars>>

\* openFile(true).
WriteReopens ==
  /\ WriterAt("reopen", "idle")
  /\ handle' = "open" /\ cur' = << >>
  /\ UNCHANGED <<locker, run, child, piped, attempt, closeVars, clear, backup, fileSize, outVars, base, readVars>>

\* End of file: the child is dead, the pipe drained and in nobody's hands.
WriteEnds ==
  /\ child = "dead" /\ ~piped /\ WriterAt("idle", "ended")
  /\ UNCHANGED <<locker, run, child, piped, attempt, closeVars, clear, fileVars, outVars, base, readVars>>

Writer ==
  \/ WriteRefused \/ WriteEmits \/ WriteCounts \/ WriteBacksUp \/ WriteReopens \/ WriteEnds
  \/ \E k \in 1..MaxChunk : WriteFile(k)

-----------------------------------------------------------------------------
\* Closing: CompositeLogger.Close under its lock, FileLogger.Close under none,
\* of the logger the program has by then.

\* p.cmd.Wait returns when the child is dead and the copying has ended.
Drained == child = "dead" /\ writer = "ended"

WaiterAt(a, from, to) == waiter[a] = from /\ waiter' = [waiter EXCEPT ![a] = to]
CloserAt(a, from, to) == closer[a] = from /\ closer' = [closer EXCEPT ![a] = to]

CloseLogger(a) ==
  /\ ~CompositeLocked
  /\ handle' = "nil"
  /\ intruded' = (intruded \/ a # attempt)

WaiterReturns(a) ==
  /\ a = attempt /\ Drained
  /\ WaiterAt(a, "waiting", "stored")
  /\ UNCHANGED <<locker, run, child, piped, writer, attempt, closer, clear, fileVars, outVars, base, readVars>>

WaiterLocks(a) ==
  /\ ~ProcessLocked
  /\ WaiterAt(a, "stored", "closing")
  /\ UNCHANGED <<locker, run, child, piped, writer, attempt, closer, clear, fileVars, outVars, base, readVars>>

WaiterCloses(a) ==
  /\ WaiterAt(a, "closing", "done") /\ CloseLogger(a)
  /\ UNCHANGED <<locker, run, child, piped, writer, attempt, closer, clear, cur, backup, fileSize, next, opened, refused, base, readVars>>

\* The closing goroutine polls IsRunning, the state of the program and not of its
\* attempt: it was Stopped by waitForExit and is Starting again after a retry.
CloserSees_Dead(a) ==
  /\ child = "dead" /\ CloserAt(a, "polling", "closing")
  /\ UNCHANGED <<locker, run, child, piped, writer, attempt, waiter, clear, fileVars, outVars, base, readVars>>
CloserSees(a) ==
  /\ waiter[attempt] \in {"stored", "closing", "done"} /\ CloserAt(a, "polling", "closing")
  /\ UNCHANGED <<locker, run, child, piped, writer, attempt, waiter, clear, fileVars, outVars, base, readVars>>

CloserCloses(a) ==
  /\ CloserAt(a, "closing", "done") /\ CloseLogger(a)
  /\ UNCHANGED <<locker, run, child, piped, writer, attempt, waiter, clear, cur, backup, fileSize, next, opened, refused, base, readVars>>

Closing(a) ==
  WaiterReturns(a) \/ WaiterLocks(a) \/ WaiterCloses(a) \/ CloserSees(a) \/ CloserCloses(a)

-----------------------------------------------------------------------------
\* Clients.

\* ClearAllLogFile: remove the backups; openFile(true) closes and creates.
\* Bound: it is called once, during the first attempt.
ClearRemoves ==
  /\ clear = "idle" /\ base = 0 /\ attempt = 1 /\ ~Locked
  /\ clear' = "close"
  /\ backup' = [i \in Files |-> IF i <= Backups THEN << >> ELSE backup[i]]
  /\ UNCHANGED <<locker, threadVars, handle, cur, fileSize, outVars, base, readVars>>

ClearCloses ==
  /\ clear = "close"
  /\ clear' = "create"
  /\ handle' = IF handle = "open" THEN "closed" ELSE handle
  /\ UNCHANGED <<locker, threadVars, cur, backup, fileSize, outVars, base, readVars>>

ClearCreates ==
  /\ clear = "create"
  /\ clear' = "idle"
  /\ handle' = "open" /\ cur' = << >> /\ base' = next
  /\ UNCHANGED <<locker, threadVars, backup, fileSize, outVars, readVars>>

\* int64 addition.
Wrap(n) == ((n + IntLimit) % (2 * IntLimit)) - IntLimit

\* What a read of a file of `size' bytes answers: count bytes from offset from.
Answer(from, count) == [fault |-> FALSE, from |-> from, count |-> count]
Fault == [fault |-> TRUE, from |-> 0, count |-> 0]

\* How much of `length' bytes from `offset' is in the file.
Clipped_NotAtAll(size, offset, length) == length
Clipped(size, offset, length) ==
  IF Wrap(offset + length) > size THEN size - offset ELSE length

ReadLog(size, offset, length) ==
  IF (offset < 0 /\ length # 0) \/ (offset >= 0 /\ length < 0) THEN Fault
  ELSE IF offset < 0
    THEN LET from == IF size + offset < 0 THEN 0 ELSE size + offset IN Answer(from, size - from)
  ELSE IF length = 0
    THEN IF offset > size THEN Answer(0, 0) ELSE Answer(offset, size - offset)
  ELSE IF offset >= size THEN Answer(0, 0)
  ELSE Answer(offset, Clipped(size, offset, length))

\* A client that tails asks for the offset the last answer gave it.
TailOffset_Restarts(size, offset, length) ==
  IF offset >= size THEN 0 ELSE offset + Clipped(size, offset, length)
TailOffset(size, offset, length) ==
  IF offset >= size THEN size ELSE offset + Clipped(size, offset, length)

\* ReadTailLog, for programs only, fails while the file does not exist.  Bound:
\* the sum of what a client asks for fits an int64.
ReadTailLog(length) ==
  /\ locker = "null" /\ writer # "reopen"
  /\ tail + length < IntLimit
  /\ tail' = TailOffset(Len(cur), tail, length)
  /\ seen' = IF tail >= Len(cur) THEN seen ELSE cur[tail']
  /\ UNCHANGED <<locker, threadVars, clear, fileVars, outVars, base>>

Client ==
  \/ ClearRemoves \/ ClearCloses \/ ClearCreates
  \/ \E n \in TailLengths : ReadTailLog(n)

Next ==
  \/ RunStartsChild \/ RunSetsPid \/ RunRetries
  \/ ChildExits \/ PipeCloses
  \/ Writer
  \/ \E a \in Attempts : Closing(a)
  \/ Client

Spec == Init /\ [][Next]_vars

-----------------------------------------------------------------------------
(* Fairness.  Every goroutine proceeds; sync.Mutex and sync.RWMutex starve   *)
(* nobody, so a goroutine that waits for a lock gets it when it is free      *)
(* again and again.  Every waiter takes each of its steps once, so one       *)
(* condition serves them all.  No child has to end, no descendant to let the *)
(* pipe go, no program to be started again and no client to call; nothing    *)
(* below depends on the closing goroutines.                                  *)

Fairness ==
  /\ WF_vars(RunStartsChild) /\ SF_vars(RunSetsPid)
  /\ WF_vars(WriteCounts \/ WriteBacksUp \/ WriteReopens \/ WriteEnds) /\ SF_vars(WriteEmits)
  /\ WF_vars(\E a \in Attempts : WaiterReturns(a))
  /\ SF_vars(\E a \in Attempts : WaiterLocks(a))
  /\ SF_vars(\E a \in Attempts : WaiterCloses(a))

FairSpec == Spec /\ Fairness

-----------------------------------------------------------------------------
(* Properties.                                                               *)

TypeOK ==
  /\ locker \in Lockers
  /\ run \in {"exec", "setPid", "released"} /\ child \in {"none", "alive", "dead"}
  /\ writer \in {"idle", "emit", "count", "backup", "reopen", "ended"}
  /\ piped \in BOOLEAN /\ attempt \in Attempts
  /\ waiter \in [Attempts -> {"none", "waiting", "stored", "closing", "done"}]
  /\ closer \in [Attempts -> {"none", "polling", "closing", "done"}]
  /\ clear \in {"idle", "close", "create"}
  /\ handle \in {"open", "closed", "nil"}
  /\ cur \in Seq(Nat) /\ backup \in [Files -> Seq(Nat)]
  /\ fileSize \in Nat /\ next \in Nat /\ opened \in Nat /\ base \in Nat
  /\ refused \in BOOLEAN /\ intruded \in BOOLEAN
  /\ tail \in Nat /\ seen \in Nat

\* Clears of a program's log race its writer: nothing is said of what is kept.
ClearsAreSafe == locker = "mutex" \/ (base = 0 /\ clear = "idle")

\* Without a configured backup a clear leaves l.name.1, older than what it removed.
ClearsRemoveAll == Backups > 0 \/ (base = 0 /\ clear = "idle")

\* From the oldest backup to the current file the bytes are the newest ones,
\* without a gap or a repetition; older ones are missing only because every
\* configured backup exists and is full, or because they were cleared.
NewestDataKept ==
  LET Joined[i \in 0 .. Len(backup)] ==
        IF i = 0 THEN cur ELSE backup[i] \o Joined[i-1]
      kept == Joined[Len(backup)]
  IN (ClearsAreSafe /\ ClearsRemoveAll /\ clear = "idle") =>
       /\ \A i \in 1 .. Len(kept) : kept[i] = next - Len(kept) + i - 1
       /\ (next - Len(kept) > 1 /\ next - Len(kept) > base) => \A i \in Files : Len(backup[i]) >= MaxSize

\* Between two writes the current file is below the limit, whoever cleared or
\* rotated it before, although fileSize is never reset.  Only a file that was
\* found above it, when the log was opened, stays so until the first write.
CurrentBounded == writer = "idle" => Len(cur) < MaxSize \/ next = opened

\* A client that tails the log is never given a byte twice or out of order,
\* across rotations and clears: its next answer is newer than all before.
TailNeverRepeats == tail < Len(cur) => cur[tail + 1] > seen

\* Output is refused only if waitForExit or the closing goroutine of an EARLIER
\* attempt closed the log the program has now: its own attempt's close it after
\* the last write, and no write meets the handle a rotation has closed.
OutputAccepted == ClearsAreSafe /\ ~intruded => ~refused

\* ReadLog answers with exactly the bytes asked for that the file has: the last
\* -offset bytes, the bytes from offset on, or length bytes from offset on.  It
\* never reads outside the file, which would fail or allocate without limit.
Wanted(size, offset, length) ==
  {i \in 0 .. size - 1 :
     IF offset < 0 THEN i >= size + offset
     ELSE i >= offset /\ (length = 0 \/ i < offset + length)}
AnswersWanted(size, offset, length) ==
  LET r == ReadLog(size, offset, length)
  IN (~r.fault /\ offset + length < IntLimit) =>
       r.count >= 0 /\ r.from .. r.from + r.count - 1 = Wanted(size, offset, length)
ReadsAreExact == \A o, n \in ReadArgs : AnswersWanted(Len(cur), o, n)

WaiterIsDone == waiter[attempt] = "done" \/ run = "exec"

\* Once a program has ended, with all who had its output pipe, waitForExit gets to
\* closing the loggers, unless the program is started again before.
LoggerCloses == (child = "dead" /\ ~piped) ~> WaiterIsDone

\* "we need to make sure the logger is closed when the process stops running".
LoggerClosesOnExit == child = "dead" ~> WaiterIsDone
=============================================================================
