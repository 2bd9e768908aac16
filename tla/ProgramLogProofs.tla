-------------------------- MODULE ProgramLogProofs --------------------------
(***************************************************************************)
(* Proofs about ProgramLog, for every size, number of backups, kind of log *)
(* and width of integers.                                                  *)
(***************************************************************************)
EXTENDS ProgramLog, Induction

-----------------------------------------------------------------------------
(* Reading.                                                                  *)

\* A remainder by more than the dividend is the dividend.
LEMMA SmallRemainder == ASSUME NEW m \in Nat, NEW y \in 0 .. m - 1 PROVE y % m = y
  OBVIOUS

\* int64 addition is exact where the sum fits.
LEMMA WrapIsExact == ASSUME NEW n \in -IntLimit .. IntLimit - 1 PROVE Wrap(n) = n
  <1>1. n + IntLimit \in 0 .. 2 * IntLimit - 1 /\ 2 * IntLimit \in Nat  BY IntAssumption
  <1>2. (n + IntLimit) % (2 * IntLimit) = n + IntLimit
    BY <1>1, SmallRemainder
  <1> QED  BY <1>2, IntAssumption DEF Wrap

\* ReadLog answers exactly what was asked for, for a file of any size.
LEMMA ReadExact ==
  ASSUME NEW size \in Nat, NEW offset \in -IntLimit .. IntLimit - 1, NEW length \in -IntLimit .. IntLimit - 1
  PROVE  AnswersWanted(size, offset, length)
  <1> DEFINE r == ReadLog(size, offset, length)
  <1> SUFFICES ASSUME ~r.fault, offset + length < IntLimit
               PROVE  r.count >= 0 /\ r.from .. r.from + r.count - 1 = Wanted(size, offset, length)
    BY DEF AnswersWanted
  <1> USE IntAssumption DEF ReadLog, Answer, Fault, Wanted
  <1>1. CASE offset < 0
    <2>1. length = 0  BY <1>1
    <2> QED  BY <1>1, <2>1
  <1>2. CASE offset >= 0 /\ length = 0
    BY <1>2
  <1>3. CASE offset >= 0 /\ length # 0
    <2>1. length > 0  BY <1>3
    <2>2. Wrap(offset + length) = offset + length  BY <1>3, <2>1, WrapIsExact
    <2> QED  BY <1>3, <2>1, <2>2 DEF Clipped
  <1> QED  BY <1>1, <1>2, <1>3

-----------------------------------------------------------------------------
(* The inductive invariant.                                                  *)

\* Bytes in the current file are in the order of output and older than the
\* next one; those behind a tailing client's offset are newer than all it has seen.
Ordered ==
  /\ next >= 1 /\ seen < next
  /\ \A i \in 1 .. Len(cur) : cur[i] < next /\ (i > tail => cur[i] > seen)
  /\ \A i, j \in 1 .. Len(cur) : i < j => cur[i] < cur[j]

\* fileSize never says less than the file holds.
Counted == Len(cur) <= fileSize /\ CurrentBounded

\* supervisord's own log is never closed; the goroutines of an attempt exist once
\* its child does, those of earlier attempts have seen it end; a program's log is
\* closed by its own attempt's after the last write; a clear that has the locker
\* finds no write under way.
Ended == {"stored", "closing", "done"}
Phases ==
  /\ locker = "mutex" =>
       /\ run = "released" /\ child = "alive" /\ attempt = 1
       /\ \A a \in Attempts : waiter[a] = "none" /\ closer[a] = "none"
  /\ \A a \in Attempts : waiter[a] = "none" => closer[a] = "none"
  /\ \A a \in Attempts : a > attempt => waiter[a] = "none"
  /\ run # "released" => waiter[attempt] = "none"
  /\ waiter[attempt] \in Ended => writer = "ended"
  /\ closer[attempt] \in {"closing", "done"} => waiter[attempt] \in Ended
  /\ locker = "mutex" /\ clear # "idle" => ~Writing

\* Until a program's log is cleared or an earlier attempt closes it, a write that
\* is not rotating has an open handle.
Usable ==
  /\ OutputAccepted
  /\ ClearsAreSafe /\ ~intruded /\ clear = "idle" /\ writer \in {"idle", "emit", "count"} => handle = "open"

IInv == TypeOK /\ Ordered /\ Counted /\ Phases /\ Usable

USE SizeAssumption, BoundAssumption, IntAssumption, LockersAssumption, EventsAssumption,
    MoreBoundsAssumption
    DEF threadVars, closeVars, fileVars, outVars, readVars, Files, Attempts,
        ProcessLocked, Writing, CompositeLocked, Locked, ClearsAreSafe, CurrentBounded, OutputAccepted

-----------------------------------------------------------------------------
LEMMA Counting == ASSUME NEW n \in Nat PROVE [j \in 1..n |-> j] \in Seq(Nat)
  OBVIOUS

\* A log as NewFileLogger finds it: what an earlier run of supervisord wrote.
LEMMA InitFiles ==
  ASSUME Init
  PROVE  \E n, older \in Nat :
           /\ older = 0 \/ older >= MaxSize
           /\ cur \in Seq(Nat) /\ Len(cur) = n /\ \A i \in 1..n : cur[i] = older + i
           /\ backup \in [Files -> Seq(Nat)]
           /\ Len(backup[1]) = older /\ \A i \in 1 .. older : backup[1][i] = i
           /\ \A i \in Files : i # 1 => backup[i] = << >>
           /\ next = older + n + 1
  <1>1. PICK f \in Found :
          /\ cur = [i \in 1 .. f[2] |-> f[1] + i]
          /\ backup = [i \in Files |-> IF i = 1 THEN [j \in 1 .. f[1] |-> j] ELSE << >>]
          /\ next = f[1] + f[2] + 1
    BY DEF Init
  <1>2. PICK n \in Nat, older \in Nat : f[1] = older /\ f[2] = n /\ (older = 0 \/ older >= MaxSize)
    <2>1. f \in Nat \X Nat /\ (f[1] = 0 \/ f[1] >= MaxSize)  BY FoundAssumption
    <2> QED  BY <2>1
  <1>3. cur = [i \in 1..n |-> older + i] /\ next = older + n + 1  BY <1>1, <1>2
  <1>4. cur \in Seq(Nat) /\ Len(cur) = n /\ \A i \in 1..n : cur[i] = older + i  BY <1>3
  <1>5. PICK b \in Seq(Nat) : b = [j \in 1 .. older |-> j]  BY Counting
  <1>6. Len(b) = older /\ \A i \in 1 .. older : b[i] = i  BY <1>5
  <1>7. backup = [i \in Files |-> IF i = 1 THEN b ELSE << >>] /\ 1 \in Files  BY <1>1, <1>2, <1>5
  <1>8. backup \in [Files -> Seq(Nat)] /\ backup[1] = b /\ \A i \in Files : i # 1 => backup[i] = << >>
    <2> HIDE DEF Files
    <2>1. << >> \in Seq(Nat)  OBVIOUS
    <2> QED  BY <1>7, <2>1
  <1> QED  BY <1>2, <1>3, <1>4, <1>6, <1>8

LEMMA InitIInv == Init => IInv
  <1> SUFFICES ASSUME Init PROVE IInv
    OBVIOUS
  <1>1. PICK n \in Nat, older \in Nat :
           /\ cur \in Seq(Nat) /\ Len(cur) = n /\ \A i \in 1..n : cur[i] = older + i
           /\ backup \in [Files -> Seq(Nat)]
           /\ next = older + n + 1
    BY InitFiles
  <1>2. /\ locker \in Lockers
        /\ run \in {"exec", "setPid", "released"} /\ child \in {"none", "alive", "dead"}
        /\ writer = "idle" /\ clear = "idle" /\ handle = "open" /\ attempt = 1
        /\ waiter \in [Attempts -> {"none"}] /\ closer \in [Attempts -> {"none"}]
        /\ fileSize = n /\ opened = next /\ base = 0 /\ tail = 0 /\ seen = 0
        /\ locker = "mutex" => run = "released" /\ child = "alive"
    BY <1>1 DEF Init, InitialSize
  <1>3. refused \in BOOLEAN /\ ~refused /\ intruded \in BOOLEAN /\ piped \in BOOLEAN
    BY Zenon DEF Init
  <1>4. TypeOK
    BY <1>1, <1>2, <1>3 DEF TypeOK
  <1>5. Ordered /\ Counted
    BY <1>1, <1>2 DEF Ordered, Counted
  <1>6. Phases /\ Usable
    BY <1>2, <1>3 DEF Phases, Usable, Ended
  <1> QED  BY <1>4, <1>5, <1>6 DEF IInv

-----------------------------------------------------------------------------
\* A step of run(), of waitForExit, of a closing goroutine or of the child keeps
\* the invariant: none of them writes or reads the file.

LEMMA RunStep ==
  ASSUME IInv, RunStartsChild \/ RunSetsPid \/ RunRetries \/ ChildExits \/ PipeCloses
  PROVE  IInv'
  <1> USE DEF IInv
  <1>1. /\ UNCHANGED <<locker, clear, cur, backup, next, base, readVars>>
        /\ \/ UNCHANGED <<writer, handle, fileSize, opened, refused, intruded>>
           \/ RunRetries /\ writer' = "idle" /\ handle' = "open" /\ fileSize' = Len(cur) /\ opened' = next
    BY DEF RunStartsChild, RunSetsPid, RunRetries, ChildExits, PipeCloses, InitialSize
  <1>2. refused' \in BOOLEAN /\ intruded' \in BOOLEAN /\ (RunRetries => ~refused')
    BY Zenon DEF TypeOK, RunStartsChild, RunSetsPid, RunRetries, ChildExits, PipeCloses, outVars
  <1>3. piped' \in BOOLEAN
    BY Zenon DEF TypeOK, RunStartsChild, RunSetsPid, RunRetries, ChildExits, PipeCloses
  <1>4. Ordered' /\ Counted'
    BY <1>1 DEF TypeOK, Ordered, Counted
  <1>5. TypeOK'
    <2>1. run' \in {"exec", "setPid", "released"} /\ child' \in {"none", "alive", "dead"}
      BY DEF TypeOK, RunStartsChild, RunSetsPid, RunRetries, ChildExits, PipeCloses
    <2>3. attempt' \in Attempts
      <3>1. attempt \in 1 .. MaxAttempts  BY DEF TypeOK
      <3>2. attempt' = attempt \/ (attempt' = attempt + 1 /\ attempt < MaxAttempts)
        BY DEF RunStartsChild, RunSetsPid, RunRetries, ChildExits, PipeCloses
      <3> QED  BY <3>1, <3>2
    <2>2. /\ waiter' \in [Attempts -> {"none", "waiting", "stored", "closing", "done"}]
          /\ closer' \in [Attempts -> {"none", "polling", "closing", "done"}]
      BY DEF TypeOK, RunStartsChild, RunSetsPid, RunRetries, ChildExits, PipeCloses
    <2> QED  BY <1>1, <1>2, <1>3, <2>1, <2>2, <2>3 DEF TypeOK
  <1>6. Phases'
    <2>1. CASE RunStartsChild \/ ChildExits \/ PipeCloses
      BY <2>1 DEF Phases, Ended, RunStartsChild, ChildExits, PipeCloses
    <2>2. CASE RunSetsPid
      BY <2>2 DEF TypeOK, Phases, Ended, RunSetsPid
    <2>3. CASE RunRetries
      BY <2>3 DEF TypeOK, Phases, Ended, RunRetries
    <2> QED  BY <2>1, <2>2, <2>3
  <1>7. Usable'
    BY <1>1, <1>2 DEF Usable
  <1> QED  BY <1>4, <1>5, <1>6, <1>7

LEMMA ClosingStep == ASSUME IInv, NEW a \in Attempts, Closing(a) PROVE IInv'
  <1> USE DEF IInv, WaiterAt, CloserAt, CloseLogger
  <1>1. UNCHANGED <<locker, run, child, piped, writer, attempt, clear, cur, backup, fileSize, next, opened, refused,
                    base, readVars>>
    BY DEF Closing, WaiterReturns, WaiterLocks, WaiterCloses, CloserSees, CloserCloses
  <1>2. Ordered' /\ Counted'
    BY <1>1 DEF Ordered, Counted
  <1>3. intruded' \in BOOLEAN /\ refused' \in BOOLEAN /\ piped' \in BOOLEAN
    BY <1>1, Zenon DEF TypeOK, Closing, WaiterReturns, WaiterLocks, WaiterCloses, CloserSees, CloserCloses, outVars
  <1>4. /\ waiter' \in [Attempts -> {"none", "waiting", "stored", "closing", "done"}]
        /\ closer' \in [Attempts -> {"none", "polling", "closing", "done"}]
        /\ handle' \in {"open", "closed", "nil"}
    BY DEF TypeOK, Closing, WaiterReturns, WaiterLocks, WaiterCloses, CloserSees, CloserCloses
  <1>5. TypeOK'
    BY <1>1, <1>3, <1>4 DEF TypeOK
  <1>6. Phases'
    <2>1. CASE WaiterReturns(a) \/ WaiterLocks(a) \/ WaiterCloses(a)
      <3>1. /\ waiter[a] \in Ended \/ (waiter[a] = "waiting" /\ a = attempt /\ writer = "ended")
            /\ waiter' = [waiter EXCEPT ![a] = waiter'[a]] /\ waiter'[a] \in Ended /\ UNCHANGED closer
        BY <2>1 DEF TypeOK, Ended, Drained, WaiterReturns, WaiterLocks, WaiterCloses
      <3> QED  BY <1>1, <3>1 DEF TypeOK, Phases, Ended
    <2>2. CASE CloserSees(a) \/ CloserCloses(a)
      BY <2>2 DEF TypeOK, Phases, Ended, CloserSees, CloserCloses
    <2> QED  BY <2>1, <2>2 DEF Closing
  <1>7. Usable'
    <2>1. CASE UNCHANGED <<handle, intruded>>
      BY <1>1, <2>1 DEF Usable
    <2>2. CASE WaiterCloses(a) \/ CloserCloses(a)
      <3>1. intruded => intruded'  BY <2>2 DEF WaiterCloses, CloserCloses
      <3>2. CASE a = attempt
        <4>1. writer = "ended"  BY <2>2, <3>2 DEF Phases, Ended, WaiterCloses, CloserCloses
        <4> QED  BY <1>1, <3>1, <4>1 DEF Usable
      <3>3. CASE a # attempt
        <4>1. intruded'  BY <2>2, <3>3 DEF WaiterCloses, CloserCloses
        <4> QED  BY <4>1 DEF Usable
      <3> QED  BY <3>2, <3>3
    <2> QED  BY <2>1, <2>2 DEF Closing, WaiterReturns, WaiterLocks, CloserSees
  <1> QED  BY <1>2, <1>5, <1>6, <1>7

-----------------------------------------------------------------------------
\* A step of the writer keeps the invariant.

LEMMA Concatenation ==
  ASSUME NEW s \in Seq(Nat), NEW t \in Seq(Nat)
  PROVE  /\ s \o t \in Seq(Nat) /\ Len(s \o t) = Len(s) + Len(t)
         /\ \A i \in 1 .. Len(s) + Len(t) : (s \o t)[i] = IF i <= Len(s) THEN s[i] ELSE t[i - Len(s)]
  OBVIOUS

LEMMA NoBytes == << >> \in Seq(Nat) /\ Len(<< >>) = 0
  OBVIOUS

\* What it appends are the next bytes of output.
LEMMA AppendKeepsOrder ==
  ASSUME IInv, NEW k \in 1..MaxChunk, WriteFile(k)
  PROVE  cur' \in Seq(Nat) /\ Len(cur') = Len(cur) + k /\ Ordered'
  <1>1. cur \in Seq(Nat) /\ next \in Nat /\ tail \in Nat /\ seen \in Nat /\ Ordered
    BY DEF IInv, TypeOK
  <1>2. Chunk(k) \in Seq(Nat) /\ Len(Chunk(k)) = k /\ \A i \in 1..k : Chunk(k)[i] = next + i - 1
    BY <1>1 DEF Chunk, Ordered
  <1>3. cur' = cur \o Chunk(k) /\ next' = next + k /\ UNCHANGED <<tail, seen>>
    BY DEF WriteFile
  <1>4. cur' \in Seq(Nat) /\ Len(cur') = Len(cur) + k
    BY <1>1, <1>2, <1>3, Concatenation
  <1>5. ASSUME NEW i \in 1 .. Len(cur') PROVE cur'[i] = IF i <= Len(cur) THEN cur[i] ELSE next + (i - Len(cur)) - 1
    <2>1. i \in 1 .. Len(cur) + Len(Chunk(k))  BY <1>1, <1>2, <1>4, <1>5
    <2>2. cur'[i] = IF i <= Len(cur) THEN cur[i] ELSE Chunk(k)[i - Len(cur)]
      BY <1>1, <1>2, <1>3, <2>1, Concatenation
    <2> QED  BY <1>1, <1>2, <2>1, <2>2
  <1>6. ASSUME NEW i \in 1 .. Len(cur') PROVE cur'[i] < next' /\ (i > tail => cur'[i] > seen)
    BY <1>1, <1>3, <1>4, <1>5 DEF Ordered
  <1>7. ASSUME NEW i \in 1 .. Len(cur'), NEW j \in 1 .. Len(cur'), i < j PROVE cur'[i] < cur'[j]
    <2>1. CASE j <= Len(cur)
      <3>1. i \in 1 .. Len(cur) /\ j \in 1 .. Len(cur)  BY <1>1, <1>7, <2>1
      <3>2. cur[i] < cur[j]  BY <1>1, <1>7, <3>1 DEF Ordered
      <3>3. cur'[i] = cur[i] /\ cur'[j] = cur[j]  BY <1>1, <1>5, <1>7, <2>1, <3>1
      <3> QED  BY <3>2, <3>3
    <2>2. CASE i <= Len(cur) /\ j > Len(cur)
      <3>1. cur[i] < next /\ cur[i] \in Nat  BY <1>1, <2>2 DEF Ordered
      <3>2. cur'[i] = cur[i]  BY <1>5, <2>2
      <3>3. cur'[j] = next + (j - Len(cur)) - 1  BY <1>1, <1>5, <2>2
      <3>4. Len(cur) \in Nat  BY <1>1
      <3> QED  BY <1>1, <2>2, <3>1, <3>2, <3>3, <3>4
    <2>3. CASE i > Len(cur) /\ j > Len(cur)
      BY <1>1, <1>4, <1>5, <1>7, <2>3
    <2> QED  BY <1>1, <1>4, <1>7, <2>1, <2>2, <2>3
  <1>8. next' >= 1 /\ seen' < next'  BY <1>1, <1>3 DEF Ordered
  <1>9. \A i \in 1 .. Len(cur') : cur'[i] < next' /\ (i > tail' => cur'[i] > seen')
    BY <1>3, <1>6
  <1>10. \A i, j \in 1 .. Len(cur') : i < j => cur'[i] < cur'[j]  BY <1>7
  <1>11. Ordered'  BY <1>8, <1>9, <1>10, Zenon DEF Ordered
  <1> QED  BY <1>4, <1>11

LEMMA WriteFileStep == ASSUME IInv, NEW k \in 1..MaxChunk, WriteFile(k) PROVE IInv'
  <1> USE DEF IInv
  <1>1. cur' \in Seq(Nat) /\ Len(cur') = Len(cur) + k /\ Ordered'
    BY AppendKeepsOrder
  <1>2. /\ writer = "idle" /\ writer' = "emit" /\ ~Locked /\ fileSize' = fileSize + k /\ next' = next + k
        /\ UNCHANGED <<locker, run, child, piped, attempt, closeVars, clear, handle, backup, opened, refused, intruded, base, readVars>>
    BY DEF WriteFile, CanWrite, WriterAt
  <1>3. TypeOK'
    <2>1. refused' \in BOOLEAN /\ intruded' \in BOOLEAN /\ piped' \in BOOLEAN  BY <1>2, Zenon DEF TypeOK
    <2> QED  BY <1>1, <1>2, <2>1 DEF TypeOK
  <1>4. Counted'
    BY <1>1, <1>2 DEF TypeOK, Counted
  <1>5. Phases'
    BY <1>2 DEF Phases, Ended
  <1>6. Usable'
    BY <1>2 DEF Usable
  <1> QED  BY <1>1, <1>3, <1>4, <1>5, <1>6

\* The backups after a rotation are sequences again: l.name and the ones before.
LEMMA ShiftedType == ASSUME TypeOK PROVE Shifted \in [Files -> Seq(Nat)]
  <1>1. cur \in Seq(Nat) /\ backup \in [Files -> Seq(Nat)] /\ << >> \in Seq(Nat)
    BY DEF TypeOK
  <1>2. ASSUME NEW i \in Files, i # 1 PROVE i - 1 \in Files
    BY <1>2
  <1> QED  BY <1>1, <1>2 DEF Shifted

\* A rotation starts only at the limit, and leaves an empty, open file.
LEMMA RotationStep ==
  ASSUME IInv, WriteEmits \/ WriteCounts \/ WriteBacksUp \/ WriteReopens
  PROVE  IInv'
  <1> USE DEF IInv
  <1>1. /\ UNCHANGED <<locker, run, child, piped, attempt, closeVars, clear, next, opened, refused, intruded, base, tail, seen>>
        /\ Writing
    BY DEF WriteEmits, WriteCounts, WriteBacksUp, WriteReopens, WriterAt
  <1>2. cur' = cur \/ cur' = << >>
    BY DEF WriteEmits, WriteCounts, WriteBacksUp, WriteReopens
  <1>3. Ordered'
    BY <1>1, <1>2 DEF TypeOK, Ordered
  <1>4. fileSize' \in Nat /\ Counted'
    <2>1. CASE WriteEmits
      BY <2>1 DEF TypeOK, Counted, WriteEmits, WriterAt
    <2>2. CASE WriteCounts
      BY <2>2 DEF TypeOK, Counted, WriteCounts, WriterAt, MeasuredSize
    <2>3. CASE WriteBacksUp \/ WriteReopens
      <3>1. fileSize' = fileSize /\ cur' = << >> /\ Len(cur') = 0
        BY <2>3, NoBytes DEF WriteBacksUp, WriteReopens
      <3> QED  BY <3>1 DEF TypeOK, Counted
    <2> QED  BY <2>1, <2>2, <2>3
  <1>5. TypeOK'
    <2>1. refused' \in BOOLEAN /\ intruded' \in BOOLEAN /\ piped' \in BOOLEAN  BY <1>1, Zenon DEF TypeOK, threadVars, outVars
    <2>2. backup' \in [Files -> Seq(Nat)]
      BY ShiftedType DEF TypeOK, WriteEmits, WriteCounts, WriteBacksUp, WriteReopens
    <2>3. writer' \in {"idle", "emit", "count", "backup", "reopen", "ended"} /\ handle' \in {"open", "closed", "nil"}
      BY DEF TypeOK, WriteEmits, WriteCounts, WriteBacksUp, WriteReopens, WriterAt
    <2>4. cur' \in Seq(Nat)  BY <1>2, NoBytes DEF TypeOK
    <2> QED  BY <1>1, <1>4, <2>1, <2>2, <2>3, <2>4 DEF TypeOK
  <1>6. Phases'
    <2>1. waiter[attempt] \notin Ended
      BY <1>1 DEF Phases
    <2> QED  BY <1>1, <2>1 DEF Phases
  <1>7. Usable'
    BY <1>1 DEF Usable, WriteEmits, WriteCounts, WriteBacksUp, WriteReopens, WriterAt
  <1> QED  BY <1>3, <1>4, <1>5, <1>6, <1>7

\* A refused write means that a client was clearing a program's log, or had, or
\* that an earlier attempt closed it.
LEMMA WriterStops == ASSUME IInv, WriteRefused \/ WriteEnds PROVE IInv'
  <1> USE DEF IInv
  <1>1. /\ UNCHANGED <<locker, run, child, piped, attempt, closeVars, clear, handle, cur, backup, fileSize, next, opened, base, tail, seen>>
        /\ writer = "idle" /\ writer' \in {"idle", "ended"}
        /\ locker = "mutex" => writer' = "idle"
    BY DEF WriteRefused, WriteEnds, WriterAt, Phases, TypeOK
  <1>2. Ordered' /\ Counted'
    BY <1>1 DEF Ordered, Counted
  <1>3. refused' \in BOOLEAN /\ intruded' \in BOOLEAN /\ intruded' = intruded /\ piped' \in BOOLEAN
    BY Zenon DEF WriteRefused, WriteEnds, TypeOK, outVars
  <1>4. TypeOK'
    BY <1>1, <1>3 DEF TypeOK
  <1>5. Phases'
    BY <1>1 DEF Phases
  <1>6. OutputAccepted'
    <2>1. CASE WriteEnds
      <3>1. UNCHANGED <<refused, intruded>>  BY <2>1, Zenon DEF WriteEnds
      <3> QED  BY <1>1, <3>1 DEF Usable
    <2>2. CASE WriteRefused
      <3>1. ~ClearsAreSafe \/ intruded
        BY <2>2 DEF WriteRefused, CanWrite, WriterAt, Usable, TypeOK
      <3> QED  BY <1>1, <1>3, <3>1
    <2> QED  BY <2>1, <2>2
  <1>7. Usable'
    BY <1>1, <1>3, <1>6 DEF Usable
  <1> QED  BY <1>2, <1>4, <1>5, <1>7

-----------------------------------------------------------------------------
\* A step of a client keeps the invariant.

LEMMA ClearStep == ASSUME IInv, ClearRemoves \/ ClearCloses \/ ClearCreates PROVE IInv'
  <1> USE DEF IInv
  <1>1. UNCHANGED <<locker, threadVars, fileSize, outVars, readVars>>
    BY DEF ClearRemoves, ClearCloses, ClearCreates
  <1>2. cur' = cur \/ cur' = << >>
    BY DEF ClearRemoves, ClearCloses, ClearCreates
  <1>3. Ordered' /\ Counted'
    BY <1>1, <1>2 DEF TypeOK, Ordered, Counted
  <1>4. TypeOK'
    <2>1. refused' \in BOOLEAN /\ intruded' \in BOOLEAN /\ piped' \in BOOLEAN  BY <1>1, Zenon DEF TypeOK, threadVars, outVars
    <2>2. backup' \in [Files -> Seq(Nat)]
      BY NoBytes DEF TypeOK, ClearRemoves, ClearCloses, ClearCreates
    <2>3. clear' \in {"idle", "close", "create"} /\ handle' \in {"open", "closed", "nil"} /\ base' \in Nat
      BY <1>1 DEF TypeOK, ClearRemoves, ClearCloses, ClearCreates
    <2>4. cur' \in Seq(Nat)  BY <1>2, NoBytes DEF TypeOK
    <2> QED  BY <1>1, <2>1, <2>2, <2>3, <2>4 DEF TypeOK
  <1>5. Phases'
    BY <1>1 DEF Phases, ClearRemoves, ClearCloses, ClearCreates
  <1>6. Usable'
    BY <1>1 DEF Usable, Ordered, TypeOK, ClearRemoves, ClearCloses, ClearCreates
  <1> QED  BY <1>3, <1>4, <1>5, <1>6

\* A tailing client moves to the last byte it was given, or back to the end of
\* a file that has become shorter.
LEMMA TailStep == ASSUME IInv, NEW n \in TailLengths, ReadTailLog(n) PROVE IInv'
  <1> USE DEF IInv
  <1>1. UNCHANGED <<locker, threadVars, clear, fileVars, outVars, base>>
    BY DEF ReadTailLog
  <1>2. refused' \in BOOLEAN /\ intruded' \in BOOLEAN /\ piped' \in BOOLEAN
    BY <1>1, Zenon DEF TypeOK, threadVars, outVars
  <1>3. /\ cur \in Seq(Nat) /\ Len(cur) \in Nat /\ tail \in Nat /\ seen \in Nat /\ next \in Nat
        /\ tail' = TailOffset(Len(cur), tail, n) /\ tail + n < IntLimit
        /\ seen' = IF tail >= Len(cur) THEN seen ELSE cur[tail']
    BY DEF TypeOK, ReadTailLog
  <1>4. Counted' /\ Phases' /\ Usable'
    BY <1>1 DEF Counted, Phases, Usable
  <1>5. CASE tail >= Len(cur)
    <2>1. tail' = Len(cur) /\ seen' = seen
      BY <1>3, <1>5 DEF TailOffset
    <2>2. TypeOK'
      BY <1>1, <1>2, <1>3, <2>1 DEF TypeOK
    <2>3. Ordered'
      BY <1>1, <1>3, <2>1 DEF Ordered
    <2> QED  BY <1>4, <2>2, <2>3
  <1>6. CASE tail < Len(cur)
    <2>1. Wrap(tail + n) = tail + n
      BY <1>3, WrapIsExact
    <2>2. tail' \in tail + 1 .. Len(cur)
      BY <1>3, <1>6, <2>1 DEF TailOffset, Clipped
    <2>3. tail' \in 1 .. Len(cur) /\ seen' = cur[tail'] /\ seen' \in Nat
      BY <1>3, <1>6, <2>2
    <2>4. TypeOK'
      BY <1>1, <1>2, <2>3 DEF TypeOK
    <2>5. Ordered'
      BY <1>1, <1>3, <2>3 DEF Ordered
    <2> QED  BY <1>4, <2>4, <2>5
  <1> QED  BY <1>3, <1>5, <1>6

-----------------------------------------------------------------------------
LEMMA NextIInv == IInv /\ [Next]_vars => IInv'
  <1> SUFFICES ASSUME IInv, [Next]_vars PROVE IInv'
    OBVIOUS
  <1>1. CASE Next
    BY <1>1, RunStep, ClosingStep, WriteFileStep, RotationStep, WriterStops, ClearStep, TailStep DEF Next, Writer, Client
  <1>2. CASE UNCHANGED vars
    <2>1. UNCHANGED <<locker, run, child, writer, attempt, waiter, closer, clear, handle, cur, backup, fileSize,
                      next, opened, base, tail, seen>>
      BY <1>2 DEF vars
    <2>2. UNCHANGED <<refused, intruded, piped>>
      BY <1>2, Zenon DEF vars, threadVars, outVars
    <2>3. TypeOK'
      <3>1. refused' \in BOOLEAN /\ intruded' \in BOOLEAN /\ piped' \in BOOLEAN
        BY <2>2, Zenon DEF IInv, TypeOK
      <3> QED  BY <2>1, <3>1 DEF IInv, TypeOK
    <2>4. Ordered' /\ Counted' /\ Phases'
      BY <2>1 DEF IInv, Ordered, Counted, Phases
    <2>5. Usable'
      BY <2>1, <2>2 DEF IInv, Usable
    <2> QED  BY <2>3, <2>4, <2>5 DEF IInv
  <1> QED  BY <1>1, <1>2

\* The invariant holds of every reachable state, whatever its constants.
THEOREM Inductive == Spec => []IInv
  BY InitIInv, NextIInv, PTL DEF Spec

-----------------------------------------------------------------------------
(* What the files keep.                                                      *)

\* A byte that nothing older has to be kept before.
Oldest(b) == b <= 1 \/ b <= base

\* The bytes of a file follow each other.
InSequence ==
  /\ \A j \in 1 .. Len(cur) : cur[j] = next - Len(cur) + j - 1
  /\ \A i \in Files : \A j \in 1 .. Len(backup[i]) : backup[i][j] = backup[i][1] + j - 1

\* Where a backup ends the next newer file begins.
Adjacent ==
  /\ backup[1] # << >> => backup[1][1] + Len(backup[1]) = next - Len(cur)
  /\ \A i \in Files \ {1} : backup[i] # << >> =>
       backup[i-1] # << >> /\ backup[i][1] + Len(backup[i]) = backup[i-1][1]

\* A backup that does not exist would have nothing to keep.
NoneMissing ==
  /\ backup[1] = << >> => Oldest(next - Len(cur))
  /\ \A i \in Files \ {1} : backup[i] = << >> /\ backup[i-1] # << >> => Oldest(backup[i-1][1])

\* A file is rotated only when it is full; after it is, l.name is gone.
Full ==
  /\ \A i \in Files : backup[i] # << >> => Len(backup[i]) >= MaxSize
  /\ writer = "backup" => Len(cur) >= MaxSize
  /\ writer = "reopen" => cur = << >>

\* While a client clears, under the locker, there are no backups any more.
KInv ==
  ClearsAreSafe /\ ClearsRemoveAll =>
    /\ InSequence /\ Adjacent /\ Full
    /\ clear = "idle" => NoneMissing
    /\ clear # "idle" => \A i \in Files : backup[i] = << >>

\* The files that are found hold the bytes from byte 1 on, a full backup before l.name.
LEMMA InitKInv == Init => KInv
  <1> SUFFICES ASSUME Init PROVE KInv
    OBVIOUS
  <1>1. PICK n \in Nat, older \in Nat :
           /\ older = 0 \/ older >= MaxSize
           /\ cur \in Seq(Nat) /\ Len(cur) = n /\ \A i \in 1..n : cur[i] = older + i
           /\ backup \in [Files -> Seq(Nat)]
           /\ Len(backup[1]) = older /\ \A i \in 1 .. older : backup[1][i] = i
           /\ \A i \in Files : i # 1 => backup[i] = << >>
           /\ next = older + n + 1
    BY InitFiles
  <1>2. writer = "idle" /\ clear = "idle" /\ 1 \in Files  BY DEF Init
  <1>3. PICK b \in Seq(Nat) : b = backup[1]  BY <1>1, <1>2
  <1>4. Len(b) = older /\ (b = << >> <=> older = 0) /\ (older > 0 => b[1] = 1) /\ \A i \in 1 .. older : b[i] = i
    <2>1. Len(b) = older /\ \A i \in 1 .. older : b[i] = i  BY <1>1, <1>3
    <2> QED  BY <2>1
  <1>5. \A i \in Files : i # 1 => Len(backup[i]) = 0  BY <1>1
  <1>6. InSequence
    <2>1. \A j \in 1 .. Len(cur) : cur[j] = next - Len(cur) + j - 1  BY <1>1
    <2>2. ASSUME NEW i \in Files, NEW j \in 1 .. Len(backup[i]) PROVE backup[i][j] = backup[i][1] + j - 1
      <3>1. i = 1  BY <1>5
      <3> QED  BY <1>3, <1>4, <3>1
    <2> QED  BY <2>1, <2>2 DEF InSequence
  <1>7. Adjacent  BY <1>1, <1>3, <1>4 DEF Adjacent
  <1>8. Full  BY <1>1, <1>2, <1>3, <1>4 DEF Full
  <1>9. NoneMissing
    <2>1. backup[1] = << >> => Oldest(next - Len(cur))  BY <1>1, <1>3, <1>4 DEF Oldest
    <2>2. ASSUME NEW i \in Files \ {1}, backup[i-1] # << >> PROVE Oldest(backup[i-1][1])
      <3>1. i - 1 \in Files  OBVIOUS
      <3>2. i - 1 = 1  BY <1>1, <2>2, <3>1
      <3> QED  BY <1>3, <1>4, <2>2, <3>2 DEF Oldest
    <2> QED  BY <2>1, <2>2 DEF NoneMissing
  <1> QED  BY <1>2, <1>6, <1>7, <1>8, <1>9 DEF KInv

\* No clear makes a log that was not safe to clear, or not cleared whole, safe.
LEMMA KeepsScope ==
  ASSUME IInv, [Next]_vars, (ClearsAreSafe /\ ClearsRemoveAll)'
  PROVE  ClearsAreSafe /\ ClearsRemoveAll
  <1>1. CASE ClearRemoves \/ ClearCloses \/ ClearCreates
    BY <1>1 DEF IInv, TypeOK, Ordered, ClearsRemoveAll, ClearRemoves, ClearCloses, ClearCreates
  <1>2. CASE UNCHANGED <<locker, clear, base>>
    BY <1>2 DEF ClearsRemoveAll
  <1>3. \/ ClearRemoves \/ ClearCloses \/ ClearCreates
        \/ UNCHANGED <<locker, clear, base>>
    BY DEF Next, Writer, Closing, Client, vars, RunStartsChild, RunSetsPid, RunRetries, ChildExits, PipeCloses,
           WriteRefused, WriteEmits, WriteCounts, WriteBacksUp, WriteReopens, WriteEnds, WriteFile,
           WaiterReturns, WaiterLocks, WaiterCloses, CloserSees, CloserCloses, ReadTailLog
  <1> QED  BY <1>1, <1>2, <1>3

\* The next bytes of output follow those of l.name.
LEMMA WriteFileKInv ==
  ASSUME IInv, KInv, ClearsAreSafe, ClearsRemoveAll, NEW k \in 1..MaxChunk, WriteFile(k)
  PROVE  KInv'
  <1>1. cur \in Seq(Nat) /\ next \in Nat /\ Len(cur) \in Nat /\ next >= 1
    BY DEF IInv, TypeOK, Ordered
  <1>2. Chunk(k) \in Seq(Nat) /\ Len(Chunk(k)) = k /\ \A i \in 1..k : Chunk(k)[i] = next + i - 1
    BY <1>1 DEF Chunk
  <1>3. /\ cur' = cur \o Chunk(k) /\ next' = next + k /\ writer' = "emit"
        /\ UNCHANGED <<locker, clear, backup, base>>
    BY DEF WriteFile, WriterAt
  <1>4. Len(cur') = Len(cur) + k /\ next' - Len(cur') = next - Len(cur)
    <2>1. Len(cur') = Len(cur) + k  BY <1>1, <1>2, <1>3, Concatenation
    <2> QED  BY <1>1, <1>3, <2>1
  <1>5. InSequence'
    <2> SUFFICES ASSUME NEW j \in 1 .. Len(cur') PROVE cur'[j] = next' - Len(cur') + j - 1
      BY <1>3 DEF KInv, InSequence
    <2>1. j \in 1 .. Len(cur) + Len(Chunk(k))  BY <1>1, <1>2, <1>4
    <2>2. cur'[j] = IF j <= Len(cur) THEN cur[j] ELSE Chunk(k)[j - Len(cur)]
      BY <1>1, <1>2, <1>3, <2>1, Concatenation
    <2>3. CASE j <= Len(cur)  BY <1>1, <1>4, <2>2, <2>3 DEF KInv, InSequence
    <2>4. CASE j > Len(cur)  BY <1>1, <1>2, <1>4, <2>1, <2>2, <2>4
    <2> QED  BY <1>1, <2>1, <2>3, <2>4
  <1>6. (Adjacent /\ Full)'  BY <1>3, <1>4 DEF KInv, Adjacent, Full
  <1>7. clear' = "idle" => NoneMissing'  BY <1>3, <1>4 DEF KInv, NoneMissing, Oldest
  <1> QED  BY <1>3, <1>5, <1>6, <1>7 DEF KInv

\* backupFiles moves every file one place, since there is none behind a missing one.
LEMMA ShiftsAll ==
  ASSUME IInv, Adjacent, NEW i \in Files
  PROVE  Shifted[i] = IF i = 1 THEN cur ELSE backup[i-1]
  <1>1. i # 1 => i - 1 \in Files  OBVIOUS
  <1> QED  BY <1>1 DEF Adjacent, Shifted

\* A rotation: the full current file becomes the newest backup.
LEMMA WriteBacksUpKInv ==
  ASSUME IInv, KInv, ClearsAreSafe, ClearsRemoveAll, WriteBacksUp
  PROVE  KInv'
  <1>1. cur \in Seq(Nat) /\ next \in Nat /\ Len(cur) \in Nat /\ backup \in [Files -> Seq(Nat)] /\ 1 \in Files
    BY DEF IInv, TypeOK
  <1>2. /\ writer = "backup" /\ writer' = "reopen" /\ cur' = << >> /\ backup' = Shifted
        /\ UNCHANGED <<locker, clear, next, base>>
    BY DEF WriteBacksUp, WriterAt
  <1>3. clear = "idle"  BY <1>2 DEF IInv, Phases
  <1> USE <1>3 DEF KInv
  <1>4. \A i \in Files : backup'[i] = IF i = 1 THEN cur ELSE backup[i-1]
    BY <1>2, ShiftsAll
  <1>5. \A i \in Files \ {1} : i - 1 \in Files  OBVIOUS
  <1>6. Len(cur) >= MaxSize /\ cur # << >> /\ Len(cur) >= 1 /\ cur[1] = next - Len(cur)
    <2>1. Len(cur) >= MaxSize  BY <1>2 DEF Full
    <2>2. Len(cur) >= 1 /\ cur # << >>  BY <1>1, <2>1
    <2>3. cur[1] = next - Len(cur) + 1 - 1  BY <1>1, <2>2 DEF InSequence
    <2> QED  BY <1>1, <2>1, <2>2, <2>3
  <1>7. Len(cur') = 0 /\ next' - Len(cur') = next  BY <1>1, <1>2, NoBytes
  <1>8. InSequence'
    <2>1. \A j \in 1 .. Len(cur) : cur[j] = cur[1] + j - 1  BY <1>1, <1>6 DEF InSequence
    <2>2. \A i \in Files : \A j \in 1 .. Len(backup'[i]) : backup'[i][j] = backup'[i][1] + j - 1
      <3> SUFFICES ASSUME NEW i \in Files
                   PROVE  \A j \in 1 .. Len(backup'[i]) : backup'[i][j] = backup'[i][1] + j - 1
        OBVIOUS
      <3> HIDE DEF Files
      <3>1. CASE i = 1  BY <1>4, <2>1, <3>1
      <3>2. CASE i # 1
        <4>1. i - 1 \in Files /\ backup'[i] = backup[i-1]  BY <1>4, <1>5, <3>2
        <4> QED  BY <4>1, Zenon DEF InSequence
      <3> QED  BY <3>1, <3>2
    <2>3. \A j \in 1 .. Len(cur') : cur'[j] = next' - Len(cur') + j - 1  BY <1>7
    <2> QED  BY <2>2, <2>3 DEF InSequence
  <1>9. Adjacent'
    <2>1. backup'[1] # << >> => backup'[1][1] + Len(backup'[1]) = next' - Len(cur')
      BY <1>1, <1>4, <1>6, <1>7
    <2>2. ASSUME NEW i \in Files \ {1}, backup'[i] # << >>
          PROVE  backup'[i-1] # << >> /\ backup'[i][1] + Len(backup'[i]) = backup'[i-1][1]
      <3>1. backup'[i] = backup[i-1] /\ i - 1 \in Files  BY <1>4, <1>5
      <3>2. CASE i = 2
        <4>1. backup'[1] = cur  BY <1>1, <1>4
        <4>2. backup'[2] = backup[1]  BY <3>1, <3>2
        <4> QED  BY <1>6, <2>2, <3>2, <4>1, <4>2 DEF Adjacent
      <3>3. CASE i # 2
        <4>1. i - 1 \in Files \ {1} /\ backup'[i-1] = backup[(i-1)-1]  BY <1>4, <3>1, <3>3
        <4> QED  BY <2>2, <3>1, <4>1 DEF Adjacent
      <3> QED  BY <3>2, <3>3
    <2> QED  BY <2>1, <2>2 DEF Adjacent
  <1>10. NoneMissing'
    <2>1. backup'[1] # << >>  BY <1>1, <1>4, <1>6
    <2>2. ASSUME NEW i \in Files \ {1}, backup'[i] = << >>, backup'[i-1] # << >>
          PROVE  Oldest(backup'[i-1][1])
      <3>1. backup'[i] = backup[i-1] /\ i - 1 \in Files  BY <1>4, <1>5
      <3>2. CASE i = 2
        <4>1. backup'[1] = cur  BY <1>1, <1>4
        <4>2. backup'[2] = backup[1]  BY <3>1, <3>2
        <4>3. Oldest(cur[1])  BY <1>6, <2>2, <3>2, <4>2 DEF NoneMissing
        <4> QED  BY <3>2, <4>1, <4>3
      <3>3. CASE i # 2
        <4>1. i - 1 \in Files \ {1} /\ backup'[i-1] = backup[(i-1)-1]  BY <1>4, <3>1, <3>3
        <4> QED  BY <2>2, <3>1, <4>1 DEF NoneMissing
      <3> QED  BY <3>2, <3>3
    <2> QED  BY <1>2, <2>1, <2>2 DEF NoneMissing, Oldest
  <1>11. Full'
    <2>1. \A i \in Files : backup'[i] # << >> => Len(backup'[i]) >= MaxSize
      BY <1>4, <1>5, <1>6 DEF Full
    <2> QED  BY <1>2, <2>1 DEF Full
  <1> QED  BY <1>2, <1>8, <1>9, <1>10, <1>11

\* The other steps of the writer leave the bytes where they are: the file
\* openFile creates after a rotation is not there yet.
LEMMA WriterKInv ==
  ASSUME IInv, KInv, ClearsAreSafe, ClearsRemoveAll,
         WriteRefused \/ WriteEmits \/ WriteCounts \/ WriteReopens \/ WriteEnds
  PROVE  KInv'
  <1>1. UNCHANGED <<locker, clear, backup, next, base>>
    BY DEF WriteRefused, WriteEmits, WriteCounts, WriteReopens, WriteEnds
  <1>2. cur' = cur
    BY DEF KInv, Full, WriteRefused, WriteEmits, WriteCounts, WriteReopens, WriteEnds, WriterAt
  <1>3. writer' # "reopen" /\ (writer' = "backup" => Len(cur) >= MaxSize)
    BY DEF IInv, TypeOK, WriteRefused, WriteEmits, WriteCounts, WriteReopens, WriteEnds, WriterAt, MeasuredSize
  <1>4. (InSequence /\ Adjacent)' /\ (clear' = "idle" => NoneMissing')
    BY <1>1, <1>2 DEF KInv, InSequence, Adjacent, NoneMissing, Oldest
  <1>5. Full'  BY <1>1, <1>2, <1>3 DEF KInv, Full
  <1> QED  BY <1>1, <1>4, <1>5 DEF KInv

\* A clear that has the locker removes every backup and then every byte.
LEMMA ClearKInv ==
  ASSUME IInv, KInv, ClearsAreSafe, ClearsRemoveAll, (ClearsAreSafe /\ ClearsRemoveAll)',
         ClearRemoves \/ ClearCloses \/ ClearCreates
  PROVE  KInv'
  <1> USE DEF KInv
  <1>1. locker = "mutex" /\ Backups > 0 /\ ~Writing /\ writer' = writer
    BY DEF IInv, TypeOK, Phases, Ordered, ClearsRemoveAll, ClearRemoves, ClearCloses, ClearCreates
  <1>2. 1 \in Files /\ \A i \in Files \ {1} : i - 1 \in Files  OBVIOUS
  <1>3. CASE ClearRemoves
    <2>1. /\ \A i \in Files : backup'[i] = << >> /\ Len(backup'[i]) = 0
          /\ UNCHANGED <<cur, next>> /\ clear' = "close"
      BY <1>1, <1>3, NoBytes DEF ClearRemoves
    <2>2. InSequence' /\ Adjacent'  BY <1>2, <2>1 DEF InSequence, Adjacent
    <2>3. Full'  BY <1>1, <2>1 DEF Full
    <2> QED  BY <2>1, <2>2, <2>3
  <1>4. CASE ClearCloses
    <2>1. UNCHANGED <<cur, backup, next>> /\ clear = "close" /\ clear' = "create"  BY <1>4 DEF ClearCloses
    <2>2. InSequence' /\ Adjacent'  BY <2>1 DEF InSequence, Adjacent
    <2>3. Full'  BY <1>1, <2>1 DEF Full
    <2> QED  BY <2>1, <2>2, <2>3
  <1>5. CASE ClearCreates
    <2>1. /\ \A i \in Files : backup'[i] = << >> /\ Len(backup'[i]) = 0
          /\ cur' = << >> /\ Len(cur') = 0 /\ UNCHANGED next /\ base' = next /\ next \in Nat /\ clear' = "idle"
      BY <1>5, NoBytes DEF ClearCreates, IInv, TypeOK
    <2>2. InSequence' /\ Adjacent'  BY <1>2, <2>1 DEF InSequence, Adjacent
    <2>3. Full'  BY <1>1, <2>1 DEF Full
    <2>4. NoneMissing'  BY <1>2, <2>1 DEF NoneMissing, Oldest
    <2> QED  BY <2>1, <2>2, <2>3, <2>4
  <1> QED  BY <1>3, <1>4, <1>5

LEMMA NextKInv == IInv /\ KInv /\ [Next]_vars => KInv'
  <1> SUFFICES ASSUME IInv, KInv, [Next]_vars, (ClearsAreSafe /\ ClearsRemoveAll)' PROVE KInv'
    BY DEF KInv
  <1>1. ClearsAreSafe /\ ClearsRemoveAll  BY KeepsScope
  <1>2. CASE UNCHANGED <<locker, writer, clear, cur, backup, next, base>>
    BY <1>1, <1>2 DEF KInv, InSequence, Adjacent, NoneMissing, Full, Oldest
  <1>3. CASE RunStartsChild \/ RunSetsPid \/ ChildExits \/ PipeCloses \/ (\E a \in Attempts : Closing(a))
             \/ \E n \in TailLengths : ReadTailLog(n)
    <2>1. UNCHANGED <<locker, writer, clear, cur, backup, next, base>>
      BY <1>3 DEF RunStartsChild, RunSetsPid, ChildExits, PipeCloses, Closing, WaiterReturns, WaiterLocks,
                  WaiterCloses, CloserSees, CloserCloses, ReadTailLog
    <2> QED  BY <1>2, <2>1
  <1>7. CASE RunRetries
    <2>1. UNCHANGED <<locker, clear, cur, backup, next, base>> /\ writer' = "idle"  BY <1>7 DEF RunRetries
    <2> QED  BY <1>1, <2>1 DEF KInv, InSequence, Adjacent, NoneMissing, Full, Oldest
  <1>4. CASE Writer  BY <1>1, <1>4, WriteFileKInv, WriteBacksUpKInv, WriterKInv DEF Writer
  <1>5. CASE ClearRemoves \/ ClearCloses \/ ClearCreates  BY <1>1, <1>5, ClearKInv
  <1>6. CASE UNCHANGED vars  BY <1>2, <1>6 DEF vars
  <1> QED  BY <1>3, <1>4, <1>5, <1>6, <1>7 DEF Next, Client

-----------------------------------------------------------------------------
(* Theorems.                                                                 *)

\* Every state of the log is one of its types.
THEOREM TypeCorrect == Spec => []TypeOK
  BY Inductive, PTL DEF IInv

\* FileLogger.ReadLog answers exactly what was asked for, at every moment of a
\* log's life, for every offset and length an int64 can hold whose sum it can.
THEOREM ReadsExact == Spec => []ReadsAreExact
  <1>1. IInv => ReadsAreExact
    <2> SUFFICES ASSUME IInv, NEW o \in ReadArgs, NEW n \in ReadArgs PROVE AnswersWanted(Len(cur), o, n)
      BY DEF ReadsAreExact
    <2>1. Len(cur) \in Nat  BY DEF IInv, TypeOK
    <2> QED  BY <2>1, ReadExact
  <1> QED  BY <1>1, Inductive, PTL

\* Between two writes the current file is below maxbytes, although Write counts
\* with a size that a rotation or a clear never resets, whatever the size of the
\* file that was found and however often the program is started; only a file that
\* was opened above it stays so until the first write.
THEOREM FileBounded == Spec => []CurrentBounded
  BY Inductive, PTL DEF IInv, Counted

\* Over any number of attempts, no write is refused by a rotation or by the
\* goroutines of the child's own attempt: only by a client that clears a program's
\* log, or by an earlier attempt's goroutine that closes the log of this one.
THEOREM NothingRefused == Spec => []OutputAccepted
  BY Inductive, PTL DEF IInv, Usable

\* A client that tails the log gets bytes newer than all it has had, whatever
\* was rotated or cleared between its reads.
THEOREM TailMovesOn == Spec => []TailNeverRepeats
  <1>1. IInv => TailNeverRepeats
    <2> SUFFICES ASSUME IInv, tail < Len(cur) PROVE cur[tail + 1] > seen
      BY DEF TailNeverRepeats
    <2>1. tail + 1 \in 1 .. Len(cur) /\ tail + 1 > tail  BY DEF IInv, TypeOK
    <2> QED  BY <2>1 DEF IInv, Ordered
  <1> QED  BY <1>1, Inductive, PTL

\* From the newest file to the oldest: f[i] is l.name and the i newest backups.
Joins(f, n, newest, older) == f[0] = newest /\ \A i \in 1..n : f[i] = older[i] \o f[i-1]

\* Joining files is defined for any number of them.
LEMMA JoinedIsDefined ==
  ASSUME NEW n \in Nat, NEW newest \in Seq(Nat), NEW older \in [1..n -> Seq(Nat)]
  PROVE  \E f \in [0..n -> Seq(Nat)] : Joins(f, n, newest, older)
  <1> DEFINE step == [i \in 1..n |-> [s \in Seq(Nat) |-> older[i] \o s]]
  <1>1. step \in [1..n -> [Seq(Nat) -> Seq(Nat)]]
    <2>1. ASSUME NEW i \in 1..n, NEW s \in Seq(Nat) PROVE older[i] \o s \in Seq(Nat)
      <3>1. PICK o \in Seq(Nat) : o = older[i]  OBVIOUS
      <3> QED  BY <3>1, Concatenation
    <2> QED  BY <2>1
  <1>2. PICK f \in [0..n -> Seq(Nat)] : Follows(f, n, newest, step)
    <2> HIDE DEF step
    <2> QED  BY <1>1, FunctionByRecursion
  <1>3. ASSUME NEW i \in 1..n PROVE f[i] = older[i] \o f[i-1]
    <2>1. i - 1 \in 0..n /\ f[i-1] \in Seq(Nat)  OBVIOUS
    <2>2. f[i] = step[i][f[i-1]]
      <3> HIDE DEF step
      <3> QED  BY <1>2 DEF Follows
    <2> QED  BY <2>1, <2>2
  <1>4. f[0] = newest
    <2> HIDE DEF step
    <2> QED  BY <1>2 DEF Follows
  <1>5. Joins(f, n, newest, older)
    <2> HIDE DEF step
    <2> QED  BY <1>3, <1>4 DEF Joins
  <1> QED  BY <1>5

\* An older file that ends where a newer one begins continues it backwards.
LEMMA Continues ==
  ASSUME NEW s \in Seq(Nat), NEW t \in Seq(Nat), NEW end \in Nat,
         \A j \in 1 .. Len(t) : t[j] = end - Len(t) + j - 1,
         \A j \in 1 .. Len(s) : s[j] = s[1] + j - 1,
         s = << >> \/ s[1] + Len(s) = end - Len(t)
  PROVE  \A j \in 1 .. Len(s \o t) : (s \o t)[j] = end - Len(s \o t) + j - 1
  <1>1. Len(s) \in Nat /\ Len(t) \in Nat /\ Len(s \o t) = Len(s) + Len(t)  BY Concatenation
  <1> SUFFICES ASSUME NEW j \in 1 .. Len(s) + Len(t) PROVE (s \o t)[j] = end - (Len(s) + Len(t)) + j - 1
    BY <1>1
  <1>2. (s \o t)[j] = IF j <= Len(s) THEN s[j] ELSE t[j - Len(s)]  BY <1>1, Concatenation
  <1>3. CASE j <= Len(s)
    <2>1. j \in 1 .. Len(s) /\ s # << >>  BY <1>1, <1>3
    <2>2. s[1] \in Nat /\ s[j] = s[1] + j - 1  BY <1>1, <2>1
    <2>3. s[1] + Len(s) = end - Len(t)  BY <2>1
    <2>4. (s \o t)[j] = s[1] + j - 1  BY <1>2, <1>3, <2>2
    <2>5. PICK x \in Nat, m \in Nat, n \in Nat : x = s[1] /\ m = Len(s) /\ n = Len(t)
      BY <1>1, <2>2
    <2>6. x + m = end - n  BY <2>3, <2>5
    <2>7. x + j - 1 = end - (m + n) + j - 1  BY <2>6
    <2> QED  BY <2>4, <2>5, <2>7
  <1>4. CASE j > Len(s)
    <2>1. j - Len(s) \in 1 .. Len(t)  BY <1>1, <1>4
    <2>2. t[j - Len(s)] = end - Len(t) + (j - Len(s)) - 1  BY <2>1
    <2> QED  BY <1>1, <1>2, <1>4, <2>2
  <1> QED  BY <1>1, <1>3, <1>4

\* What l.name and the backups up to the i-th hold together, if the invariant
\* holds: the newest bytes, all there are unless those backups all exist.
LEMMA JoinedKeeps ==
  ASSUME IInv, KInv, ClearsAreSafe, ClearsRemoveAll, clear = "idle",
         NEW n \in Nat, Files = 1..n, n >= 1, NEW f \in [0..n -> Seq(Nat)],
         Joins(f, n, cur, backup)
  PROVE  /\ \A j \in 1 .. Len(f[n]) : f[n][j] = next - Len(f[n]) + j - 1
         /\ Oldest(next - Len(f[n])) \/ \A i \in Files : backup[i] # << >>
  <1> DEFINE First(i) == next - Len(f[i])
             Keeps(i) ==
               /\ \A j \in 1 .. Len(f[i]) : f[i][j] = First(i) + j - 1
               /\ First(i) \in Int
               /\ IF i = 0 THEN First(i) = next - Len(cur)
                  ELSE IF backup[i] # << >> THEN First(i) = backup[i][1] ELSE Oldest(First(i))
               /\ Oldest(First(i)) \/ \A k \in 1..i : backup[k] # << >>
             S == {i \in 0..n : Keeps(i)}
  <1>1. /\ cur \in Seq(Nat) /\ next \in Nat /\ Len(cur) \in Nat /\ base \in Nat
        /\ \A i \in 1..n : backup[i] \in Seq(Nat) /\ Len(backup[i]) \in Nat
        /\ \A i \in 0..n : f[i] \in Seq(Nat) /\ Len(f[i]) \in Nat
    BY DEF IInv, TypeOK
  <1>2. InSequence /\ Adjacent /\ NoneMissing  BY DEF KInv
  <1>3. 0 \in S
    <2>1. f[0] = cur  BY DEF Joins
    <2>2. Keeps(0)  BY <1>1, <1>2, <2>1 DEF InSequence
    <2> QED  BY <2>2
  <1>4. ASSUME NEW i \in 1..n, i - 1 \in S PROVE i \in S
    <2> HIDE DEF Files
    <2>1. Keeps(i - 1)  BY <1>4
    <2>2. i \in Files /\ (i # 1 => i - 1 \in Files)  OBVIOUS
    <2>3. f[i] = backup[i] \o f[i-1]  BY DEF Joins
    <2>4. i - 1 \in 0..n /\ i \in 0..n  OBVIOUS
    <2>5. PICK s \in Seq(Nat), t \in Seq(Nat) : s = backup[i] /\ t = f[i-1]  BY <1>1, <2>4
    <2>6. f[i] = s \o t /\ Len(s \o t) = Len(s) + Len(t) /\ Len(s) \in Nat /\ Len(t) \in Nat
      BY <2>3, <2>5, Concatenation
    <2>7. First(i) = First(i - 1) - Len(backup[i]) /\ First(i) \in Int /\ First(i - 1) \in Int
      BY <1>1, <2>5, <2>6
    <2>8. ASSUME s = << >> \/ s[1] + Len(s) = First(i - 1)
          PROVE  \A j \in 1 .. Len(f[i]) : f[i][j] = First(i) + j - 1
      <3>1. \A j \in 1 .. Len(t) : t[j] = next - Len(t) + j - 1  BY <2>1, <2>5
      <3>2. First(i - 1) = next - Len(t)  BY <2>5
      <3>3. \A j \in 1 .. Len(s) : s[j] = s[1] + j - 1  BY <1>2, <2>2, <2>5 DEF InSequence
      <3>4. \A j \in 1 .. Len(s \o t) : (s \o t)[j] = next - Len(s \o t) + j - 1
        <4>1. s = << >> \/ s[1] + Len(s) = next - Len(t)  BY <2>8, <3>2, Zenon
        <4>2. next \in Nat  BY <1>1
        <4> QED  BY <3>1, <3>3, <4>1, <4>2, Continues, Zenon
      <3> QED  BY <2>6, <3>4
    <2>9. CASE backup[i] = << >>
      <3>1. Len(backup[i]) = 0 /\ First(i) = First(i - 1)  BY <2>7, <2>9, NoBytes
      <3>2. \A j \in 1 .. Len(f[i]) : f[i][j] = First(i) + j - 1  BY <2>5, <2>8, <2>9
      <3>3. Oldest(First(i))
        <4>1. CASE i = 1  BY <1>2, <2>1, <2>9, <3>1, <4>1 DEF NoneMissing
        <4>2. CASE i # 1 /\ backup[i-1] = << >>  BY <2>1, <3>1, <4>2
        <4>3. CASE i # 1 /\ backup[i-1] # << >>
          <5>1. First(i - 1) = backup[i-1][1]  BY <2>1, <4>3
          <5>2. Oldest(backup[i-1][1])  BY <1>2, <2>2, <2>9, <4>3 DEF NoneMissing
          <5> QED  BY <3>1, <5>1, <5>2
        <4> QED  BY <4>1, <4>2, <4>3
      <3>4. Keeps(i)  BY <2>7, <2>9, <3>2, <3>3
      <3> QED  BY <3>4
    <2>10. CASE backup[i] # << >>
      <3>1. backup[i][1] \in Int /\ backup[i][1] + Len(backup[i]) = First(i - 1)
        <4>1. backup[i][1] \in Nat
          <5>1. s # << >>  BY <2>5, <2>10, Zenon
          <5>2. 1 \in 1 .. Len(s)  BY <2>6, <5>1
          <5>3. s[1] \in Nat  BY <5>2
          <5> QED  BY <2>5, <5>3, Zenon
        <4>2. CASE i = 1
          <5>1. backup[1][1] + Len(backup[1]) = next - Len(cur)  BY <1>2, <2>10, <4>2 DEF Adjacent
          <5>2. First(0) = next - Len(cur)  BY <2>1, <4>2
          <5> QED  BY <4>1, <4>2, <5>1, <5>2
        <4>3. CASE i # 1
          <5>1. backup[i-1] # << >> /\ backup[i][1] + Len(backup[i]) = backup[i-1][1]
            BY <1>2, <2>2, <2>10, <4>3 DEF Adjacent
          <5>2. First(i - 1) = backup[i-1][1]  BY <2>1, <4>3, <5>1
          <5> QED  BY <4>1, <5>1, <5>2
        <4> QED  BY <4>2, <4>3
      <3>2. First(i) = backup[i][1]
        <4> DEFINE b == backup[i][1]
                   m == Len(backup[i])
                   g == First(i - 1)
        <4>1. m \in Nat /\ b \in Int /\ g \in Int /\ b + m = g  BY <1>1, <2>7, <3>1
        <4>2. First(i) = g - m  BY <2>7
        <4> HIDE DEF First, b, m, g
        <4>3. g - m = b  BY <4>1
        <4>4. First(i) = b  BY <4>2, <4>3
        <4> QED  BY <4>4 DEF b
      <3>3. \A j \in 1 .. Len(f[i]) : f[i][j] = First(i) + j - 1
        <4>1. s[1] + Len(s) = First(i - 1)  BY <2>5, <3>1
        <4> QED  BY <2>8, <4>1
      <3>4. Oldest(First(i)) \/ \A k \in 1..i : backup[k] # << >>
        <4>1. CASE Oldest(First(i - 1))
          <5> DEFINE m == Len(backup[i])
                     g == First(i - 1)
          <5>1. m \in Nat /\ base \in Nat /\ g \in Int  BY <1>1, <2>7
          <5>2. First(i) = g - m  BY <2>7
          <5>3. g <= 1 \/ g <= base  BY <4>1 DEF Oldest
          <5> HIDE DEF First, m, g
          <5>4. g - m <= 1 \/ g - m <= base  BY <5>1, <5>3
          <5>5. First(i) <= 1 \/ First(i) <= base  BY <5>2, <5>4
          <5> QED  BY <5>5 DEF Oldest
        <4>2. CASE \A k \in 1 .. i-1 : backup[k] # << >>
          <5>1. \A k \in 1..i : k = i \/ k \in 1 .. i-1  OBVIOUS
          <5> QED  BY <2>10, <4>2, <5>1
        <4> QED  BY <2>1, <4>1, <4>2
      <3>5. Keeps(i)  BY <2>7, <2>10, <3>2, <3>3, <3>4
      <3> QED  BY <3>5
    <2> QED  BY <2>9, <2>10
  <1>5. \A i \in 0..n : i \in S
    <2> HIDE DEF S
    <2> QED  BY <1>3, <1>4, UpTo
  <1>6. Keeps(n)  BY <1>5
  <1> QED  BY <1>6

\* backupFiles and openFile lose no output but the oldest, and that only when
\* every backup exists and is full: for any number and size of backups, after
\* any number of rotations, and after a clear of supervisord's own log.
THEOREM KeepsNewest == Spec => []NewestDataKept
  <1>1. IInv /\ KInv => NewestDataKept
    <2> SUFFICES ASSUME IInv, KInv, ClearsAreSafe, ClearsRemoveAll, clear = "idle" PROVE NewestDataKept
      BY DEF NewestDataKept
    <2>1. PICK n \in Nat : n >= 1 /\ Files = 1..n  OBVIOUS
    <2> HIDE DEF Files
    <2>2. backup \in [1..n -> Seq(Nat)] /\ cur \in Seq(Nat) /\ next \in Nat  BY <2>1 DEF IInv, TypeOK
    <2>3. Len(backup) = n  BY <2>1, <2>2
    <2> DEFINE Defines(f) == f = [i \in 0 .. Len(backup) |-> IF i = 0 THEN cur ELSE backup[i] \o f[i-1]]
               Joined == CHOOSE f : Defines(f)
               kept == Joined[Len(backup)]
    <2>4. Defines(Joined)
      <3>1. PICK f \in [0..n -> Seq(Nat)] : Joins(f, n, cur, backup)  BY <2>2, JoinedIsDefined
      <3>2. ASSUME NEW i \in 0..n PROVE f[i] = IF i = 0 THEN cur ELSE backup[i] \o f[i-1]
        <4>1. i = 0 \/ i \in 1..n  OBVIOUS
        <4> QED  BY <3>1, <4>1 DEF Joins
      <3>3. Defines(f)  BY <2>3, <3>2
      <3> HIDE DEF Defines
      <3> QED  BY <3>3
    <2> HIDE DEF Joined
    <2>5. Joins(Joined, n, cur, backup)  BY <2>1, <2>3, <2>4 DEF Joins
    <2>6. Joined \in [0..n -> Seq(Nat)]
      <3> DEFINE S == {i \in 0..n : Joined[i] \in Seq(Nat)}
      <3>1. 0 \in S  BY <2>2, <2>5 DEF Joins
      <3>2. ASSUME NEW i \in 1..n, i - 1 \in S PROVE i \in S
        <4>1. Joined[i] = backup[i] \o Joined[i-1]  BY <2>5 DEF Joins
        <4>2. PICK s \in Seq(Nat), t \in Seq(Nat) : s = backup[i] /\ t = Joined[i-1]  BY <2>2, <3>2
        <4>3. Joined[i] \in Seq(Nat)  BY <4>1, <4>2, Concatenation
        <4> QED  BY <4>3
      <3>3. \A i \in 0..n : i \in S
        <4> HIDE DEF S
        <4> QED  BY <3>1, <3>2, UpTo
      <3>4. \A i \in 0..n : Joined[i] \in Seq(Nat)  BY <3>3
      <3> QED  BY <2>3, <2>4, <3>4
    <2>7. /\ \A j \in 1 .. Len(kept) : kept[j] = next - Len(kept) + j - 1
          /\ Oldest(next - Len(kept)) \/ \A i \in Files : backup[i] # << >>
      BY <2>1, <2>3, <2>5, <2>6, JoinedKeeps
    <2>8. (next - Len(kept) > 1 /\ next - Len(kept) > base) => \A i \in Files : Len(backup[i]) >= MaxSize
      <3>1. Len(kept) \in Nat /\ base \in Nat  BY <2>3, <2>6 DEF IInv, TypeOK
      <3>2. \A i \in Files : backup[i] # << >> => Len(backup[i]) >= MaxSize  BY DEF KInv, Full
      <3> QED  BY <2>2, <2>7, <3>1, <3>2 DEF Oldest
    <2> QED  BY <2>7, <2>8 DEF NewestDataKept, Joined
  <1> QED  BY <1>1, InitKInv, NextKInv, Inductive, PTL DEF Spec
=============================================================================
