---------------------------- MODULE LocalLogProofs ----------------------------
(***************************************************************************)
(* Proofs about LocalLog, for any number of threads and messages, any size *)
(* of a batch and of a file.                                               *)
(*                                                                         *)
(* What the log thread believes of the size of the open file is never less *)
(* than its size; Uninit closes a file only after the stop, when no new    *)
(* hour opens another one; a worker hands its lines over from the one      *)
(* after its last block; and what waits and what is in hand are the last   *)
(* messages in their order, so that every step is one of Outbox or none    *)
(* and every step of the log thread brings what waits nearer to a file.    *)
(***************************************************************************)
EXTENDS LocalLog, SequenceTheorems, WellFoundedInduction, TLAPS

Messages == [by : Workers, from : Nat, to : Nat]
Files == [messages : Seq(Nat), writes : Nat, final : BOOLEAN]

Shape ==
    /\ pushed \in Seq(Messages) /\ log \in Seq(Nat) /\ batch \in Seq(Nat)
    /\ lines \in [Workers -> Nat] /\ once \in [Workers -> Nat] /\ block \in [Workers -> Messages]
    /\ files \in Seq(Files) /\ size \in Nat
    /\ shut \in BOOLEAN /\ gone \in 0..Len(files)
    /\ shut => ~runFlag

\* The open file is not bigger than the log thread believes, as long as that
\* may still write to it.
SizeKnown ==
    con \in {"loop", "take", "open", "write"} /\ fd # 0 => Len(files[fd].messages) <= size

LogInv == TypeOK /\ Shape
FileInv == SizeKnown /\ FilesBounded /\ ClosedMeansFinal

LEMMA InitLog == Init => LogInv
<1>. SUFFICES ASSUME Init PROVE LogInv
  OBVIOUS
<1>1. Len(files) = 0 /\ Len(batch) = 0
  BY DEF Init
<1>2. TypeOK
  BY <1>1, LocalLogAssumption DEF Init, TypeOK
<1>3. Shape
  <2>0. 0 \in 0..Len(files) /\ 0 \in Nat
    BY <1>1
  <2>1. block \in [Workers -> Messages]
    BY DEF Init, NoLines, Messages
  <2>2. lines \in [Workers -> Nat] /\ once \in [Workers -> Nat]
    BY DEF Init
  <2>3. <<>> \in Seq(Messages) /\ <<>> \in Seq(Nat) /\ <<>> \in Seq(Files)
    OBVIOUS
  <2>. QED BY <2>1, <2>2, <2>3, <2>0 DEF Init, Shape
<1>. QED BY <1>2, <1>3 DEF LogInv

\* What a step of a worker leaves of the messages.
LEMMA PushType ==
    ASSUME Shape, NEW m \in Messages, Push(m)
    PROVE  pushed' \in Seq(Messages) /\ log' \in Seq(Nat)
BY DEF Shape, Push

LEMMA WorkerLog ==
    ASSUME LogInv, NEW w \in Workers, Worker(w)
    PROVE  LogInv' /\ UNCHANGED <<runFlag, con, batch, fileVars, mainVars>>
<1>. USE DEF LogInv
<1>1. CASE WriteLog(w)
  <2>1. NoLines(w) \in Messages
    BY DEF NoLines, Messages
  <2>2. UNCHANGED <<runFlag, workerVars, con, batch, fileVars, mainVars>> /\ pushed' \in Seq(Messages) /\ log' \in Seq(Nat)
    BY <1>1, <2>1, PushType DEF WriteLog
  <2>. QED BY <2>2 DEF TypeOK, Shape, workerVars, fileVars, mainVars
<1>2. CASE WriteOnce(w)
  <2>1. UNCHANGED <<runFlag, once, block, pushed, log, con, batch, fileVars, mainVars>> /\ lines' \in [Workers -> Nat]
    BY <1>2 DEF WriteOnce, Shape
  <2>. QED BY <2>1 DEF TypeOK, Shape, fileVars, mainVars
<1>3. CASE FlushTake(w)
  <2>1. /\ UNCHANGED <<runFlag, lines, pushed, log, con, batch, fileVars, mainVars>>
        /\ once' \in [Workers -> Nat]
    BY <1>3 DEF FlushTake, Shape
  <2>2. block' \in [Workers -> Messages]
    BY <1>3 DEF FlushTake, Shape, Messages
  <2>. QED BY <2>1, <2>2 DEF TypeOK, Shape, fileVars, mainVars
<1>4. CASE FlushPush(w)
  <2>1. block[w] \in Messages /\ NoLines(w) \in Messages
    BY DEF Shape, NoLines, Messages
  <2>2. /\ UNCHANGED <<runFlag, lines, once, con, batch, fileVars, mainVars>>
        /\ pushed' \in Seq(Messages) /\ log' \in Seq(Nat) /\ block' \in [Workers -> Messages]
    BY <1>4, <2>1, PushType DEF FlushPush, Shape
  <2>. QED BY <2>2 DEF TypeOK, Shape, fileVars, mainVars
<1>. QED BY <1>1, <1>2, <1>3, <1>4 DEF Worker

\* The helpers of the log thread keep the files files.
LEMMA FileShape ==
    ASSUME NEW x \in Files
    PROVE  /\ x.messages \in Seq(Nat) /\ x.writes \in Nat /\ x.final \in BOOLEAN
           /\ x = [messages |-> x.messages, writes |-> x.writes, final |-> x.final]
BY DEF Files

LEMMA FileOf ==
    ASSUME NEW m \in Seq(Nat), NEW n \in Nat, NEW b \in BOOLEAN
    PROVE  [messages |-> m, writes |-> n, final |-> b] \in Files
BY DEF Files

LEMMA Finished ==
    ASSUME NEW x \in Files, NEW b
    PROVE  [x EXCEPT !.final = b] = [messages |-> x.messages, writes |-> x.writes, final |-> b]
BY FileShape

LEMMA ClosedType ==
    ASSUME TypeOK, Shape
    PROVE  /\ Closed(files) \in Seq(Files) /\ Len(Closed(files)) = Len(files)
           /\ \A f \in 1..Len(files) :
                 /\ Closed(files)[f].messages = files[f].messages /\ Closed(files)[f].writes = files[f].writes
                 /\ Closed(files)[f].final = IF f = fd THEN TRUE ELSE files[f].final
<1>0. files \in Seq(Files) /\ Len(files) \in Nat /\ fd \in 0..Len(files)
  BY DEF TypeOK, Shape
<1>1. CASE fd = 0
  <2>1. \A f \in 1..Len(files) : f # fd
    BY <1>0, <1>1
  <2>. QED BY <1>0, <1>1, <2>1 DEF Closed
<1>2. CASE fd # 0
  <2>. DEFINE x == [messages |-> files[fd].messages, writes |-> files[fd].writes, final |-> TRUE]
  <2>1. fd \in 1..Len(files) /\ files[fd] \in Files
    BY <1>0, <1>2
  <2>2. Closed(files) = [files EXCEPT ![fd] = x]
    <3>1. [files[fd] EXCEPT !.final = TRUE] = x
      BY <2>1, Finished
    <3>. QED BY <1>2, <3>1 DEF Closed
  <2>3. x \in Files
    BY <2>1, FileShape, FileOf
  <2>4. x.messages = files[fd].messages /\ x.writes = files[fd].writes /\ x.final = TRUE
    OBVIOUS
  <2>. HIDE DEF x
  <2>5. [files EXCEPT ![fd] = x] \in Seq(Files) /\ Len([files EXCEPT ![fd] = x]) = Len(files)
    BY <1>0, <2>1, <2>3
  <2>6. \A f \in 1..Len(files) : Closed(files)[f] = IF f = fd THEN x ELSE files[f]
    BY <1>0, <2>1, <2>2
  <2>. QED BY <2>2, <2>4, <2>5, <2>6
<1>. QED BY <1>1, <1>2

LEMMA WrittenType ==
    ASSUME NEW fs \in Seq(Files), NEW f \in 1..Len(fs), NEW data \in Seq(Nat)
    PROVE  /\ Written(fs, f, data) \in Seq(Files) /\ Len(Written(fs, f, data)) = Len(fs)
           /\ \A g \in 1..Len(fs) : g # f => Written(fs, f, data)[g] = fs[g]
           /\ Written(fs, f, data)[f].messages = fs[f].messages \o data
           /\ Written(fs, f, data)[f].writes = fs[f].writes + 1
           /\ Written(fs, f, data)[f].final = fs[f].final
<1>. DEFINE x == [messages |-> fs[f].messages \o data, writes |-> fs[f].writes + 1, final |-> fs[f].final]
<1>1. fs[f] \in Files
  OBVIOUS
<1>2. Written(fs, f, data) = [fs EXCEPT ![f] = x]
  BY DEF Written
<1>3. x \in Files
  <2>1. fs[f].messages \o data \in Seq(Nat) /\ fs[f].writes + 1 \in Nat /\ fs[f].final \in BOOLEAN
    BY <1>1, FileShape
  <2>. QED BY <2>1, FileOf
<1>4. x.messages = fs[f].messages \o data /\ x.writes = fs[f].writes + 1 /\ x.final = fs[f].final
  OBVIOUS
<1>. HIDE DEF x
<1>5. [fs EXCEPT ![f] = x] \in Seq(Files) /\ Len([fs EXCEPT ![f] = x]) = Len(fs)
  BY <1>3
<1>6. [fs EXCEPT ![f] = x][f] = x /\ \A g \in 1..Len(fs) : g # f => [fs EXCEPT ![f] = x][g] = fs[g]
  OBVIOUS
<1>. QED BY <1>2, <1>4, <1>5, <1>6

LEMMA TakeBatchLog ==
    ASSUME LogInv, FileInv, TakeBatch
    PROVE  LogInv' /\ FileInv'
<1>. USE DEF LogInv, FileInv
<1>1. con = "take" /\ UNCHANGED <<runFlag, workerVars, pushed, fileVars, mainVars>>
  BY DEF TakeBatch
<1>2. /\ batch' \in Seq(Nat) /\ log' \in Seq(Nat) /\ Len(batch') <= Batch
      /\ con' \in {"loop", "open"} /\ (batch' # <<>> <=> con' = "open")
  <2>1. CASE log = <<>>
    BY <2>1 DEF TakeBatch, TypeOK, Shape
  <2>2. CASE log # <<>>
    <3>1. log \in Seq(Nat) /\ Len(log) \in Nat \ {0}
      BY <2>2 DEF Shape
    <3>2. Smaller(Batch, Len(log)) \in 1..Len(log) /\ Smaller(Batch, Len(log)) <= Batch
      BY <3>1, LocalLogAssumption DEF Smaller
    <3>3. /\ batch' = SubSeq(log, 1, Smaller(Batch, Len(log))) /\ con' = "open"
          /\ log' = SubSeq(log, Len(batch') + 1, Len(log))
      BY <2>2 DEF TakeBatch
    <3>4. batch' \in Seq(Nat) /\ Len(batch') = Smaller(Batch, Len(log))
      BY <3>1, <3>2, <3>3
    <3>5. log' \in Seq(Nat)
      BY <3>1, <3>2, <3>3, <3>4
    <3>6. batch' # <<>>
      BY <3>2, <3>4
    <3>. QED BY <3>2, <3>3, <3>4, <3>5, <3>6
  <2>. QED BY <2>1, <2>2
<1>3. LogInv'
  BY <1>1, <1>2 DEF TypeOK, Shape, workerVars, fileVars, mainVars
<1>. QED BY <1>1, <1>2, <1>3 DEF SizeKnown, FilesBounded, ClosedMeansFinal, Dangling, fileVars, mainVars

LEMMA HourCloseLog ==
    ASSUME LogInv, FileInv, HourClose
    PROVE  LogInv' /\ FileInv'
<1>. USE DEF LogInv, FileInv
<1>1. /\ con = "loop" /\ con' = "take" /\ runFlag
      /\ UNCHANGED <<runFlag, workerVars, pushed, log, batch, size, mainVars>>
  BY DEF HourClose
<1>2. gone = 0
  BY <1>1 DEF TypeOK, Shape
<1>3. CASE UNCHANGED <<files, fd>>
  <2>1. LogInv'
    BY <1>1, <1>3 DEF TypeOK, Shape, workerVars, mainVars
  <2>. QED BY <1>1, <1>3, <2>1 DEF SizeKnown, FilesBounded, ClosedMeansFinal, Dangling, mainVars
<1>4. CASE files' = Closed(files) /\ fd' = 0
  <2>1. /\ files' \in Seq(Files) /\ Len(files') = Len(files)
        /\ \A f \in 1..Len(files) :
              /\ files'[f].messages = files[f].messages /\ files'[f].writes = files[f].writes
              /\ files'[f].final = IF f = fd THEN TRUE ELSE files[f].final
    BY <1>4, ClosedType
  <2>2. LogInv'
    BY <1>1, <1>2, <1>4, <2>1 DEF TypeOK, Shape, workerVars, mainVars
  <2>3. FilesBounded' /\ SizeKnown'
    BY <1>1, <1>4, <2>1 DEF FilesBounded, SizeKnown
  <2>4. ClosedMeansFinal'
    <3>. SUFFICES ASSUME HdfsLog, NEW f \in 1..Len(files) PROVE files'[f].final
      BY <1>4, <2>1 DEF ClosedMeansFinal
    <3>1. f # fd => files[f].final
      BY <1>2 DEF ClosedMeansFinal, Dangling
    <3>. QED BY <2>1, <3>1
  <2>. QED BY <2>2, <2>3, <2>4
<1>. QED BY <1>3, <1>4 DEF HourClose

\* A new file at the end of the files, which are closed.
LEMMA NewFileType ==
    ASSUME NEW fs \in Seq(Files)
    PROVE  /\ Append(fs, NewFile) \in Seq(Files) /\ Len(Append(fs, NewFile)) = Len(fs) + 1
           /\ Append(fs, NewFile)[Len(fs) + 1] = NewFile
           /\ \A f \in 1..Len(fs) : Append(fs, NewFile)[f] = fs[f]
           /\ NewFile.messages = <<>> /\ NewFile.writes = 0 /\ NewFile.final = ~HdfsLog
<1>1. NewFile \in Files
  <2>1. <<>> \in Seq(Nat) /\ 0 \in Nat /\ (~HdfsLog) \in BOOLEAN
    BY LocalLogAssumption
  <2>. QED BY <2>1, FileOf DEF NewFile
<1>. QED BY <1>1 DEF NewFile

LEMMA OpenLog ==
    ASSUME LogInv, FileInv, Open
    PROVE  LogInv' /\ FileInv'
<1>. USE DEF LogInv, FileInv
<1>1. /\ con = "open" /\ con' = "write" /\ UNCHANGED <<runFlag, workerVars, pushed, log, batch, mainVars>>
  BY DEF Open
<1>2. CASE fd # 0
  <2>1. UNCHANGED <<size, fd, files>>
    BY <1>2 DEF Open, fileVars
  <2>2. LogInv'
    BY <1>1, <1>2, <2>1 DEF TypeOK, Shape, workerVars, mainVars
  <2>. QED BY <1>1, <2>1, <2>2 DEF SizeKnown, FilesBounded, ClosedMeansFinal, Dangling, mainVars
<1>3. CASE fd = 0
  <2>1. fd' = Len(files) + 1 /\ files' = Append(files, NewFile) /\ size' = 0
    BY <1>3 DEF Open
  <2>2. /\ files' \in Seq(Files) /\ Len(files') = Len(files) + 1 /\ Len(files) \in Nat
        /\ files'[fd'] = NewFile
        /\ \A f \in 1..Len(files) : files'[f] = files[f]
        /\ Len(NewFile.messages) = 0 /\ NewFile.writes = 0 /\ NewFile.final = ~HdfsLog
    BY <2>1, NewFileType DEF Shape
  <2>3. LogInv'
    BY <1>1, <2>1, <2>2 DEF TypeOK, Shape, workerVars, mainVars
  <2>4. gone' = 0
    BY <1>1, <1>3 DEF TypeOK, mainVars, Shape
  <2>5. SizeKnown'
    BY <2>1, <2>2 DEF SizeKnown
  <2>6. FilesBounded'
    BY <1>1, <2>1, <2>2 DEF FilesBounded
  <2>7. ClosedMeansFinal'
    <3>. SUFFICES ASSUME HdfsLog, NEW f \in 1..Len(files') PROVE files'[f].final <=> f # fd'
      BY <2>1, <2>4, <2>2 DEF ClosedMeansFinal, Dangling
    <3>1. CASE f = fd'
      BY <3>1, <2>2
    <3>2. CASE f # fd'
      <4>1. f \in 1..Len(files) /\ f # fd
        BY <3>2, <2>1, <2>2, <1>3
      <4>. QED BY <3>2, <4>1, <2>2 DEF ClosedMeansFinal
    <3>. QED BY <3>1, <3>2
  <2>. QED BY <2>3, <2>5, <2>6, <2>7
<1>. QED BY <1>2, <1>3

LEMMA WriteLogFile ==
    ASSUME LogInv, FileInv, Write
    PROVE  LogInv' /\ FileInv'
<1>. USE DEF LogInv, FileInv
<1>1. /\ con = "write" /\ con' = "loop" /\ batch' = <<>> /\ fd # 0
      /\ UNCHANGED <<runFlag, workerVars, pushed, log, mainVars>>
  BY DEF Write, TypeOK
<1>2. /\ files \in Seq(Files) /\ Len(files) \in Nat /\ fd \in 1..Len(files) /\ gone \in 0..Len(files)
      /\ batch \in Seq(Nat) /\ Len(batch) \in Nat /\ size \in Nat /\ MaxSize \in Nat
      /\ files[fd].messages \in Seq(Nat) /\ files[fd].writes \in Nat
  <2>1. /\ files \in Seq(Files) /\ Len(files) \in Nat /\ gone \in 0..Len(files)
        /\ batch \in Seq(Nat) /\ Len(batch) \in Nat /\ size \in Nat /\ MaxSize \in Nat
    BY LocalLogAssumption DEF Shape
  <2>2. fd \in 1..Len(files)
    BY <1>1, <2>1 DEF TypeOK
  <2>3. files[fd] \in Files
    BY <2>1, <2>2
  <2>. QED BY <2>1, <2>2, <2>3, FileShape
<1>3. CASE Full
  <2>. DEFINE fs == Append(Closed(files), NewFile)
              f == Len(files) + 1
  <2>1. fd' = f /\ files' = Written(fs, f, batch) /\ size' = Len(batch)
    BY <1>3 DEF Write
  <2>2. /\ fs \in Seq(Files) /\ Len(fs) = f /\ f \in 1..Len(fs) /\ fs[f] = NewFile
        /\ \A g \in 1..Len(files) : fs[g] = Closed(files)[g]
        /\ NewFile.messages = <<>> /\ NewFile.writes = 0 /\ NewFile.final = ~HdfsLog
    <3>1. Closed(files) \in Seq(Files) /\ Len(Closed(files)) = Len(files)
      BY ClosedType
    <3>2. /\ fs \in Seq(Files) /\ Len(fs) = Len(Closed(files)) + 1
          /\ fs[Len(Closed(files)) + 1] = NewFile
          /\ \A g \in 1..Len(Closed(files)) : fs[g] = Closed(files)[g]
          /\ NewFile.messages = <<>> /\ NewFile.writes = 0 /\ NewFile.final = ~HdfsLog
      BY <3>1, NewFileType
    <3>3. Len(files) + 1 \in 1..(Len(files) + 1)
      BY <1>2
    <3>. QED BY <3>1, <3>2, <3>3
  <2>. HIDE DEF fs
  <2>3. /\ files' \in Seq(Files) /\ Len(files') = Len(files) + 1
        /\ \A g \in 1..Len(files) : files'[g] = Closed(files)[g]
        /\ files'[f].messages = <<>> \o batch /\ files'[f].writes = 1 /\ files'[f].final = ~HdfsLog
    <3>1. \A g \in 1..Len(files) : g \in 1..Len(fs) /\ g # f
      BY <1>2, <2>2
    <3>2. /\ Written(fs, f, batch) \in Seq(Files) /\ Len(Written(fs, f, batch)) = Len(fs)
          /\ \A g \in 1..Len(fs) : g # f => Written(fs, f, batch)[g] = fs[g]
          /\ Written(fs, f, batch)[f].messages = fs[f].messages \o batch
          /\ Written(fs, f, batch)[f].writes = fs[f].writes + 1
          /\ Written(fs, f, batch)[f].final = fs[f].final
      BY <1>2, <2>2, WrittenType
    <3>. QED BY <2>1, <2>2, <3>1, <3>2
  <2>4. <<>> \o batch = batch
    BY <1>2
  <2>5. LogInv'
    BY <1>1, <1>2, <2>1, <2>3, LocalLogAssumption DEF TypeOK, Shape, workerVars, mainVars
  <2>6. SizeKnown'
    BY <1>2, <2>1, <2>3, <2>4 DEF SizeKnown
  <2>7. \A g \in 1..Len(files') : g = f \/ g \in 1..Len(files)
    <3>1. \A k \in Nat : \A g \in 1..(k + 1) : g = k + 1 \/ g \in 1..k
      OBVIOUS
    <3>. QED BY <1>2, <2>3, <3>1
  <2>8. FilesBounded'
    <3>1. \A g \in 1..Len(files) : /\ files'[g].messages = files[g].messages
                                  /\ files'[g].writes = files[g].writes
      BY <2>3, ClosedType
    <3>2. \A g \in 1..Len(files) : Len(files[g].messages) < MaxSize \/ files[g].writes <= 1
      BY <1>1 DEF FilesBounded
    <3>3. files'[f].writes <= 1
      BY <2>3
    <3>. QED BY <2>7, <3>1, <3>2, <3>3 DEF FilesBounded
  <2>9. ClosedMeansFinal'
    <3>. SUFFICES ASSUME HdfsLog, NEW g \in 1..Len(files') PROVE files'[g].final <=> g # f
      <4>1. gone' # f
        BY <1>1, <1>2 DEF mainVars
      <4>. QED BY <2>1, <4>1 DEF ClosedMeansFinal, Dangling
    <3>1. CASE g = f
      BY <2>3, <3>1
    <3>2. CASE g \in 1..Len(files)
      <4>1. g # f
        BY <3>2, <1>2
      <4>2. g # fd => files[g].final
        BY <3>2 DEF ClosedMeansFinal
      <4>. QED BY <2>3, <3>2, <4>1, <4>2, ClosedType
    <3>. QED BY <2>7, <3>1, <3>2
  <2>. QED BY <2>5, <2>6, <2>8, <2>9
<1>4. CASE ~Full
  <2>1. fd' = fd /\ size' = size + Len(batch) /\ size + Len(batch) < MaxSize
    BY <1>2, <1>4 DEF Write, Full
  <2>2. CASE Dangling
    <3>1. files' = files
      BY <1>4, <2>2 DEF Write
    <3>2. LogInv'
      BY <1>1, <1>2, <2>1, <3>1, LocalLogAssumption DEF TypeOK, Shape, workerVars, mainVars
    <3>3. Len(files[fd].messages) <= size + Len(batch)
      BY <1>1, <1>2 DEF SizeKnown
    <3>. QED BY <1>1, <2>1, <3>1, <3>2, <3>3 DEF SizeKnown, FilesBounded, ClosedMeansFinal, Dangling, mainVars
  <2>3. CASE ~Dangling
    <3>1. files' = Written(files, fd, batch)
      BY <1>4, <2>3 DEF Write
    <3>2. /\ files' \in Seq(Files) /\ Len(files') = Len(files)
          /\ \A g \in 1..Len(files) : g # fd => files'[g] = files[g]
          /\ files'[fd].messages = files[fd].messages \o batch
          /\ files'[fd].final = files[fd].final
      BY <1>2, <3>1, WrittenType
    <3>3. Len(files'[fd].messages) = Len(files[fd].messages) + Len(batch)
      BY <1>2, <3>2
    <3>4. Len(files[fd].messages) <= size /\ Len(files[fd].messages) \in Nat
      BY <1>1, <1>2 DEF SizeKnown
    <3>5. LogInv'
      BY <1>1, <1>2, <2>1, <3>2, LocalLogAssumption DEF TypeOK, Shape, workerVars, mainVars
    <3>6. SizeKnown' /\ Len(files'[fd].messages) < MaxSize
      BY <1>2, <2>1, <3>3, <3>4 DEF SizeKnown
    <3>7. FilesBounded'
      BY <1>1, <2>1, <3>2, <3>6 DEF FilesBounded
    <3>8. ClosedMeansFinal'
      BY <1>1, <2>1, <3>2 DEF ClosedMeansFinal, Dangling, mainVars
    <3>. QED BY <3>5, <3>6, <3>7, <3>8
  <2>. QED BY <2>2, <2>3
<1>. QED BY <1>3, <1>4

LEMMA DrainLog ==
    ASSUME LogInv, FileInv, Drain
    PROVE  LogInv' /\ FileInv'
<1>. USE DEF LogInv, FileInv
<1>. DEFINE n == (Len(log) + 1) \div 2
<1>1. /\ con = "loop" /\ con' = "done"
      /\ log' = SubSeq(log, n + 1, Len(log))
      /\ UNCHANGED <<runFlag, workerVars, pushed, batch, size, fd, mainVars>>
  BY DEF Drain
<1>2. log \in Seq(Nat) /\ Len(log) \in Nat /\ n \in 0..Len(log)
  BY DEF Shape
<1>. HIDE DEF n
<1>3. log' \in Seq(Nat) /\ SubSeq(log, 1, n) \in Seq(Nat)
  <2>1. \A i \in 1..Len(log) : log[i] \in Nat
    BY <1>2
  <2>2. SubSeq(log, 1, n) \in Seq(Nat)
    BY <1>2, <2>1, SubSeqProperties
  <2>3. SubSeq(log, n + 1, Len(log)) \in Seq(Nat)
    BY <1>2, <2>1, SubSeqProperties
  <2>. QED BY <1>1, <2>2, <2>3
<1>4. /\ files' \in Seq(Files) /\ Len(files') = Len(files)
      /\ \A g \in 1..Len(files) : files'[g].final = files[g].final
  <2>1. CASE n > 0 /\ fd # 0 /\ ~Dangling
    <3>1. fd \in 1..Len(files) /\ files \in Seq(Files)
      BY <2>1 DEF TypeOK, Shape
    <3>2. files' = Written(files, fd, SubSeq(log, 1, n))
      BY <2>1 DEF Drain, n
    <3>3. /\ files' \in Seq(Files) /\ Len(files') = Len(files)
          /\ \A g \in 1..Len(files) : g # fd => files'[g] = files[g]
          /\ files'[fd].final = files[fd].final
      BY <1>3, <3>1, <3>2, WrittenType
    <3>. QED BY <3>3
  <2>2. CASE ~(n > 0 /\ fd # 0 /\ ~Dangling)
    BY <2>2 DEF Drain, Shape, n
  <2>. QED BY <2>1, <2>2
<1>5. LogInv'
  BY <1>1, <1>3, <1>4 DEF TypeOK, Shape, workerVars, mainVars
<1>. QED BY <1>1, <1>4, <1>5 DEF SizeKnown, FilesBounded, ClosedMeansFinal, Dangling, mainVars

LEMMA UninitLog ==
    ASSUME LogInv, FileInv, Uninit
    PROVE  LogInv' /\ FileInv'
<1>. USE DEF LogInv, FileInv
<1>1. /\ ~runFlag /\ shut' = TRUE /\ gone' = fd /\ files' = Closed(files)
      /\ UNCHANGED <<runFlag, workerVars, pushed, log, con, batch, size, fd>>
  BY DEF Uninit
<1>2. /\ files' \in Seq(Files) /\ Len(files') = Len(files)
      /\ \A f \in 1..Len(files) :
            /\ files'[f].messages = files[f].messages /\ files'[f].writes = files[f].writes
            /\ files'[f].final = IF f = fd THEN TRUE ELSE files[f].final
  BY <1>1, ClosedType
<1>3. LogInv'
  BY <1>1, <1>2 DEF TypeOK, Shape, workerVars
<1>4. SizeKnown' /\ FilesBounded'
  <2>1. fd # 0 => fd \in 1..Len(files)
    BY DEF TypeOK, Shape
  <2>. QED BY <1>1, <1>2, <2>1 DEF SizeKnown, FilesBounded
<1>5. ClosedMeansFinal'
  <2>. SUFFICES ASSUME HdfsLog, NEW f \in 1..Len(files) PROVE files'[f].final
    BY <1>1, <1>2 DEF ClosedMeansFinal, Dangling, TypeOK
  <2>1. f # fd => files[f].final
    BY DEF ClosedMeansFinal
  <2>. QED BY <1>2, <2>1
<1>. QED BY <1>3, <1>4, <1>5

LEMMA StepLog == ASSUME LogInv, FileInv, [Next]_vars PROVE LogInv' /\ FileInv'
<1>1. CASE run
  BY <1>1, TakeBatchLog, HourCloseLog, OpenLog, WriteLogFile, DrainLog DEF run
<1>2. CASE Uninit
  BY <1>2, UninitLog
<1>3. CASE \E w \in Workers : Worker(w)
  <2>1. LogInv' /\ UNCHANGED <<runFlag, con, batch, fileVars, mainVars>>
    BY <1>3, WorkerLog
  <2>. QED BY <2>1 DEF FileInv, SizeKnown, FilesBounded, ClosedMeansFinal, Dangling, fileVars, mainVars
<1>4. CASE Crash
  <2>1. con' = "crashed" /\ con # "done" /\ UNCHANGED <<runFlag, workerVars, pushed, log, batch, fileVars, mainVars>>
    BY <1>4 DEF Crash
  <2>. QED BY <2>1 DEF LogInv, FileInv, TypeOK, Shape, SizeKnown, FilesBounded, ClosedMeansFinal, Dangling,
              workerVars, fileVars, mainVars
<1>5. CASE Tick \/ StopBid \/ UNCHANGED vars
  <2>1. /\ UNCHANGED <<workerVars, pushed, log, con, batch, fileVars, mainVars>>
        /\ runFlag' = runFlag \/ runFlag' = FALSE
    BY <1>5 DEF Tick, StopBid, vars
  <2>2. TypeOK' /\ Shape'
    <3>1. CASE runFlag' = runFlag
      BY <2>1, <3>1 DEF LogInv, TypeOK, Shape, workerVars, fileVars, mainVars
    <3>2. CASE runFlag' = FALSE
      <4>1. TypeOK'
        BY <2>1, <3>2 DEF LogInv, TypeOK, fileVars, mainVars
      <4>2. Shape'
        BY <2>1, <3>2 DEF LogInv, Shape, workerVars, fileVars, mainVars
      <4>. QED BY <4>1, <4>2
    <3>. QED BY <2>1, <3>1, <3>2
  <2>3. FileInv'
    BY <2>1 DEF FileInv, SizeKnown, FilesBounded, ClosedMeansFinal, Dangling, fileVars, mainVars
  <2>. QED BY <2>2, <2>3 DEF LogInv
<1>. QED BY <1>1, <1>2, <1>3, <1>4, <1>5 DEF Next

LEMMA Invariance == Spec => [](LogInv /\ FileInv)
<1>1. Init => FileInv
  BY DEF Init, FileInv, SizeKnown, FilesBounded, ClosedMeansFinal
<1>. QED BY <1>1, InitLog, StepLog, PTL DEF Spec

\* The variables keep their shape, also when a file cannot be opened and when
\* Uninit closes the file under the log thread.
THEOREM TypeCorrect == Spec => []TypeOK
BY Invariance, PTL DEF LogInv

\* No file outgrows the limit by more than one batch of messages.
THEOREM FilesStayBounded == Spec => []FilesBounded
BY Invariance, PTL DEF FileInv

\* A file has its final name exactly when it is closed.
THEOREM FinalWhenClosed == Spec => []ClosedMeansFinal
BY Invariance, PTL DEF FileInv
-----------------------------------------------------------------------------
(* The blocks of a worker join up. *)

LEMMA HasMax ==
    ASSUME NEW n \in Nat, NEW S, S \subseteq 1..n, S # {}
    PROVE  Max(S) \in S /\ \A y \in S : Max(S) >= y
<1>. DEFINE T == {n - x : x \in S}
<1>1. T \subseteq Nat /\ T # {}
  <2>1. \A x \in S : n - x \in Nat
    OBVIOUS
  <2>. QED BY <2>1
<1>2. \E z \in T : \A y \in T : ~(<<y, z>> \in OpToRel(<, Nat))
  BY <1>1, WFMin, NatLessThanWellFounded
<1>3. PICK z \in T : \A y \in T : ~(y < z)
  BY <1>1, <1>2 DEF OpToRel
<1>4. PICK x \in S : z = n - x
  BY <1>3
<1>5. ASSUME NEW y \in S PROVE x >= y
  <2>1. x \in 1..n /\ y \in 1..n
    BY <1>4, <1>5
  <2>2. ~(n - y < n - x)
    BY <1>3, <1>4, <1>5
  <2> HIDE DEF T
  <2> QED BY <2>1, <2>2
<1>. QED BY <1>5 DEF Max

LEMMA MaxIs ==
    ASSUME NEW S, S \subseteq Int, NEW x \in S, \A y \in S : x >= y
    PROVE  Max(S) = x
<1>1. Max(S) \in S /\ \A y \in S : Max(S) >= y
  BY DEF Max
<1>2. Max(S) \in Int /\ x \in Int /\ Max(S) >= x /\ x >= Max(S)
  BY <1>1
<1>. HIDE DEF Max
<1>. QED BY <1>2

\* The blocks of w before the message j, and the last line they hold.
Earlier(w, j) == {i \in 1..(j - 1) : pushed[i].by = w /\ pushed[i].to # 0}
LastLine(w, j) == IF Earlier(w, j) = {} THEN 0 ELSE pushed[Max(Earlier(w, j))].to
Blocks(w) == LastLine(w, Len(pushed) + 1)

\* What w has in hand comes next, and holds at least one line.
JoinsUp(w) ==
    /\ block[w].by = w
    /\ block[w].to = 0 => once[w] = Blocks(w) + 1
    /\ block[w].to # 0 => block[w].from = Blocks(w) + 1 /\ once[w] = block[w].to + 1

Joined == \A j \in 1..Len(pushed) : pushed[j].to # 0 => pushed[j].from = LastLine(pushed[j].by, j) + 1

JoinInv == Joined /\ \A w \in Workers : JoinsUp(w)

LEMMA JoinDef == Joined => BlocksJoinUp
BY DEF Joined, BlocksJoinUp, LastLine, Earlier

\* A message at the end changes nothing of what was before.
LEMMA PushLastLine ==
    ASSUME Shape, NEW m \in Messages, Push(m)
    PROVE  /\ Len(pushed') = Len(pushed) + 1 /\ pushed'[Len(pushed) + 1] = m
           /\ \A i \in 1..Len(pushed) : pushed'[i] = pushed[i]
           /\ \A w : \A j \in 1..(Len(pushed) + 1) : LastLine(w, j)' = LastLine(w, j)
           /\ \A w : Blocks(w)' = IF m.by = w /\ m.to # 0 THEN m.to ELSE Blocks(w)
<1>0. PICK n \in Nat : n = Len(pushed)
  BY DEF Shape
<1>1. pushed' = Append(pushed, m) /\ pushed \in Seq(Messages) /\ n = Len(pushed)
  BY <1>0 DEF Push, Shape
<1>2. Len(pushed') = n + 1 /\ pushed'[n + 1] = m /\ \A i \in 1..n : pushed'[i] = pushed[i]
  BY <1>1
<1>3. ASSUME NEW w, NEW j \in 1..(n + 1) PROVE LastLine(w, j)' = LastLine(w, j)
  <2>1. 1..(j - 1) \subseteq 1..n
    BY <1>1
  <2>2. Earlier(w, j)' = Earlier(w, j) /\ Earlier(w, j) \subseteq 1..n
    BY <1>2, <2>1 DEF Earlier
  <2>3. Earlier(w, j) # {} => Max(Earlier(w, j)) \in 1..n
    BY <1>1, <2>2, HasMax
  <2>. QED BY <1>2, <2>2, <2>3 DEF LastLine
<1>4. ASSUME NEW w PROVE Blocks(w)' = IF m.by = w /\ m.to # 0 THEN m.to ELSE Blocks(w)
  <2>. DEFINE new == IF m.by = w /\ m.to # 0 THEN {n + 1} ELSE {}
  <2>1. Earlier(w, n + 2)' = Earlier(w, n + 1) \cup new
    <3>1. 1..((n + 2) - 1) = (1..n) \cup {n + 1} /\ 1..((n + 1) - 1) = 1..n
      BY <1>1
    <3>. QED BY <1>2, <3>1 DEF Earlier
  <2>2. Blocks(w)' = LastLine(w, n + 2)'
    BY <1>1, <1>2 DEF Blocks
  <2>3. Earlier(w, n + 1) \subseteq 1..n
    BY <1>1 DEF Earlier
  <2>4. CASE m.by = w /\ m.to # 0
    <3>1. Max(Earlier(w, n + 2)') = n + 1
      BY <1>1, <2>1, <2>3, <2>4, MaxIs
    <3>2. Earlier(w, n + 2)' # {}
      BY <2>1, <2>4
    <3>. QED BY <1>2, <2>2, <2>4, <3>1, <3>2 DEF LastLine
  <2>5. CASE ~(m.by = w /\ m.to # 0)
    <3>1. Earlier(w, n + 2)' = Earlier(w, n + 1)
      BY <2>1, <2>5
    <3>2. Earlier(w, n + 1) # {} => Max(Earlier(w, n + 1)) \in 1..n
      BY <1>1, <2>3, HasMax
    <3>3. LastLine(w, n + 2)' = LastLine(w, n + 1)
      BY <1>2, <3>1, <3>2 DEF LastLine
    <3>4. Blocks(w) = LastLine(w, n + 1)
      BY <1>0 DEF Blocks
    <3>. QED BY <2>2, <2>5, <3>3, <3>4
  <2>. QED BY <2>4, <2>5
<1>. QED BY <1>0, <1>2, <1>3, <1>4

LEMMA InitJoin == Init => JoinInv
<1>. SUFFICES ASSUME Init PROVE JoinInv
  OBVIOUS
<1>1. pushed = <<>> /\ Len(pushed) = 0
  BY DEF Init
<1>2. \A w : Blocks(w) = 0
  <2>1. 1..((0 + 1) - 1) = {}
    OBVIOUS
  <2>. QED BY <1>1, <2>1 DEF Blocks, LastLine, Earlier
<1>3. \A w \in Workers : once[w] = 1 /\ block[w] = NoLines(w)
  BY DEF Init
<1>4. Joined
  BY <1>1 DEF Joined
<1>5. \A w \in Workers : JoinsUp(w)
  <2>1. ASSUME NEW w \in Workers PROVE JoinsUp(w)
    <3>0. NoLines(w).by = w /\ NoLines(w).to = 0
      BY DEF NoLines
    <3>1. block[w].by = w /\ block[w].to = 0
      BY <1>3, <3>0
    <3>2. once[w] = 1 /\ Blocks(w) + 1 = 1
      BY <1>2, <1>3
    <3>. QED BY <3>1, <3>2 DEF JoinsUp
  <2>. QED BY <2>1
<1>. QED BY <1>4, <1>5 DEF JoinInv

\* As long as nothing is pushed the blocks stay.
LEMMA QuietBlocks ==
    ASSUME UNCHANGED pushed
    PROVE  (Joined => Joined') /\ \A w : Blocks(w)' = Blocks(w)
<1>1. \A w, j : Earlier(w, j)' = Earlier(w, j)
  BY DEF Earlier
<1>2. \A w, j : LastLine(w, j)' = LastLine(w, j)
  BY <1>1 DEF LastLine
<1>3. \A w : Blocks(w)' = Blocks(w)
  BY <1>2 DEF Blocks
<1>4. Joined => Joined'
  BY <1>2 DEF Joined
<1>. QED BY <1>3, <1>4

LEMMA QuietJoin ==
    ASSUME JoinInv, UNCHANGED <<once, block, pushed>>
    PROVE  JoinInv'
BY QuietBlocks DEF JoinInv, JoinsUp

\* A block of w that joins up may be pushed, a single message always.
LEMMA PushJoin ==
    ASSUME Shape, JoinInv, NEW m \in Messages, Push(m), m.to # 0 => m.from = Blocks(m.by) + 1
    PROVE  Joined'
<1>0. PICK n \in Nat : n = Len(pushed)
  BY DEF Shape
<1>1. /\ Len(pushed') = n + 1 /\ pushed'[n + 1] = m
      /\ \A i \in 1..n : pushed'[i] = pushed[i]
      /\ \A w : \A j \in 1..(n + 1) : LastLine(w, j)' = LastLine(w, j)
  BY <1>0, PushLastLine
<1>2. ASSUME NEW j \in 1..(n + 1), NEW v, v = pushed'[j].by, pushed'[j].to # 0
      PROVE  pushed'[j].from = LastLine(v, j)' + 1
  <2>1. LastLine(v, j)' = LastLine(v, j)
    BY <1>1
  <2>2. CASE j = n + 1
    BY <1>0, <1>1, <1>2, <2>1, <2>2 DEF Blocks
  <2>3. CASE j # n + 1
    <3>1. j \in 1..n /\ pushed'[j] = pushed[j]
      BY <1>1, <2>3
    <3>. QED BY <1>0, <1>2, <2>1, <3>1 DEF JoinInv, Joined
  <2>. QED BY <2>2, <2>3
<1>. QED BY <1>1, <1>2 DEF Joined

LEMMA BlocksType == ASSUME Shape, NEW w PROVE Blocks(w) \in Nat
<1>0. PICK n \in Nat : n = Len(pushed)
  BY DEF Shape
<1>1. Earlier(w, n + 1) \subseteq 1..n
  BY DEF Earlier
<1>2. Earlier(w, n + 1) # {} => Max(Earlier(w, n + 1)) \in 1..n
  BY <1>1, HasMax
<1>3. \A i \in 1..n : pushed[i] \in Messages
  BY <1>0 DEF Shape
<1>4. \A i \in 1..n : pushed[i].to \in Nat
  BY <1>3 DEF Messages
<1>. QED BY <1>0, <1>2, <1>4 DEF Blocks, LastLine

LEMMA WorkerJoin ==
    ASSUME LogInv, JoinInv, NEW w \in Workers, Worker(w)
    PROVE  JoinInv'
<1>. USE DEF LogInv
<1>0. Blocks(w) \in Nat
  BY BlocksType
<1>1. CASE WriteLog(w)
  <2>1. NoLines(w) \in Messages /\ NoLines(w).to = 0
    BY DEF NoLines, Messages
  <2>2. Push(NoLines(w)) /\ UNCHANGED <<once, block>>
    BY <1>1 DEF WriteLog, workerVars
  <2>3. Joined' /\ \A v : Blocks(v)' = Blocks(v)
    BY <2>1, <2>2, PushJoin, PushLastLine
  <2>. QED BY <2>2, <2>3 DEF JoinInv, JoinsUp
<1>2. CASE WriteOnce(w)
  BY <1>2, QuietJoin DEF WriteOnce
<1>3. CASE FlushTake(w)
  <2>1. /\ UNCHANGED pushed /\ block[w].to = 0 /\ once[w] <= lines[w]
        /\ block' = [block EXCEPT ![w] = [by |-> w, from |-> once[w], to |-> lines[w]]]
        /\ once' = [once EXCEPT ![w] = lines[w] + 1]
    BY <1>3 DEF FlushTake
  <2>2. Joined' /\ \A v : Blocks(v)' = Blocks(v)
    BY <2>1, QuietBlocks DEF JoinInv
  <2>3. JoinsUp(w)'
    <3>1. /\ block'[w].by = w /\ block'[w].from = once[w] /\ block'[w].to = lines[w]
          /\ once'[w] = lines[w] + 1
      BY <2>1 DEF Shape
    <3>2. once[w] = Blocks(w) + 1
      BY <2>1 DEF JoinInv, JoinsUp
    <3>3. lines[w] # 0
      <4>1. once[w] # 0
        BY <1>0, <3>2
      <4>. QED BY <2>1, <4>1 DEF Shape
    <3>. QED BY <2>2, <3>1, <3>2, <3>3 DEF JoinsUp
  <2>4. \A v \in Workers : v # w => JoinsUp(v)'
    BY <2>1, <2>2 DEF JoinInv, JoinsUp, Shape
  <2>. QED BY <2>2, <2>3, <2>4 DEF JoinInv
<1>4. CASE FlushPush(w)
  <2>1. /\ block[w] \in Messages /\ block[w].to # 0 /\ Push(block[w]) /\ UNCHANGED once
        /\ block' = [block EXCEPT ![w] = NoLines(w)]
    BY <1>4 DEF FlushPush, Shape
  <2>2. block[w].by = w /\ block[w].from = Blocks(w) + 1 /\ once[w] = block[w].to + 1
    BY <2>1 DEF JoinInv, JoinsUp
  <2>3. Joined' /\ \A v : Blocks(v)' = IF v = w THEN block[w].to ELSE Blocks(v)
    BY <2>1, <2>2, PushJoin, PushLastLine
  <2>4. JoinsUp(w)'
    BY <2>1, <2>2, <2>3 DEF JoinsUp, NoLines, Shape
  <2>5. \A v \in Workers : v # w => JoinsUp(v)'
    BY <2>1, <2>3 DEF JoinInv, JoinsUp, Shape
  <2>. QED BY <2>3, <2>4, <2>5 DEF JoinInv
<1>. QED BY <1>1, <1>2, <1>3, <1>4 DEF Worker

\* Whatever the threads log in between, the blocks of a thread hold its lines
\* once each and in order.
THEOREM BlocksAlwaysJoinUp == Spec => []BlocksJoinUp
<1>1. ASSUME LogInv, JoinInv, [Next]_vars PROVE JoinInv'
  <2>1. CASE \E w \in Workers : Worker(w)
    BY <1>1, <2>1, WorkerJoin
  <2>2. CASE UNCHANGED <<once, block, pushed>>
    BY <1>1, <2>2, QuietJoin
  <2>. QED BY <1>1, <2>1, <2>2 DEF Next, run, HourClose, TakeBatch, Open, Write, Drain, Crash, Uninit, Tick,
              StopBid, vars, workerVars
<1>2. JoinInv => BlocksJoinUp
  BY JoinDef DEF JoinInv
<1>. QED BY <1>1, <1>2, InitJoin, Invariance, PTL DEF Spec
------------------------------------------------------------------------------
(* What the files hold, as a function of the files. *)

\* Induction up to n: over the elements of a set, not over a formula.
LEMMA Induction ==
    ASSUME NEW n \in Nat, NEW T, 0 \in T, \A m \in 0..(n - 1) : m \in T => m + 1 \in T
    PROVE  0..n \subseteq T
<1>. DEFINE Missing == (0..n) \ T
<1>. SUFFICES ASSUME Missing # {} PROVE FALSE
  OBVIOUS
<1>1. PICK z \in Missing : \A y \in Missing : ~(y < z)
  <2>1. Missing \subseteq Nat
    OBVIOUS
  <2>. HIDE DEF Missing
  <2>2. \E z \in Missing : \A y \in Missing : ~(<<y, z>> \in OpToRel(<, Nat))
    BY <2>1, WFMin, NatLessThanWellFounded
  <2>. QED BY <2>1, <2>2 DEF OpToRel
<1>2. z # 0 /\ z - 1 \in 0..(n - 1) /\ z - 1 \notin Missing
  BY <1>1
<1>. QED BY <1>2

\* There is a function that puts the files together, so that is what the
\* CHOOSE of its definition finds.
LEMMA MessagesAddUp ==
    ASSUME NEW fs \in Seq(Files)
    PROVE  /\ MessagesUpTo(fs) \in [0..Len(fs) -> Seq(Nat)]
           /\ MessagesUpTo(fs)[0] = <<>>
           /\ \A n \in 1..Len(fs) : MessagesUpTo(fs)[n] = MessagesUpTo(fs)[n - 1] \o fs[n].messages
<1>. DEFINE N == Len(fs)
           Body(all) == [n \in 0..N |-> IF n = 0 THEN <<>> ELSE all[n - 1] \o fs[n].messages]
           Is(f, m) == /\ f \in [0..m -> Seq(Nat)] /\ f[0] = <<>>
                       /\ \A n \in 1..m : f[n] = f[n - 1] \o fs[n].messages
           T == {m \in 0..N : \E f : Is(f, m)}
<1>1. N \in Nat /\ \A n \in 1..N : fs[n].messages \in Seq(Nat)
  BY FileShape
<1>. HIDE DEF N
<1>2. 0 \in T
  <2>1. Is([n \in 0..0 |-> <<>>], 0)
    OBVIOUS
  <2>. HIDE DEF Is
  <2>. QED BY <1>1, <2>1
<1>3. ASSUME NEW m \in 0..(N - 1), m \in T PROVE m + 1 \in T
  <2>1. PICK f : Is(f, m)
    BY <1>3
  <2>. DEFINE x == f[m] \o fs[m + 1].messages
              g == [n \in 0..(m + 1) |-> IF n = m + 1 THEN x ELSE f[n]]
  <2>2. m + 1 \in 1..N /\ m + 1 \in 0..N /\ m \in Nat /\ f[m] \in Seq(Nat) /\ x \in Seq(Nat)
    BY <1>1, <2>1
  <2>. HIDE DEF x
  <2>3. g \in [0..(m + 1) -> Seq(Nat)] /\ g[0] = <<>>
    BY <2>1, <2>2
  <2>4. \A n \in 1..(m + 1) : g[n] = g[n - 1] \o fs[n].messages
    <3>1. \A n \in 1..m : g[n] = f[n] /\ g[n - 1] = f[n - 1]
      BY <2>2
    <3>2. g[m + 1] = x /\ g[(m + 1) - 1] = f[m]
      BY <2>2
    <3>3. \A n \in 1..(m + 1) : n \in 1..m \/ n = m + 1
      BY <2>2
    <3>. HIDE DEF g
    <3>. QED BY <2>1, <3>1, <3>2, <3>3 DEF x
  <2>5. Is(g, m + 1)
    BY <2>3, <2>4
  <2>. HIDE DEF Is, g
  <2>. QED BY <2>2, <2>5
<1>4. PICK f : Is(f, N)
  <2>. HIDE DEF T
  <2>1. 0..N \subseteq T
    BY <1>1, <1>2, <1>3, Induction
  <2>2. N \in T
    BY <1>1, <2>1
  <2>. HIDE DEF Is
  <2>. QED BY <2>2 DEF T
<1>5. f = Body(f)
  <2>1. f = [n \in 0..N |-> f[n]]
    BY <1>4
  <2>2. \A n \in 0..N : f[n] = IF n = 0 THEN <<>> ELSE f[n - 1] \o fs[n].messages
    <3>1. \A n \in 0..N : n = 0 \/ n \in 1..N
      BY <1>1
    <3>2. f[0] = <<>> /\ \A n \in 1..N : f[n] = f[n - 1] \o fs[n].messages
      BY <1>4
    <3>. QED BY <3>1, <3>2
  <2>. QED BY <2>1, <2>2
<1>6. MessagesUpTo(fs) = CHOOSE all : all = Body(all)
  BY DEF MessagesUpTo, N
<1>7. MessagesUpTo(fs) = Body(MessagesUpTo(fs))
  <2>. HIDE DEF Body
  <2>. QED BY <1>5, <1>6
<1>8. PICK g : g = MessagesUpTo(fs)
  OBVIOUS
<1>9. g = Body(g)
  BY <1>7, <1>8
<1>10. /\ g = [n \in 0..N |-> g[n]]
       /\ g[0] = <<>>
       /\ \A n \in 1..N : g[n] = g[n - 1] \o fs[n].messages
  <2>1. \A n \in 0..N : g[n] = IF n = 0 THEN <<>> ELSE g[n - 1] \o fs[n].messages
    BY <1>9
  <2>2. g = [n \in 0..N |-> Body(g)[n]]
    BY <1>9
  <2>. HIDE DEF Body
  <2>3. g = [n \in 0..N |-> g[n]]
    BY <1>9, <2>2
  <2>. QED BY <1>1, <2>1, <2>3
<1>. DEFINE U == {m \in 0..N : g[m] \in Seq(Nat)}
<1>11. 0..N \subseteq U
  <2>1. ASSUME NEW m \in 0..(N - 1), m \in U PROVE m + 1 \in U
    <3>1. m + 1 \in 1..N /\ m + 1 \in 0..N /\ (m + 1) - 1 = m /\ fs[m + 1].messages \in Seq(Nat)
      BY <1>1
    <3>2. g[m + 1] = g[m] \o fs[m + 1].messages
      BY <1>10, <3>1
    <3>3. g[m] \in Seq(Nat)
      BY <2>1
    <3>4. g[m] \o fs[m + 1].messages \in Seq(Nat)
      BY <3>1, <3>3, ConcatProperties
    <3>. QED BY <3>1, <3>2, <3>4
  <2>2. 0 \in U
    <3>1. <<>> \in Seq(Nat) /\ g[0] = <<>>
      BY <1>10
    <3>2. 0 \in 0..N
      BY <1>1
    <3>. QED BY <3>1, <3>2
  <2>. HIDE DEF U
  <2>. QED BY <1>1, <2>1, <2>2, Induction
<1>12. g \in [0..N -> Seq(Nat)]
  BY <1>10, <1>11
<1>. QED BY <1>8, <1>10, <1>12 DEF N

\* Files with the same messages up to n have the same messages up to n.
LEMMA SameMessages ==
    ASSUME NEW fs \in Seq(Files), NEW gs \in Seq(Files), NEW n \in Nat, n <= Len(fs), n <= Len(gs),
           \A f \in 1..n : fs[f].messages = gs[f].messages
    PROVE  MessagesUpTo(fs)[n] = MessagesUpTo(gs)[n]
<1>. DEFINE a == MessagesUpTo(fs)
           b == MessagesUpTo(gs)
           T == {m \in 0..n : a[m] = b[m]}
<1>1. /\ a[0] = <<>> /\ b[0] = <<>>
      /\ \A m \in 1..n : a[m] = a[m - 1] \o fs[m].messages /\ b[m] = b[m - 1] \o gs[m].messages
  <2>1. \A m \in 1..n : m \in 1..Len(fs) /\ m \in 1..Len(gs)
    OBVIOUS
  <2>. QED BY <2>1, MessagesAddUp
<1>. HIDE DEF a, b
<1>2. ASSUME NEW m \in 0..(n - 1), m \in T PROVE m + 1 \in T
  <2>1. m + 1 \in 1..n /\ m + 1 \in 0..n /\ (m + 1) - 1 = m
    OBVIOUS
  <2>2. a[m + 1] = a[m] \o fs[m + 1].messages /\ b[m + 1] = b[m] \o gs[m + 1].messages
    BY <1>1, <2>1
  <2>. QED BY <1>2, <2>1, <2>2
<1>3. 0..n \subseteq T
  <2>1. 0 \in T
    BY <1>1
  <2>. HIDE DEF T
  <2>. QED BY <1>2, <2>1, Induction
<1>. QED BY <1>3 DEF a, b

LEMMA MessagesOfNewFile ==
    ASSUME NEW fs \in Seq(Files)
    PROVE  MessagesUpTo(Append(fs, NewFile))[Len(fs) + 1] = MessagesUpTo(fs)[Len(fs)]
<1>. DEFINE gs == Append(fs, NewFile)
           n == Len(fs)
<1>1. /\ gs \in Seq(Files) /\ Len(gs) = n + 1 /\ n \in Nat /\ gs[n + 1] = NewFile
      /\ \A f \in 1..n : gs[f] = fs[f]
      /\ NewFile.messages = <<>>
  BY NewFileType
<1>. HIDE DEF gs
<1>2. MessagesUpTo(fs)[n] = MessagesUpTo(gs)[n] /\ MessagesUpTo(fs)[n] \in Seq(Nat)
  <2>1. \A f \in 1..n : fs[f].messages = gs[f].messages
    BY <1>1
  <2>2. n <= Len(fs) /\ n <= Len(gs) /\ n \in 0..Len(fs)
    BY <1>1
  <2>3. MessagesUpTo(fs)[n] = MessagesUpTo(gs)[n]
    BY <1>1, <2>1, <2>2, SameMessages
  <2>4. MessagesUpTo(fs) \in [0..Len(fs) -> Seq(Nat)]
    BY MessagesAddUp
  <2>. QED BY <2>2, <2>3, <2>4
<1>3. n + 1 \in 1..(n + 1) /\ (n + 1) - 1 = n
  BY <1>1
<1>4. MessagesUpTo(gs)[n + 1] = MessagesUpTo(gs)[n] \o <<>>
  BY <1>1, <1>3, MessagesAddUp
<1>5. MessagesUpTo(gs)[n + 1] = MessagesUpTo(gs)[n]
  BY <1>2, <1>4, ConcatEmptySeq
<1>. QED BY <1>2, <1>5 DEF gs

LEMMA MessagesOfWritten ==
    ASSUME NEW fs \in Seq(Files), fs # <<>>, NEW data \in Seq(Nat)
    PROVE  MessagesUpTo(Written(fs, Len(fs), data))[Len(fs)] = MessagesUpTo(fs)[Len(fs)] \o data
<1>. DEFINE n == Len(fs)
           gs == Written(fs, n, data)
<1>1. n \in Nat \ {0} /\ n \in 1..Len(fs) /\ n - 1 \in Nat /\ n - 1 \in 0..n
  OBVIOUS
<1>2. /\ gs \in Seq(Files) /\ Len(gs) = n
      /\ \A f \in 1..n : f # n => gs[f] = fs[f]
      /\ gs[n].messages = fs[n].messages \o data
  BY <1>1, WrittenType
<1>. HIDE DEF gs
<1>3. MessagesUpTo(fs)[n - 1] = MessagesUpTo(gs)[n - 1] /\ MessagesUpTo(fs)[n - 1] \in Seq(Nat)
  <2>1. \A f \in 1..(n - 1) : f \in 1..n /\ f # n
    BY <1>1
  <2>2. n - 1 <= Len(fs) /\ n - 1 <= Len(gs)
    BY <1>1, <1>2
  <2>3. MessagesUpTo(fs)[n - 1] = MessagesUpTo(gs)[n - 1]
    BY <1>1, <1>2, <2>1, <2>2, SameMessages
  <2>4. MessagesUpTo(fs) \in [0..n -> Seq(Nat)]
    BY MessagesAddUp
  <2>. QED BY <1>1, <2>3, <2>4
<1>4. /\ MessagesUpTo(fs)[n] = MessagesUpTo(fs)[n - 1] \o fs[n].messages
      /\ MessagesUpTo(gs)[n] = MessagesUpTo(fs)[n - 1] \o (fs[n].messages \o data)
  <2>1. MessagesUpTo(fs)[n] = MessagesUpTo(fs)[n - 1] \o fs[n].messages
    BY <1>1, MessagesAddUp
  <2>2. MessagesUpTo(gs)[n] = MessagesUpTo(gs)[n - 1] \o gs[n].messages
    BY <1>1, <1>2, MessagesAddUp
  <2>. QED BY <1>2, <1>3, <2>1, <2>2
<1>5. fs[n].messages \in Seq(Nat)
  BY <1>1, FileShape
<1>6. MessagesUpTo(gs)[n] = MessagesUpTo(fs)[n] \o data
  <2>1. PICK r \in Seq(Nat), t \in Seq(Nat) : r = MessagesUpTo(fs)[n - 1] /\ t = fs[n].messages
    BY <1>3, <1>5
  <2>2. (r \o t) \o data = r \o (t \o data)
    OBVIOUS
  <2>. QED BY Zenon, <1>4, <2>1, <2>2
<1>. QED BY <1>6 DEF gs
-----------------------------------------------------------------------------
(* The log keeps what Outbox promises. *)

\* What waits and what is in hand are the last messages, in their order, and
\* the open file is the last one.
InOrder ==
    /\ fd # 0 => fd = Len(files)
    /\ Settled \in Nat
    /\ \A i \in 1..Len(batch) : batch[i] = Settled + i
    /\ \A i \in 1..Len(log) : log[i] = Settled + Len(batch) + i

\* What a step of the log thread does to the messages.
Unsettled == UNCHANGED <<Settled, InFiles>>
Settles ==
    \E n \in 1..(Len(pushed) - Settled) :
        /\ Settled' = Settled + n
        /\ \/ InFiles' = InFiles \o [i \in 1..n |-> Settled + i]
           \/ ~runFlag /\ InFiles' = InFiles

LEMMA SettledType ==
    ASSUME Shape
    PROVE  /\ Len(pushed) \in Nat /\ Len(log) \in Nat /\ Len(batch) \in Nat /\ Len(files) \in Nat
           /\ Settled = Len(pushed) - Len(log) - Len(batch)
BY DEF Shape, Settled

LEMMA ClosedKeepsMessages ==
    ASSUME TypeOK, Shape, files' = Closed(files)
    PROVE  InFiles' = InFiles /\ Len(files') = Len(files)
<1>. DEFINE gs == Closed(files)
<1>1. /\ gs \in Seq(Files) /\ Len(gs) = Len(files)
      /\ \A f \in 1..Len(files) : files[f].messages = gs[f].messages
  BY ClosedType
<1>2. files \in Seq(Files) /\ Len(files) \in Nat
  BY DEF Shape
<1>. HIDE DEF gs
<1>3. MessagesUpTo(files)[Len(files)] = MessagesUpTo(gs)[Len(files)]
  BY <1>1, <1>2, SameMessages
<1>4. InFiles' = MessagesUpTo(gs)[Len(gs)]
  BY DEF InFiles, gs
<1>. QED BY <1>1, <1>3, <1>4 DEF InFiles, gs

LEMMA TakeBatchOrder ==
    ASSUME LogInv, InOrder, TakeBatch
    PROVE  InOrder' /\ Unsettled
<1>. USE DEF LogInv
<1>1. con = "take" /\ UNCHANGED <<pushed, fd, files>>
  BY DEF TakeBatch, fileVars
<1>2. batch = <<>> /\ batch \in Seq(Nat) /\ log \in Seq(Nat) /\ Len(pushed) \in Nat /\ Len(log) \in Nat
  BY <1>1 DEF TypeOK, Shape
<1>3. InFiles' = InFiles
  BY <1>1 DEF InFiles
<1>4. CASE log = <<>>
  <2>1. batch' = batch /\ log' = log
    BY <1>4 DEF TakeBatch
  <2>. QED BY <1>1, <1>3, <2>1 DEF InOrder, Unsettled, Settled
<1>5. CASE log # <<>>
  <2>. DEFINE n == Smaller(Batch, Len(log))
  <2>1. Len(log) \in Nat \ {0} /\ n \in 1..Len(log)
    BY <1>2, <1>5, LocalLogAssumption DEF Smaller
  <2>2. batch' = SubSeq(log, 1, n) /\ log' = SubSeq(log, Len(batch') + 1, Len(log))
    BY <1>5 DEF TakeBatch
  <2>. HIDE DEF n
  <2>3. /\ Len(batch') = n /\ \A i \in 1..n : batch'[i] = log[i]
        /\ Len(log') = Len(log) - n /\ \A i \in 1..(Len(log) - n) : log'[i] = log[n + i]
    <3>1. Len(batch') = n /\ \A i \in 1..n : batch'[i] = log[i]
      BY <1>2, <2>1, <2>2
    <3>2. log' = SubSeq(log, n + 1, Len(log))
      BY <2>2, <3>1
    <3>3. Len(log') = Len(log) - n /\ \A i \in 1..(Len(log) - n) : log'[i] = log[n + i]
      BY <1>2, <2>1, <3>2
    <3>. QED BY <3>1, <3>3
  <2>4. Len(batch) = 0
    BY <1>2
  <2>5. Settled \in Nat /\ Settled = Len(pushed) - Len(log) /\ Settled' = Settled
    BY <1>1, <1>2, <2>1, <2>3, <2>4 DEF InOrder, Settled
  <2>6. \A i \in 1..Len(log) : log[i] = Settled + i
    BY <2>4, <2>5 DEF InOrder
  <2>7. \A i \in 1..Len(batch') : batch'[i] = Settled + i
    BY <2>1, <2>3, <2>6
  <2>8. \A i \in 1..Len(log') : log'[i] = Settled + Len(batch') + i
    <3>. TAKE i \in 1..Len(log')
    <3>1. n + i \in 1..Len(log) /\ i \in 1..(Len(log) - n)
      BY <2>1, <2>3
    <3>. QED BY <2>1, <2>3, <2>5, <2>6, <3>1
  <2>. QED BY <1>1, <1>3, <2>5, <2>7, <2>8 DEF InOrder, Unsettled
<1>. QED BY <1>4, <1>5

LEMMA HourCloseOrder ==
    ASSUME LogInv, InOrder, HourClose
    PROVE  InOrder' /\ Unsettled
<1>1. /\ UNCHANGED <<pushed, log, batch>>
      /\ UNCHANGED <<files, fd>> \/ (files' = Closed(files) /\ fd' = 0)
  BY DEF HourClose
<1>2. Settled' = Settled
  BY <1>1 DEF Settled
<1>3. InFiles' = InFiles /\ (fd' = 0 \/ (fd' = fd /\ files' = files))
  BY <1>1, ClosedKeepsMessages DEF LogInv, InFiles
<1>. QED BY <1>1, <1>2, <1>3 DEF InOrder, Unsettled

LEMMA OpenOrder ==
    ASSUME LogInv, InOrder, Open
    PROVE  InOrder' /\ Unsettled
<1>1. /\ UNCHANGED <<pushed, log, batch>>
      /\ UNCHANGED <<files, fd>> \/ (files' = Append(files, NewFile) /\ fd' = Len(files) + 1)
  BY DEF Open, fileVars
<1>2. Settled' = Settled
  BY <1>1 DEF Settled
<1>3. CASE UNCHANGED <<files, fd>>
  BY <1>1, <1>2, <1>3 DEF InOrder, Unsettled, InFiles
<1>4. CASE files' = Append(files, NewFile) /\ fd' = Len(files) + 1
  <2>1. files \in Seq(Files) /\ Len(files') = Len(files) + 1
    BY <1>4, NewFileType DEF LogInv, Shape
  <2>2. InFiles' = InFiles
    BY <1>4, <2>1, MessagesOfNewFile DEF InFiles
  <2>. QED BY <1>1, <1>2, <1>4, <2>1, <2>2 DEF InOrder, Unsettled
<1>. QED BY <1>1, <1>3, <1>4

\* The batch as the next messages.
LEMMA BatchIsNext ==
    ASSUME LogInv, InOrder
    PROVE  batch \in Seq(Nat) /\ batch = [i \in 1..Len(batch) |-> Settled + i]
<1>1. batch \in Seq(Nat)
  BY DEF LogInv, Shape
<1>2. batch = [i \in 1..Len(batch) |-> batch[i]]
  BY <1>1
<1>. QED BY <1>1, <1>2 DEF InOrder

LEMMA WriteOrder ==
    ASSUME LogInv, InOrder, Write
    PROVE  InOrder' /\ Settles
<1>. USE DEF LogInv
<1>1. con = "write" /\ batch' = <<>> /\ UNCHANGED <<pushed, log, runFlag>>
  BY DEF Write
<1>2. /\ Len(pushed) \in Nat /\ Len(log) \in Nat /\ Len(batch) \in Nat \ {0} /\ Len(files) \in Nat
      /\ fd \in 1..Len(files) /\ files \in Seq(Files) /\ fd = Len(files) /\ Len(batch') = 0
  <2>1. Len(batch) \in Nat \ {0}
    BY <1>1 DEF TypeOK, Shape
  <2>2. /\ Len(pushed) \in Nat /\ Len(log) \in Nat /\ Len(files) \in Nat /\ files \in Seq(Files)
    BY DEF Shape
  <2>3. fd # 0 /\ fd \in 0..Len(files) /\ fd = Len(files)
    BY <1>1 DEF TypeOK, InOrder
  <2>. QED BY <1>1, <2>1, <2>2, <2>3
<1>3. Settled \in Nat /\ Settled' = Settled + Len(batch) /\ Len(batch) \in 1..(Len(pushed) - Settled)
  BY <1>1, <1>2 DEF InOrder, Settled
<1>4. /\ \A i \in 1..Len(batch') : batch'[i] = Settled' + i
      /\ \A i \in 1..Len(log') : log'[i] = Settled' + Len(batch') + i
  <2>1. \A i \in 1..Len(log) : log[i] = (Settled + Len(batch)) + i
    BY DEF InOrder
  <2>. QED BY <1>1, <1>2, <1>3, <2>1
<1>8. ASSUME fd' = Len(files') PROVE InOrder'
  <2>1. Settled' \in Nat
    BY <1>2, <1>3
  <2>. QED BY <1>4, <1>8, <2>1 DEF InOrder
<1>9. ASSUME \/ InFiles' = InFiles \o [i \in 1..Len(batch) |-> Settled + i]
             \/ ~runFlag /\ InFiles' = InFiles
      PROVE  Settles
  BY <1>3, <1>9 DEF Settles
<1>5. CASE Full
  <2>. DEFINE fs == Append(Closed(files), NewFile)
              f == Len(files) + 1
  <2>1. fd' = f /\ files' = Written(fs, f, batch)
    BY <1>5 DEF Write
  <2>2. /\ Closed(files) \in Seq(Files) /\ Len(Closed(files)) = Len(files)
        /\ \A g \in 1..Len(files) : Closed(files)[g].messages = files[g].messages
    BY ClosedType
  <2>3. fs \in Seq(Files) /\ Len(fs) = f /\ fs # <<>>
    <3>1. fs \in Seq(Files) /\ Len(fs) = Len(Closed(files)) + 1
      BY <2>2, NewFileType
    <3>. QED BY <1>2, <2>2, <3>1
  <2>4. MessagesUpTo(fs)[f] = InFiles
    <3>1. MessagesUpTo(fs)[f] = MessagesUpTo(Closed(files))[Len(files)]
      BY <2>2, MessagesOfNewFile
    <3>2. MessagesUpTo(Closed(files))[Len(files)] = MessagesUpTo(files)[Len(files)]
      BY <1>2, <2>2, SameMessages
    <3>. QED BY <3>1, <3>2 DEF InFiles
  <2>. HIDE DEF fs
  <2>5. Len(files') = f /\ MessagesUpTo(files')[f] = MessagesUpTo(fs)[f] \o batch
    <3>1. f \in 1..Len(fs)
      BY <1>2, <2>3
    <3>. QED BY <2>1, <2>3, <3>1, BatchIsNext, WrittenType, MessagesOfWritten
  <2>6. InFiles' = InFiles \o [i \in 1..Len(batch) |-> Settled + i]
    BY <2>4, <2>5, BatchIsNext DEF InFiles
  <2>. QED BY <1>8, <1>9, <2>1, <2>5, <2>6
<1>6. CASE ~Full /\ ~Dangling
  <2>1. fd' = fd /\ files' = Written(files, fd, batch)
    BY <1>6 DEF Write
  <2>2. Len(files') = Len(files) /\ MessagesUpTo(files')[Len(files)] = MessagesUpTo(files)[Len(files)] \o batch
    <3>1. files # <<>>
      BY <1>2
    <3>. QED BY <1>2, <2>1, <3>1, BatchIsNext, WrittenType, MessagesOfWritten
  <2>3. InFiles' = InFiles \o [i \in 1..Len(batch) |-> Settled + i]
    BY <2>2, BatchIsNext DEF InFiles
  <2>. QED BY <1>2, <1>8, <1>9, <2>1, <2>2, <2>3
<1>7. CASE ~Full /\ Dangling
  <2>1. fd' = fd /\ files' = files
    BY <1>7 DEF Write
  <2>2. ~runFlag
    BY <1>7 DEF Dangling, TypeOK, Shape
  <2>3. InFiles' = InFiles
    BY <2>1 DEF InFiles
  <2>. QED BY <1>2, <1>8, <1>9, <2>1, <2>2, <2>3
<1>. QED BY <1>5, <1>6, <1>7

LEMMA DrainOrder ==
    ASSUME LogInv, InOrder, Drain
    PROVE  InOrder' /\ (Unsettled \/ Settles)
<1>. USE DEF LogInv
<1>. DEFINE n == (Len(log) + 1) \div 2
            part == SubSeq(log, 1, n)
<1>1. /\ con = "loop" /\ ~runFlag /\ log' = SubSeq(log, n + 1, Len(log))
      /\ files' = (IF n > 0 /\ fd # 0 /\ ~Dangling THEN Written(files, fd, part) ELSE files)
      /\ UNCHANGED <<pushed, batch, fd>>
  BY DEF Drain
<1>2. /\ log \in Seq(Nat) /\ Len(log) \in Nat /\ n \in 0..Len(log) /\ Len(pushed) \in Nat
      /\ batch = <<>> /\ Len(batch) = 0 /\ files \in Seq(Files) /\ Len(files) \in Nat
  <2>1. log \in Seq(Nat) /\ pushed \in Seq(Messages) /\ files \in Seq(Files)
    BY DEF Shape
  <2>2. batch = <<>>
    BY <1>1 DEF TypeOK
  <2>. QED BY <2>1, <2>2
<1>. HIDE DEF n
<1>3. Settled \in Nat /\ Settled = Len(pushed) - Len(log) /\ \A i \in 1..Len(log) : log[i] = Settled + i
  BY <1>2 DEF InOrder, Settled
<1>4. Len(log') = Len(log) - n /\ \A i \in 1..(Len(log) - n) : log'[i] = log[n + i]
  BY <1>1, <1>2
<1>5. part \in Seq(Nat) /\ part = [i \in 1..n |-> Settled + i]
  <2>1. part \in Seq(Nat) /\ Len(part) = n /\ \A i \in 1..n : part[i] = log[i]
    BY <1>2
  <2>2. part = [i \in 1..n |-> part[i]]
    BY <2>1
  <2>. HIDE DEF part
  <2>3. \A i \in 1..n : part[i] = Settled + i
    <3>1. \A i \in 1..n : i \in 1..Len(log)
      BY <1>2
    <3>. QED BY <1>3, <2>1, <3>1
  <2>. QED BY <2>1, <2>2, <2>3
<1>. HIDE DEF part
<1>6. Settled' = Settled + n
  <2>1. Settled' = Len(pushed) - (Len(log) - n) - 0
    BY <1>1, <1>2, <1>4 DEF Settled
  <2>. QED BY <1>2, <1>3, <2>1
<1>7. \A i \in 1..Len(log') : log'[i] = Settled' + Len(batch') + i
  <2>. TAKE i \in 1..Len(log')
  <2>1. n + i \in 1..Len(log) /\ i \in 1..(Len(log) - n)
    BY <1>2, <1>4
  <2>2. log'[i] = log[n + i] /\ log[n + i] = Settled + (n + i)
    BY <1>3, <1>4, <2>1
  <2>3. Len(batch') = 0
    BY <1>1, <1>2
  <2>. QED BY <1>2, <1>3, <1>6, <2>1, <2>2, <2>3
<1>8. CASE n > 0 /\ fd # 0 /\ ~Dangling
  <2>1. fd = Len(files) /\ fd \in 1..Len(files) /\ files # <<>>
    BY <1>2, <1>8 DEF InOrder, TypeOK
  <2>2. files' = Written(files, fd, part)
    BY <1>1, <1>8
  <2>3. Len(files') = Len(files) /\ MessagesUpTo(files')[Len(files)] = MessagesUpTo(files)[Len(files)] \o part
    <3>1. Len(files') = Len(files)
      <4>1. Len(Written(files, fd, part)) = Len(files)
        <5>1. fd \in 1..Len(files) /\ files \in Seq(Files) /\ part \in Seq(Nat)
          BY <1>2, <1>5, <2>1
        <5>. QED BY <5>1, WrittenType
      <4>. QED BY <2>2, <4>1
    <3>2. MessagesUpTo(files')[Len(files)] = MessagesUpTo(files)[Len(files)] \o part
      BY <1>2, <1>5, <2>1, <2>2, MessagesOfWritten
    <3>. QED BY <3>1, <3>2
  <2>4. InFiles' = InFiles \o [i \in 1..n |-> Settled + i]
    BY <1>5, <2>3 DEF InFiles
  <2>5. n \in 1..(Len(pushed) - Settled)
    BY <1>2, <1>3, <1>8
  <2>6. Settles
    BY <1>6, <2>4, <2>5 DEF Settles
  <2>7. InOrder'
    BY <1>1, <1>2, <1>3, <1>6, <1>7, <2>1, <2>3 DEF InOrder
  <2>. QED BY <2>6, <2>7
<1>9. CASE ~(n > 0 /\ fd # 0 /\ ~Dangling)
  <2>1. files' = files /\ InFiles' = InFiles
    BY <1>1, <1>9 DEF InFiles
  <2>2. InOrder'
    BY <1>1, <1>2, <1>3, <1>6, <1>7, <2>1 DEF InOrder
  <2>3. CASE n = 0
    BY <1>3, <1>6, <2>1, <2>2, <2>3 DEF Unsettled
  <2>4. CASE n # 0
    <3>1. n \in 1..(Len(pushed) - Settled)
      BY <1>2, <1>3, <2>4
    <3>. QED BY <1>1, <1>6, <2>1, <2>2, <3>1 DEF Settles
  <2>. QED BY <2>3, <2>4
<1>. QED BY <1>8, <1>9

\* What the other steps leave alone.
LEMMA QuietOrder ==
    ASSUME LogInv, InOrder, UNCHANGED <<pushed, log, batch, fd>>,
           UNCHANGED files \/ files' = Closed(files)
    PROVE  InOrder' /\ Unsettled
<1>1. Settled' = Settled
  BY DEF Settled
<1>2. InFiles' = InFiles /\ Len(files') = Len(files)
  BY ClosedKeepsMessages DEF LogInv, InFiles
<1>. QED BY <1>1, <1>2 DEF InOrder, Unsettled

\* A message is added behind those that wait.
LEMMA PushOrder ==
    ASSUME LogInv, InOrder, NEW m \in Messages, Push(m), UNCHANGED <<batch, fd, files>>
    PROVE  InOrder' /\ Unsettled /\ Len(pushed') = Len(pushed) + 1
<1>. USE DEF LogInv
<1>1. /\ pushed \in Seq(Messages) /\ log \in Seq(Nat)
      /\ Len(pushed) \in Nat /\ Len(log) \in Nat /\ Len(batch) \in Nat
      /\ Settled = Len(pushed) - Len(log) - Len(batch)
  BY SettledType DEF Shape
<1>2. Len(pushed') = Len(pushed) + 1 /\ Len(log') = Len(log) + 1 /\ Len(batch') = Len(batch)
  BY <1>1 DEF Push
<1>3. Settled' = Settled
  BY <1>1, <1>2 DEF Settled
<1>4. InFiles' = InFiles
  BY DEF InFiles
<1>5. \A i \in 1..Len(log') : log'[i] = Settled + Len(batch) + i
  <2>. TAKE i \in 1..Len(log')
  <2>1. CASE i = Len(log) + 1
    <3>1. log'[i] = Len(pushed) + 1
      BY <1>1, <2>1 DEF Push
    <3>. QED BY <1>1, <2>1, <3>1
  <2>2. CASE i # Len(log) + 1
    <3>1. i \in 1..Len(log)
      BY <1>1, <1>2, <2>2
    <3>2. log'[i] = log[i]
      BY <1>1, <3>1 DEF Push
    <3>. QED BY <3>1, <3>2 DEF InOrder
  <2>. QED BY <2>1, <2>2
<1>6. InOrder'
  BY <1>2, <1>3, <1>5 DEF InOrder
<1>. QED BY <1>2, <1>3, <1>4, <1>6 DEF Unsettled

LEMMA WorkerOrder ==
    ASSUME LogInv, InOrder, NEW w \in Workers, Worker(w)
    PROVE  InOrder' /\ Unsettled /\ (Len(pushed') = Len(pushed) \/ Len(pushed') = Len(pushed) + 1)
<1>1. NoLines(w) \in Messages /\ block[w] \in Messages
  BY DEF LogInv, Shape, NoLines, Messages
<1>2. UNCHANGED <<batch, fd, files>>
  BY WorkerLog DEF fileVars
<1>3. CASE WriteLog(w)
  BY <1>1, <1>2, <1>3, PushOrder DEF WriteLog
<1>4. CASE FlushPush(w)
  BY <1>1, <1>2, <1>4, PushOrder DEF FlushPush
<1>5. CASE WriteOnce(w) \/ FlushTake(w)
  <2>1. UNCHANGED <<pushed, log>>
    BY <1>5 DEF WriteOnce, FlushTake
  <2>. QED BY <1>2, <2>1, QuietOrder
<1>. QED BY <1>3, <1>4, <1>5 DEF Worker

\* Every step is one of the outbox, or none.
LEMMA StepKeepsPromise ==
    ASSUME LogInv, InOrder, [Next]_vars
    PROVE  /\ InOrder'
           /\ \/ Promise!Next
              \/ UNCHANGED <<~runFlag, [t \in {"log"} |-> Len(pushed)],
                             [t \in {"log"} |-> Settled], [t \in {"log"} |-> InFiles]>>
<1>. DEFINE Same == UNCHANGED <<~runFlag, [t \in {"log"} |-> Len(pushed)],
                                [t \in {"log"} |-> Settled], [t \in {"log"} |-> InFiles]>>
<1>1. ASSUME Unsettled, UNCHANGED <<runFlag, pushed>> PROVE Same
  BY <1>1 DEF Unsettled
<1>2. ASSUME Settles, UNCHANGED <<runFlag, pushed>> PROVE Promise!Next
  <2>1. PICK n \in 1..(Len(pushed) - Settled) :
          /\ Settled' = Settled + n
          /\ \/ InFiles' = InFiles \o [i \in 1..n |-> Settled + i]
             \/ ~runFlag /\ InFiles' = InFiles
    BY <1>2 DEF Settles
  <2>2. Promise!Settle("log")
    BY <1>2, <2>1 DEF Promise!Settle
  <2>. QED BY <2>2 DEF Promise!Next
<1>3. CASE run
  <2>1. UNCHANGED <<runFlag, pushed>>
    BY <1>3 DEF run, HourClose, TakeBatch, Open, Write, Drain
  <2>2. InOrder' /\ (Unsettled \/ Settles)
    BY <1>3, HourCloseOrder, TakeBatchOrder, OpenOrder, WriteOrder, DrainOrder DEF run
  <2>. QED BY <1>1, <1>2, <2>1, <2>2
<1>4. CASE Crash \/ Tick \/ UNCHANGED vars
  <2>1. UNCHANGED <<runFlag, pushed, log, batch, fd, files>>
    BY <1>4 DEF Crash, Tick, vars, fileVars
  <2>. QED BY <1>1, <2>1, QuietOrder
<1>5. CASE Uninit
  <2>1. UNCHANGED <<runFlag, pushed, log, batch, fd>> /\ files' = Closed(files)
    BY <1>5 DEF Uninit
  <2>. QED BY <1>1, <2>1, QuietOrder
<1>6. CASE StopBid
  <2>1. UNCHANGED <<pushed, log, batch, fd, files>> /\ runFlag = TRUE /\ runFlag' = FALSE
    BY <1>6 DEF StopBid, fileVars, LogInv, TypeOK
  <2>2. InOrder' /\ Unsettled
    BY <2>1, QuietOrder
  <2>3. Promise!Stop
    BY <2>1, <2>2 DEF Promise!Stop, Unsettled
  <2>. QED BY <2>2, <2>3 DEF Promise!Next
<1>7. ASSUME NEW w \in Workers, Worker(w) PROVE InOrder' /\ (Promise!Next \/ Same)
  <2>1. /\ InOrder' /\ Unsettled /\ runFlag' = runFlag
        /\ Len(pushed') = Len(pushed) \/ Len(pushed') = Len(pushed) + 1
    BY <1>7, WorkerOrder, WorkerLog
  <2>2. CASE Len(pushed') = Len(pushed)
    BY <2>1, <2>2 DEF Unsettled
  <2>3. CASE Len(pushed') = Len(pushed) + 1
    <3>1. Promise!Add("log")
      BY <2>1, <2>3 DEF Unsettled, Promise!Add
    <3>. QED BY <2>1, <3>1 DEF Promise!Next
  <2>. QED BY <2>1, <2>2, <2>3
<1>. QED BY <1>3, <1>4, <1>5, <1>6, <1>7 DEF Next

LEMMA InitOrder == Init => InOrder /\ Promise!Init
<1>. SUFFICES ASSUME Init PROVE InOrder /\ Promise!Init
  OBVIOUS
<1>1. Len(pushed) = 0 /\ Len(log) = 0 /\ Len(batch) = 0 /\ files = <<>> /\ fd = 0 /\ runFlag = TRUE
  BY DEF Init
<1>2. Settled = 0
  BY <1>1 DEF Settled
<1>3. InFiles = <<>>
  <2>1. files \in Seq(Files) /\ Len(files) = 0
    BY <1>1
  <2>. QED BY <2>1, MessagesAddUp DEF InFiles
<1>. QED BY <1>1, <1>2, <1>3 DEF InOrder, Promise!Init

\* The log files get every message in the order it was pushed, none twice, and
\* none is given up before the stop: the log thread keeps what Outbox promises.
THEOREM LogKeepsPromise == Spec => ImplementsOutbox
<1>1. Init => InOrder /\ Promise!Init
  BY InitOrder
<1>2. LogInv /\ InOrder /\ [Next]_vars => InOrder' /\ [Promise!Next]_(Promise!vars)
  BY StepKeepsPromise DEF Promise!vars
<1>. QED BY <1>1, <1>2, Invariance, PTL DEF Spec, ImplementsOutbox, Promise!Spec
------------------------------------------------------------------------------
(* Why a message reaches a file. *)

\* The steps of the log thread until message n is settled, at most.
StepsTo(n) ==
    4 * (n - Settled) + (CASE con = "loop" -> 3 [] con = "take" -> 2 [] con = "open" -> 1 [] OTHER -> 0)

\* Every step of the log thread, a rotation included, brings each message that
\* waits nearer to its file, and nothing else that happens takes it back.
MessagesGetOn ==
    con' \notin {"done", "crashed"} =>
        \A n \in (Settled + 1)..Len(pushed) :
            IF run THEN StepsTo(n)' < StepsTo(n) ELSE StepsTo(n)' = StepsTo(n)

\* The log thread gets on: whatever waits comes nearer with each of its steps,
\* and each of its places but the end lets it step.
THEOREM MessagesComeNearer == Spec => [][MessagesGetOn]_vars
<1>1. LogInv /\ InOrder /\ [Next]_vars => [MessagesGetOn]_vars
  <2>. SUFFICES ASSUME LogInv, InOrder, Next, con' \notin {"done", "crashed"}, NEW n \in (Settled + 1)..Len(pushed)
                PROVE  IF run THEN StepsTo(n)' < StepsTo(n) ELSE StepsTo(n)' = StepsTo(n)
    BY DEF MessagesGetOn
  <2>1. /\ Settled \in Nat /\ n \in Nat /\ n > Settled
        /\ Settled = Len(pushed) - Len(log) - Len(batch)
        /\ Len(log) \in Nat /\ Len(batch) \in Nat /\ Len(pushed) \in Nat
    BY SettledType DEF LogInv, InOrder
  <2>2. CASE HourClose
    <3>1. Settled' = Settled /\ con = "loop" /\ con' = "take"
      BY <2>2, HourCloseOrder DEF Unsettled, HourClose
    <3>. QED BY <2>1, <2>2, <3>1 DEF StepsTo, run
  <2>3. CASE TakeBatch
    <3>1. Settled' = Settled /\ con = "take"
      BY <2>3, TakeBatchOrder DEF Unsettled, TakeBatch
    <3>2. batch = <<>>
      BY <3>1 DEF LogInv, TypeOK
    <3>3. log # <<>>
      BY <2>1, <3>2
    <3>4. con' = "open"
      BY <2>3, <3>3 DEF TakeBatch
    <3>. QED BY <2>1, <2>3, <3>1, <3>4 DEF StepsTo, run
  <2>4. CASE Open
    <3>1. Settled' = Settled /\ con = "open" /\ con' = "write"
      BY <2>4, OpenOrder DEF Unsettled, Open
    <3>. QED BY <2>1, <2>4, <3>1 DEF StepsTo, run
  <2>5. CASE Write
    <3>1. con = "write" /\ con' = "loop" /\ batch' = <<>> /\ UNCHANGED <<pushed, log>>
      BY <2>5 DEF Write
    <3>2. batch # <<>> /\ batch \in Seq(Nat)
      BY <3>1 DEF LogInv, TypeOK, Shape
    <3>3. Len(batch) >= 1 /\ Len(batch') = 0
      BY <3>1, <3>2
    <3>4. Settled' \in Int /\ Settled' >= Settled + 1
      BY <2>1, <3>1, <3>3 DEF Settled
    <3>. QED BY <2>1, <2>5, <3>1, <3>4 DEF StepsTo, run
  <2>6. CASE ~run
    <3>1. Settled' = Settled /\ con' = con
      <4>1. CASE Crash \/ Uninit \/ Tick \/ StopBid
        BY <4>1 DEF Crash, Uninit, Tick, StopBid, Settled
      <4>2. ASSUME NEW w \in Workers, Worker(w) PROVE Settled' = Settled /\ con' = con
        BY <4>2, WorkerOrder DEF Unsettled, Worker, WriteLog, WriteOnce, FlushTake, FlushPush
      <4>. QED BY <2>6, <4>1, <4>2 DEF Next
    <3>. QED BY <2>6, <3>1 DEF StepsTo
  <2>. QED BY <2>2, <2>3, <2>4, <2>5, <2>6 DEF run, Drain
<1>2. LogInv /\ InOrder /\ [Next]_vars => InOrder'
  BY StepKeepsPromise
<1>. QED BY <1>1, <1>2, InitOrder, Invariance, PTL DEF Spec
==============================================================================
