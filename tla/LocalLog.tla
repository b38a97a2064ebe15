------------------------------ MODULE LocalLog ------------------------------
(***************************************************************************)
(* The log files (common/local_log.cpp).  Threads write single messages    *)
(* with WriteLog, or gather the lines of a request with WriteOnce and hand *)
(* them over as one block with FlushOnce; one log thread moves what was    *)
(* queued, at most Batch messages at a time, into files that it replaces   *)
(* every hour and before they reach MaxSize.                               *)
(*                                                                         *)
(* A message is a serial number; pushed remembers what it consists of.     *)
(* The size of a message is 1.  A file may fail to open: then the process  *)
(* crashes.  Uninit waits for the log thread for 100 ms and then closes    *)
(* the file all the same, under the thread if that is still busy.          *)
(***************************************************************************)
EXTENDS Naturals, Sequences, FiniteSetsExt

CONSTANTS Workers,      \* the threads that log
          Batch,        \* how many messages the log thread takes at a time: 16
          MaxSize,      \* _maxsize
          HdfsLog,      \* _hdfslog: a file gets its final name when it is closed
          MaxMessages,  \* bound: how many messages are pushed
          MaxLines,     \* bound: how many lines a worker gathers in all
          MaxHours      \* bound: how often the hour changes

ASSUME LocalLogAssumption ==
    /\ Batch \in Nat \ {0} /\ MaxSize \in Nat \ {0}
    /\ HdfsLog \in BOOLEAN
    /\ MaxMessages \in Nat /\ MaxLines \in Nat /\ MaxHours \in Nat

VARIABLES
    runFlag,   \* *_run_flag
    hour,      \* the hour by the clock
    lines,     \* lines[w]: how many lines w has written with WriteOnce
    once,      \* once[w]: the first of them that is still in _log_once[w]
    block,     \* block[w]: the lines that FlushOnce took and is about to push
    pushed,    \* every message pushed so far
    log,       \* _log: the serial numbers of the messages that wait
    con,       \* where the log thread is; "crashed": the process is gone
    preHour,   \* _pre_tm_hour (with _pre_tm_day)
    batch,     \* logdata: the messages it is about to write
    size,      \* count: what it believes the open file holds
    fd,        \* _fd: the open file, 0 for NULL
    files,     \* every file: its messages, how often it was written, its name
    shut,      \* whether Uninit was there
    gone       \* the file that Uninit closed: _fd still points to it

workerVars == <<lines, once, block>>
fileVars == <<size, fd, files>>
mainVars == <<shut, gone>>
vars == <<runFlag, hour, workerVars, pushed, log, con, preHour, batch, fileVars, mainVars>>

\* No lines of w; also what WriteLog pushes, which is not part of a block.
NoLines(w) == [by |-> w, from |-> 0, to |-> 0]

\* The clock stands at hour 1 and _pre_tm_hour at 0: the first round opens.
Init ==
    /\ runFlag = TRUE
    /\ hour = 1 /\ preHour = 0
    /\ lines = [w \in Workers |-> 0]
    /\ once = [w \in Workers |-> 1]
    /\ block = [w \in Workers |-> NoLines(w)]
    /\ pushed = <<>> /\ log = <<>>
    /\ con = "loop"
    /\ batch = <<>>
    /\ size = 0 /\ fd = 0 /\ files = <<>>
    /\ shut = FALSE /\ gone = 0

NewFile == [messages |-> <<>>, writes |-> 0, final |-> ~HdfsLog]

\* fclose, and for _hdfslog the rename to the final name.
Closed(fs) == IF fd = 0 THEN fs ELSE [fs EXCEPT ![fd].final = TRUE]

Written(fs, f, data) ==
    [fs EXCEPT ![f] = [messages |-> @.messages \o data, writes |-> @.writes + 1, final |-> @.final]]

Push(message) ==
    /\ Len(pushed) < MaxMessages
    /\ pushed' = Append(pushed, message)
    /\ log' = Append(log, Len(pushed) + 1)

Smaller(a, b) == IF a < b THEN a ELSE b

\* _fd points to a file that Uninit has closed.
Dangling == fd # 0 /\ fd = gone

\* The batch would make the open file too big.
Full == size + Len(batch) >= MaxSize
------------------------------------------------------------------------------
(* Seeded faults: wrong variants of the actions below, each of which must   *)
(* break a property.                                                        *)

\* FlushOnce takes the lines but leaves them in _log_once.
FlushTakeKeeps(w) ==
    /\ block[w].to = 0 /\ once[w] <= lines[w]
    /\ block' = [block EXCEPT ![w] = [by |-> w, from |-> once[w], to |-> lines[w]]]
    /\ UNCHANGED <<runFlag, hour, lines, once, pushed, log, con, preHour, batch, fileVars, mainVars>>

\* The change of the hour closes the file and goes on writing to it.
HourCloseKeepsFd ==
    /\ con = "loop" /\ runFlag
    /\ con' = "take"
    /\ IF hour # preHour THEN files' = Closed(files) ELSE UNCHANGED files
    /\ preHour' = hour
    /\ UNCHANGED <<runFlag, hour, workerVars, pushed, log, batch, size, fd, mainVars>>

\* The size of the open file is not added up.
WriteNotCounted ==
    /\ con = "write"
    /\ con' = "loop"
    /\ LET full == Len(batch) >= MaxSize
           f    == IF full THEN Len(files) + 1 ELSE fd
           fs   == IF full THEN Append(Closed(files), NewFile) ELSE files
       IN fd' = f /\ files' = Written(fs, f, batch)
    /\ size' = Len(batch)
    /\ batch' = <<>>
    /\ UNCHANGED <<runFlag, hour, workerVars, pushed, log, preHour, mainVars>>

\* One message too many is removed from the queue.
TakeOneMore ==
    /\ con = "take"
    /\ IF log = <<>>
       THEN con' = "loop" /\ UNCHANGED <<batch, log>>
       ELSE /\ batch' = SubSeq(log, 1, Smaller(Batch, Len(log)))
            /\ log' = SubSeq(log, Len(batch') + 2, Len(log))
            /\ con' = "open"
    /\ UNCHANGED <<runFlag, hour, workerVars, pushed, preHour, fileVars, mainVars>>

\* The log thread waits until a whole batch is there.
TakeFullBatch ==
    /\ con = "take"
    /\ IF Len(log) < Batch
       THEN con' = "loop" /\ UNCHANGED <<batch, log>>
       ELSE /\ batch' = SubSeq(log, 1, Batch)
            /\ log' = SubSeq(log, Batch + 1, Len(log))
            /\ con' = "open"
    /\ UNCHANGED <<runFlag, hour, workerVars, pushed, preHour, fileVars, mainVars>>
------------------------------------------------------------------------------
(* The threads that log *)

WriteLog(w) ==
    /\ Push(NoLines(w))
    /\ UNCHANGED <<runFlag, hour, workerVars, con, preHour, batch, fileVars, mainVars>>

WriteOnce(w) ==
    /\ block[w].to = 0
    /\ lines[w] < MaxLines
    /\ lines' = [lines EXCEPT ![w] = @ + 1]
    /\ UNCHANGED <<runFlag, hour, once, block, pushed, log, con, preHour, batch, fileVars, mainVars>>

\* FlushOnce takes the lines out of _log_once under the lock ...
FlushTake(w) ==
    /\ block[w].to = 0 /\ once[w] <= lines[w]
    /\ block' = [block EXCEPT ![w] = [by |-> w, from |-> once[w], to |-> lines[w]]]
    /\ once' = [once EXCEPT ![w] = lines[w] + 1]
    /\ UNCHANGED <<runFlag, hour, lines, pushed, log, con, preHour, batch, fileVars, mainVars>>

\* ... and pushes them, under the lock again, as one message.
FlushPush(w) ==
    /\ block[w].to # 0
    /\ Push(block[w])
    /\ block' = [block EXCEPT ![w] = NoLines(w)]
    /\ UNCHANGED <<runFlag, hour, lines, once, con, preHour, batch, fileVars, mainVars>>
------------------------------------------------------------------------------
(* The log thread: LocalLog::run *)

\* The head of the loop: a new hour closes the file.
HourClose ==
    /\ con = "loop" /\ runFlag
    /\ con' = "take"
    /\ preHour' = hour
    /\ IF hour # preHour THEN files' = Closed(files) /\ fd' = 0
                         ELSE UNCHANGED <<files, fd>>
    /\ UNCHANGED <<runFlag, hour, workerVars, pushed, log, batch, size, mainVars>>

TakeBatch ==
    /\ con = "take"
    /\ IF log = <<>>
       THEN con' = "loop" /\ UNCHANGED <<batch, log>>
       ELSE /\ batch' = SubSeq(log, 1, Smaller(Batch, Len(log)))
            /\ log' = SubSeq(log, Len(batch') + 1, Len(log))
            /\ con' = "open"
    /\ UNCHANGED <<runFlag, hour, workerVars, pushed, preHour, fileVars, mainVars>>

Open ==
    /\ con = "open"
    /\ con' = "write"
    /\ IF fd = 0 THEN fd' = Len(files) + 1 /\ files' = Append(files, NewFile) /\ size' = 0
                 ELSE UNCHANGED fileVars
    /\ UNCHANGED <<runFlag, hour, workerVars, pushed, log, preHour, batch, mainVars>>

\* The batch goes to the open file, or to a new one if it would get too big.
Write ==
    /\ con = "write"
    /\ con' = "loop"
    /\ LET f  == IF Full THEN Len(files) + 1 ELSE fd
           fs == IF Full THEN Append(Closed(files), NewFile) ELSE files
       IN /\ fd' = f
          /\ files' = IF Dangling /\ ~Full THEN files ELSE Written(fs, f, batch)
          /\ size' = IF Full THEN Len(batch) ELSE size + Len(batch)
    /\ batch' = <<>>
    /\ UNCHANGED <<runFlag, hour, workerVars, pushed, log, preHour, mainVars>>

\* The last drain, under the lock: the loop compares a rising index with the
\* falling size of the queue, so it takes the first half; without an open
\* file what it takes goes nowhere.
Drain ==
    /\ con = "loop" /\ ~runFlag
    /\ con' = "done"
    /\ LET n == (Len(log) + 1) \div 2
       IN /\ log' = SubSeq(log, n + 1, Len(log))
          /\ files' = IF n > 0 /\ fd # 0 /\ ~Dangling THEN Written(files, fd, SubSeq(log, 1, n))
                      ELSE files
    /\ UNCHANGED <<runFlag, hour, workerVars, pushed, preHour, batch, size, fd, mainVars>>

\* fopen fails, for the first file of an hour or for the one after a full one,
\* and the write goes to NULL; or a write or a second fclose goes to a file
\* that is closed, which may as well do nothing.
Crash ==
    /\ \/ con = "open" /\ fd = 0
       \/ con = "write" /\ (Full \/ Dangling)
       \/ con = "loop" /\ ~runFlag /\ log # <<>> /\ Dangling
    /\ con' = "crashed"
    /\ UNCHANGED <<runFlag, hour, workerVars, pushed, log, preHour, batch, fileVars, mainVars>>

run == HourClose \/ TakeBatch \/ Open \/ Write \/ Drain

\* The workers have ended.  After 100 ms the main thread closes the file,
\* wherever the log thread is; only then it joins it without a limit.
Uninit ==
    /\ ~runFlag /\ ~shut /\ con # "crashed"
    /\ shut' = TRUE
    /\ gone' = fd
    /\ files' = Closed(files)
    /\ UNCHANGED <<runFlag, hour, workerVars, pushed, log, con, preHour, batch, size, fd>>
------------------------------------------------------------------------------
Tick ==
    /\ hour < MaxHours
    /\ hour' = hour + 1
    /\ UNCHANGED <<runFlag, workerVars, pushed, log, con, preHour, batch, fileVars, mainVars>>

StopBid ==
    /\ runFlag
    /\ runFlag' = FALSE
    /\ UNCHANGED <<hour, workerVars, pushed, log, con, preHour, batch, fileVars, mainVars>>

Worker(w) == ~shut /\ con # "crashed" /\ (WriteLog(w) \/ WriteOnce(w) \/ FlushTake(w) \/ FlushPush(w))

Next == run \/ Crash \/ Uninit \/ Tick \/ StopBid \/ \E w \in Workers : Worker(w)

Spec == Init /\ [][Next]_vars

FairSpec == Spec /\ WF_vars(run)
------------------------------------------------------------------------------
\* What is in the first n files, and in all of them, in the order of the files.
MessagesUpTo(fs) ==
    LET all[n \in 0..Len(fs)] == IF n = 0 THEN <<>> ELSE all[n - 1] \o fs[n].messages
    IN  all

InFiles == MessagesUpTo(files)[Len(files)]

\* The variables keep their shape; there is an open file when one is written.
TypeOK ==
    /\ runFlag \in BOOLEAN
    /\ con \in {"loop", "take", "open", "write", "done", "crashed"}
    /\ gone # 0 => shut /\ fd # 0
    /\ fd \in 0..Len(files)
    /\ con = "write" => fd # 0
    /\ Len(batch) <= Batch
    /\ con # "crashed" => (batch # <<>> <=> con \in {"open", "write"})

\* The log files get every message in the order it was pushed, none twice,
\* and none is lost while the engine runs.
Settled == Len(pushed) - Len(log) - Len(batch)

Promise == INSTANCE Outbox WITH
    Topics   <- {"log"},
    stopped  <- ~runFlag,
    added    <- [t \in {"log"} |-> Len(pushed)],
    settled  <- [t \in {"log"} |-> Settled],
    accepted <- [t \in {"log"} |-> InFiles]

ImplementsOutbox == Promise!Spec

\* The blocks of a worker hold each of its lines once, in order, however the
\* lines of the workers are interleaved.
BlocksJoinUp ==
    \A j \in 1..Len(pushed) :
        LET w       == pushed[j].by
            earlier == {i \in 1..(j - 1) : pushed[i].by = w /\ pushed[i].to # 0}
        IN pushed[j].to # 0 =>
               pushed[j].from = (IF earlier = {} THEN 0 ELSE pushed[Max(earlier)].to) + 1

\* While the log thread runs a file stays below the limit, unless a single
\* batch alone exceeds it.  The last drain does not look at the limit.
FilesBounded ==
    con # "done" =>
        \A f \in 1..Len(files) : Len(files[f].messages) < MaxSize \/ files[f].writes <= 1

\* A file has its final name if and only if it was closed, by the log thread
\* or by Uninit, whichever comes first at the stop.
ClosedMeansFinal ==
    HdfsLog => \A f \in 1..Len(files) : files[f].final <=> f # fd \/ Dangling

\* A message reaches a file, unless the engine is stopped or a file that
\* cannot be opened takes the engine down.
EventuallyWritten ==
    \A n \in 1..MaxMessages : Len(pushed) >= n ~> (Settled >= n \/ ~runFlag \/ con = "crashed")
==============================================================================
