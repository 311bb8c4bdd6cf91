------------------------------- MODULE Logging -------------------------------
(***************************************************************************)
(* The log of the process: LOG statements of several threads, the lock of  *)
(* the default logger, the file and its rotation, restarts and crashes.    *)
(*                                                                         *)
(* A LOG statement takes the logger's (recursive) mutex when its Writer is *)
(* made and gives it back when the Writer is destroyed; in between it      *)
(* inserts its parts into the one stream of the logger.  A line is the     *)
(* sequence of the parts found in the stream when it is dispatched.  The   *)
(* global lock and the lock of the file are taken inside that mutex by the *)
(* only logger there is, so they add nothing.  A write and its flush are   *)
(* one step: a crash between them is a crash before both.                  *)
(***************************************************************************)
EXTENDS Integers, Sequences, SequencesExt

CONSTANTS
  Threads,    \* the threads that log
  Parts,      \* the number of parts a statement inserts, also its line's size
  Keep,       \* how many rotated files are kept (9 in the code)
  MaxSizes,   \* the values of logging.max_size a start may find in the config
  MaxLines,   \* bound: statements of all runs of the program
  MaxStarts   \* bound: starts of the program

Nobody == "nobody"

ASSUME LoggingAssumption ==
  /\ Nobody \notin Threads
  /\ Parts \in Nat \ {0} /\ Keep \in Nat \ {0} /\ MaxSizes \subseteq Nat
  /\ MaxLines \in Nat /\ MaxStarts \in Nat

VARIABLES
  up,         \* configure_logging has returned, the threads run
  max_size,   \* maxLogFileSize of this run, 0 for no limit
  lock,       \* the thread that holds the logger's mutex, or Nobody
  pc,         \* where each thread is in its LOG statement
  proceed,    \* m_proceed of each thread's Writer: the level is enabled
  inserted,   \* how many parts each thread's statement has inserted
  stream,     \* the stream of the logger
  disk,       \* the existing files: 0 is the log file, n > 0 is "<log file>.n"
  older,      \* the next file pre_rollout_callback renames
  issued,     \* how many statements began, a bound and the statements' names
  starts,     \* how often the program was started
  history     \* every line flushed, but for those a start erased

vars == <<up, max_size, lock, pc, proceed, inserted, stream, disk, older,
          issued, starts, history>>

\* Where a thread may be: roll_before and roll_after are the two times
\* unsafeValidateFileRolling is called for a line, before and after it.
Places == {"idle", "stream", "dispatch", "roll_before", "write", "flushed",
           "roll_after", "release"}

Files == 0 .. Keep

Size(file) == Len(FlattenSeq(file))

Init ==
  /\ up = FALSE /\ max_size = 0 /\ lock = Nobody
  /\ pc = [t \in Threads |-> "idle"]
  /\ proceed = [t \in Threads |-> FALSE]
  /\ inserted = [t \in Threads |-> 0]
  /\ stream = <<>> /\ disk = <<>> /\ older = 0
  /\ issued = 0 /\ starts = 0 /\ history = <<>>

-----------------------------------------------------------------------------
(* The file.  tellg() of a stream opened for appending is the size of the  *)
(* file, so getSizeOfFile is exact in both modes of opening.               *)

MustRoll(file, limit) == limit # 0 /\ Size(file) >= limit

\* rename(from, to): fails, and changes nothing, when there is no such file.
Renamed(files, from, to) ==
  IF from \in DOMAIN files
  THEN [f \in (DOMAIN files \ {from}) \union {to} |->
          IF f = to THEN files[from] ELSE files[f]]
  ELSE files

Truncated(files) ==
  [f \in DOMAIN files \union {0} |-> IF f = 0 THEN <<>> ELSE files[f]]

Appended(files) == IF 0 \in DOMAIN files THEN files ELSE Truncated(files)

\* configure_logging at the start of the program.  build() opens the file for
\* appending and checks its size with the default callback, which does nothing,
\* because pre_rollout_callback is installed later: a log that has reached the
\* limit is truncated and nothing is renamed.
Start ==
  /\ ~up /\ starts < MaxStarts
  /\ up' = TRUE /\ starts' = starts + 1
  /\ max_size' \in MaxSizes
  /\ LET opened == Appended(disk)
         erased == MustRoll(opened[0], max_size')
     IN /\ disk' = IF erased THEN Truncated(opened) ELSE opened
        /\ history' = IF erased
                      THEN SubSeq(history, 1, Len(history) - Len(opened[0]))
                      ELSE history
  /\ UNCHANGED <<lock, pc, proceed, inserted, stream, older, issued>>

\* The process ends at any point: what was flushed and renamed stays.
Crash ==
  /\ up
  /\ up' = FALSE
  /\ lock' = Nobody /\ stream' = <<>> /\ older' = 0
  /\ pc' = [t \in Threads |-> "idle"]
  /\ proceed' = [t \in Threads |-> FALSE]
  /\ inserted' = [t \in Threads |-> 0]
  /\ UNCHANGED <<max_size, disk, issued, starts, history>>

-----------------------------------------------------------------------------
(* A LOG statement.                                                        *)

Goto(t, place) == pc' = [pc EXCEPT ![t] = place]

FileUnchanged == UNCHANGED <<up, max_size, disk, older, starts, history>>

\* Mutant: the mutex is not taken until the line is dispatched.
LockAtDispatchOnly(t) == TRUE

\* initializeLogger: acquireLock blocks while another thread has the mutex.
LockFree(t) == lock = Nobody

initializeLogger(t) ==
  /\ up /\ pc[t] = "idle" /\ issued < MaxLines
  /\ LockFree(t)
  /\ lock' = t
  /\ issued' = issued + 1
  /\ \E enabled \in BOOLEAN : proceed' = [proceed EXCEPT ![t] = enabled]
  /\ inserted' = [inserted EXCEPT ![t] = 0]
  /\ Goto(t, "stream")
  /\ UNCHANGED stream /\ FileUnchanged

\* operator<<: nothing is inserted when the level is disabled.
Insert(t) ==
  /\ pc[t] = "stream"
  /\ inserted' = [inserted EXCEPT ![t] = @ + 1]
  /\ stream' = IF proceed[t]
               THEN Append(stream, [by |-> t, nr |-> issued, part |-> inserted[t] + 1])
               ELSE stream
  /\ Goto(t, IF inserted[t] + 1 = Parts THEN "dispatch" ELSE "stream")
  /\ UNCHANGED <<lock, proceed, issued>> /\ FileUnchanged

\* Mutant: a disabled statement keeps the mutex.
DiscardLocked(t) ==
  /\ stream' = <<>>
  /\ UNCHANGED lock
  /\ Goto(t, "idle")

\* processDispatch of a disabled statement.
Discard(t) ==
  /\ stream' = <<>>
  /\ lock' = Nobody
  /\ Goto(t, "idle")

processDispatch(t) ==
  /\ pc[t] = "dispatch"
  /\ IF proceed[t]
     THEN /\ IF MustRoll(disk[0], max_size)
             THEN Goto(t, "roll_before") /\ older' = Keep - 1
             ELSE Goto(t, "write") /\ UNCHANGED older
          /\ UNCHANGED <<stream, lock>>
     ELSE Discard(t) /\ UNCHANGED older
  /\ UNCHANGED <<up, max_size, proceed, inserted, disk, issued, starts, history>>

\* Mutant: from the newest file to the oldest.
RenameUpwards ==
  LET i == Keep - 1 - older IN [from |-> i, to |-> i + 1, next |-> older - 1]

\* One rename of pre_rollout_callback: ".8" to ".9", and so on down to the log
\* file itself, which becomes ".1".  The ninth, of a ".0" that nothing creates,
\* does nothing and is left out.
RenameOrder == [from |-> older, to |-> older + 1, next |-> older - 1]

pre_rollout_callback(t) ==
  /\ pc[t] \in {"roll_before", "roll_after"} /\ older >= 0
  /\ disk' = Renamed(disk, RenameOrder.from, RenameOrder.to)
  /\ older' = RenameOrder.next
  /\ UNCHANGED <<up, max_size, lock, pc, proceed, inserted, stream, issued,
                 starts, history>>

\* The file is opened again, truncated.
Reopen(t) ==
  /\ pc[t] \in {"roll_before", "roll_after"} /\ older < 0
  /\ disk' = Truncated(disk)
  /\ older' = 0
  /\ Goto(t, IF pc[t] = "roll_before" THEN "write" ELSE "release")
  /\ UNCHANGED <<up, max_size, lock, proceed, inserted, stream, issued, starts,
                 history>>

\* DefaultLogDispatchCallback::dispatch: the line is written and, with a
\* threshold of 0, flushed at once.
Write(t) ==
  /\ pc[t] = "write"
  /\ disk' = [disk EXCEPT ![0] = Append(@, stream)]
  /\ history' = Append(history, stream)
  /\ Goto(t, "flushed")
  /\ UNCHANGED <<up, max_size, lock, proceed, inserted, stream, older, issued,
                 starts>>

\* Logger::flush checks the size again.
Flush(t) ==
  /\ pc[t] = "flushed"
  /\ IF MustRoll(disk[0], max_size)
     THEN Goto(t, "roll_after") /\ older' = Keep - 1
     ELSE Goto(t, "release") /\ UNCHANGED older
  /\ UNCHANGED <<up, max_size, lock, proceed, inserted, stream, disk, issued,
                 starts, history>>

\* The end of triggerDispatch.
Release(t) ==
  /\ pc[t] = "release"
  /\ stream' = <<>>
  /\ lock' = Nobody
  /\ Goto(t, "idle")
  /\ UNCHANGED <<proceed, inserted, issued>> /\ FileUnchanged

Step(t) ==
  \/ Insert(t) \/ processDispatch(t) \/ pre_rollout_callback(t) \/ Reopen(t)
  \/ Write(t) \/ Flush(t) \/ Release(t)

Next == Start \/ Crash \/ \E t \in Threads : initializeLogger(t) \/ Step(t)

\* The scheduler runs every thread that holds the mutex; who is given it is up
\* to the implementation of the mutex, so a statement that waits is not promised
\* its turn.
Fairness == \A t \in Threads : WF_vars(Step(t))

Spec == Init /\ [][Next]_vars /\ Fairness

-----------------------------------------------------------------------------
(* Properties.                                                             *)

TypeOK ==
  /\ up \in BOOLEAN /\ max_size \in MaxSizes \union {0}
  /\ lock \in Threads \union {Nobody}
  /\ pc \in [Threads -> Places]
  /\ proceed \in [Threads -> BOOLEAN]
  /\ inserted \in [Threads -> 0 .. Parts]
  /\ DOMAIN disk \subseteq Files
  /\ older \in -1 .. Keep - 1
  /\ issued \in 0 .. MaxLines /\ starts \in 0 .. MaxStarts

\* The files read from the oldest to the newest.
OnDisk ==
  FlattenSeq([k \in 1 .. Keep + 1 |->
                IF Keep + 1 - k \in DOMAIN disk THEN disk[Keep + 1 - k] ELSE <<>>])

(* The files, read from the oldest to the newest, are the last lines that  *)
(* were logged, in order and without a gap, and lines are missing only     *)
(* once the last file of the row is there, off whose end they fell.  It    *)
(* holds in the middle of a rollout, after a crash in one, and when a file *)
(* in the row is missing.  pre_rollout_callback renames from the oldest    *)
(* file to the newest, and no rename may put a file over a newer one.      *)
(* And whenever no statement is under way the log file is below its limit, *)
(* whatever limit and file the start found.                                *)
LogRotated ==
  /\ IsSuffix(OnDisk, history)
  /\ OnDisk # history => Keep \in DOMAIN disk
  /\ up /\ lock = Nobody /\ max_size # 0 => Size(disk[0]) < max_size

(* A line in a file is one statement, whole: all the parts of one thread's *)
(* statement in the order it inserted them.  All threads insert into the   *)
(* one stream of the logger, so the lock of initializeLogger must be held  *)
(* until the line has been written.                                        *)
LinesWhole ==
  \A n \in DOMAIN history :
    \E t \in Threads, nr \in 1 .. MaxLines :
      history[n] = [k \in 1 .. Parts |-> [by |-> t, nr |-> nr, part |-> k]]

(* A start leaves every line of the earlier runs in some file.             *)
RestartKeepsLog ==
  [][starts' # starts => history' = history]_vars

(* A statement that has begun ends, through rollouts and for disabled      *)
(* levels too, unless the process does; so the mutex is not held for ever. *)
StatementEnds == \A t \in Threads : lock = t ~> lock = Nobody

=============================================================================
