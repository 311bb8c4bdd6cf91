---------------------------- MODULE LoggingProofs ----------------------------
(***************************************************************************)
(* What TLAPS proves of the log, for any number of threads, parts, kept    *)
(* files, limits and restarts: lines are whole and the rotation keeps the  *)
(* last of them in order.                                                  *)
(***************************************************************************)
EXTENDS Logging, SequenceLemmas

USE LoggingAssumption

\* The first k parts of statement nr of thread t, and the lines that are whole.
FirstParts(t, nr, k) == [i \in 1 .. k |-> [by |-> t, nr |-> nr, part |-> i]]

WholeLines == {FirstParts(t, nr, Parts) : t \in Threads, nr \in 1 .. MaxLines}

Rolls == {"roll_before", "roll_after"}

\* The rotation of the files is under way.
Rolling == \E t \in Threads : pc[t] \in Rolls

-----------------------------------------------------------------------------
(* Type correctness and the lock.                                          *)

LEMMA Quiet ==
  /\ [t \in Threads |-> "idle"] \in [Threads -> Places]
  /\ [t \in Threads |-> FALSE] \in [Threads -> BOOLEAN]
  /\ [t \in Threads |-> 0] \in [Threads -> 0 .. Parts]
  /\ 0 \in -1 .. Keep - 1 /\ 0 \in Files
BY DEF Places, Files

LEMMA InitType == Init => TypeOK
<1> SUFFICES ASSUME Init PROVE TypeOK
  OBVIOUS
<1>1. DOMAIN disk \subseteq Files /\ issued \in 0 .. MaxLines /\ starts \in 0 .. MaxStarts
  BY DEF Init
<1> QED
  BY <1>1, Quiet, Zenon DEF Init, TypeOK

\* A statement still has a part to insert.
PartsLeft == \A t \in Threads : pc[t] = "stream" => inserted[t] < Parts

LEMMA TypeStep ==
  ASSUME TypeOK, PartsLeft, [Next]_vars
  PROVE  TypeOK' /\ PartsLeft'
<1> USE DEF TypeOK
<1>1. CASE Start
  <2>1. DOMAIN disk' \subseteq Files
    BY <1>1, Quiet, Zenon DEF Start, Truncated, Appended
  <2> QED
    BY <1>1, <2>1 DEF Start, PartsLeft
<1>2. CASE Crash
  <2>1. PartsLeft'
    BY <1>2 DEF Crash, PartsLeft
  <2> QED
    BY <1>2, <2>1, Quiet, Zenon DEF Crash
<1>3. ASSUME NEW t \in Threads, initializeLogger(t) PROVE TypeOK' /\ PartsLeft'
  BY <1>3 DEF initializeLogger, Goto, FileUnchanged, Places, PartsLeft
<1>4. ASSUME NEW t \in Threads, Insert(t) PROVE TypeOK' /\ PartsLeft'
  <2>1. inserted' \in [Threads -> 0 .. Parts] /\ PartsLeft'
    BY <1>4 DEF Insert, Goto, PartsLeft
  <2>2. pc' \in [Threads -> Places]
    BY <1>4 DEF Insert, Goto, Places
  <2> QED
    BY <1>4, <2>1, <2>2, Zenon DEF Insert, FileUnchanged
<1>5. ASSUME NEW t \in Threads, processDispatch(t) PROVE TypeOK' /\ PartsLeft'
  BY <1>5 DEF processDispatch, Discard, Goto, Places, PartsLeft
<1>6. ASSUME NEW t \in Threads, pre_rollout_callback(t) PROVE TypeOK' /\ PartsLeft'
  BY <1>6 DEF pre_rollout_callback, RenameOrder, Renamed, Files, PartsLeft
<1>7. ASSUME NEW t \in Threads, Reopen(t) PROVE TypeOK' /\ PartsLeft'
  BY <1>7 DEF Reopen, Truncated, Goto, Places, Files, PartsLeft
<1>8. ASSUME NEW t \in Threads, Write(t) PROVE TypeOK' /\ PartsLeft'
  BY <1>8 DEF Write, Goto, Places, PartsLeft
<1>9. ASSUME NEW t \in Threads, Flush(t) PROVE TypeOK' /\ PartsLeft'
  BY <1>9 DEF Flush, Goto, Places, PartsLeft
<1>10. ASSUME NEW t \in Threads, Release(t) PROVE TypeOK' /\ PartsLeft'
  BY <1>10 DEF Release, Goto, FileUnchanged, Places, PartsLeft
<1>11. CASE UNCHANGED vars
  BY <1>11 DEF vars, PartsLeft
<1> QED
  BY <1>1, <1>2, <1>3, <1>4, <1>5, <1>6, <1>7, <1>8, <1>9, <1>10, <1>11, Zenon
     DEF Next, Step

(* The variables keep their types in every behaviour of the log.           *)
THEOREM LoggingTyped == Spec => [](TypeOK /\ PartsLeft)
<1>1. Init => TypeOK /\ PartsLeft
  <2>1. Init => PartsLeft
    BY DEF Init, PartsLeft
  <2> QED
    BY <2>1, InitType
<1>2. TypeOK /\ PartsLeft /\ [Next]_vars => (TypeOK /\ PartsLeft)'
  BY TypeStep
<1> QED
  BY <1>1, <1>2, PTL DEF Spec

-----------------------------------------------------------------------------
(* Whole lines.                                                            *)

\* Whoever is in a statement has the lock, and the stream holds what it has
\* inserted and nothing else.
LockInv ==
  /\ lock = Nobody => stream = <<>>
  /\ \A t \in Threads :
       /\ pc[t] # "idle" => /\ lock = t /\ up /\ issued > 0
                            /\ proceed[t] => stream = FirstParts(t, issued, inserted[t])
                            /\ ~proceed[t] => stream = <<>>
       /\ pc[t] \notin {"idle", "stream"} => inserted[t] = Parts
       /\ pc[t] \notin {"idle", "stream", "dispatch"} => proceed[t]

LEMMA LockStep ==
  ASSUME TypeOK, PartsLeft, LockInv, [Next]_vars
  PROVE  LockInv'
<1> USE DEF TypeOK
<1>1. CASE Start
  <2>1. \A t \in Threads : pc[t] = "idle"
    BY <1>1 DEF Start, LockInv
  <2> QED
    BY <1>1, <2>1 DEF Start, LockInv
<1>2. CASE Crash
  BY <1>2 DEF Crash, LockInv
<1>3. ASSUME NEW t \in Threads, initializeLogger(t) PROVE LockInv'
  <2>1. \A u \in Threads : pc[u] = "idle"
    BY <1>3 DEF initializeLogger, LockFree, LockInv
  <2>2. stream' = <<>> /\ <<>> = FirstParts(t, issued', 0)
    BY <1>3 DEF initializeLogger, LockFree, LockInv, FirstParts
  <2>3. /\ pc' = [pc EXCEPT ![t] = "stream"] /\ inserted'[t] = 0 /\ lock' = t /\ up'
        /\ issued' > 0
    BY <1>3 DEF initializeLogger, Goto, FileUnchanged
  <2>4. \A u \in Threads : u # t => pc'[u] = "idle"
    BY <2>1, <2>3
  <2>5. pc'[t] = "stream" /\ lock' # Nobody
    BY <2>3
  <2> QED
    BY <2>2, <2>3, <2>4, <2>5, Zenon DEF LockInv
<1>4. ASSUME NEW t \in Threads, Insert(t) PROVE LockInv'
  <2>1. /\ lock = t /\ up /\ issued > 0
        /\ proceed[t] => stream = FirstParts(t, issued, inserted[t])
        /\ ~proceed[t] => stream = <<>>
        /\ pc[t] = "stream"
    BY <1>4 DEF Insert, LockInv
  <2>2. \A u \in Threads : u # t => pc[u] = "idle"
    BY <2>1 DEF LockInv
  <2>3. Append(FirstParts(t, issued, inserted[t]), [by |-> t, nr |-> issued, part |-> inserted[t] + 1])
          = FirstParts(t, issued, inserted[t] + 1)
    BY DEF FirstParts
  <2>4. /\ pc'[t] = IF inserted[t] + 1 = Parts THEN "dispatch" ELSE "stream"
        /\ inserted'[t] = inserted[t] + 1 /\ UNCHANGED <<lock, up, issued, proceed>>
        /\ stream' = IF proceed[t]
                     THEN Append(stream, [by |-> t, nr |-> issued, part |-> inserted[t] + 1])
                     ELSE stream
        /\ \A u \in Threads : u # t => pc'[u] = pc[u]
    BY <1>4, Zenon DEF Insert, Goto, FileUnchanged
  <2>5. proceed[t] => stream' = FirstParts(t, issued, inserted[t] + 1)
    BY <2>1, <2>3, <2>4, Zenon
  <2>6. \A u \in Threads : u # t => pc'[u] = "idle"
    BY <2>2, <2>4, Zenon
  <2>7. pc'[t] = "dispatch" => inserted'[t] = Parts
    BY <2>4
  <2>8. lock' # Nobody
    BY <2>1, <2>4
  <2> QED
    BY <2>1, <2>4, <2>5, <2>6, <2>7, <2>8, Zenon DEF LockInv
<1>5. ASSUME NEW t \in Threads, processDispatch(t) PROVE LockInv'
  BY <1>5 DEF processDispatch, Discard, Goto, LockInv
<1>6. ASSUME NEW t \in Threads, pre_rollout_callback(t) PROVE LockInv'
  BY <1>6 DEF pre_rollout_callback, LockInv
<1>7. ASSUME NEW t \in Threads, Reopen(t) PROVE LockInv'
  BY <1>7 DEF Reopen, Goto, LockInv
<1>8. ASSUME NEW t \in Threads, Write(t) PROVE LockInv'
  BY <1>8 DEF Write, Goto, LockInv
<1>9. ASSUME NEW t \in Threads, Flush(t) PROVE LockInv'
  BY <1>9 DEF Flush, Goto, LockInv
<1>10. ASSUME NEW t \in Threads, Release(t) PROVE LockInv'
  BY <1>10 DEF Release, Goto, FileUnchanged, LockInv
<1>11. CASE UNCHANGED vars
  BY <1>11 DEF vars, LockInv
<1> QED
  BY <1>1, <1>2, <1>3, <1>4, <1>5, <1>6, <1>7, <1>8, <1>9, <1>10, <1>11, Zenon
     DEF Next, Step

\* The lines of the files and of the history.
LinesInv == history \in Seq(WholeLines) /\ disk \in [DOMAIN disk -> Seq(WholeLines)]

LEMMA StreamWhole ==
  ASSUME TypeOK, LockInv, NEW t \in Threads, pc[t] = "write"
  PROVE  stream \in WholeLines
<1>1. stream = FirstParts(t, issued, Parts) /\ issued > 0
  BY Zenon DEF LockInv
<1>2. issued \in 1 .. MaxLines
  BY <1>1 DEF TypeOK
<1> QED
  BY <1>1, <1>2 DEF WholeLines

LEMMA TruncatedType ==
  ASSUME NEW X, NEW files, files \in [DOMAIN files -> Seq(X)]
  PROVE  /\ Truncated(files) \in [DOMAIN Truncated(files) -> Seq(X)]
         /\ Appended(files) \in [DOMAIN Appended(files) -> Seq(X)]
         /\ 0 \in DOMAIN Truncated(files) /\ Truncated(files)[0] = <<>>
         /\ 0 \in DOMAIN Appended(files)
BY DEF Truncated, Appended

LEMMA RenamedType ==
  ASSUME NEW X, NEW files, files \in [DOMAIN files -> Seq(X)], NEW from, NEW to
  PROVE  Renamed(files, from, to) \in [DOMAIN Renamed(files, from, to) -> Seq(X)]
BY DEF Renamed

LEMMA LinesStep ==
  ASSUME TypeOK, LockInv, LinesInv, [Next]_vars
  PROVE  LinesInv'
<1> DEFINE W == WholeLines
<1> HIDE DEF W
<1>0. history \in Seq(W) /\ disk \in [DOMAIN disk -> Seq(W)]
  BY DEF LinesInv, W
<1>a. SUFFICES history' \in Seq(W) /\ disk' \in [DOMAIN disk' -> Seq(W)]
  BY DEF LinesInv, W
<1>1. CASE Start
  <2> DEFINE o == Appended(disk)
  <2>1. o \in [DOMAIN o -> Seq(W)] /\ 0 \in DOMAIN o
    BY <1>0, TruncatedType, Zenon
  <2>2. Truncated(o) \in [DOMAIN Truncated(o) -> Seq(W)]
    BY <2>1, TruncatedType, Zenon
  <2>3. SubSeq(history, 1, Len(history) - Len(o[0])) \in Seq(W)
    <3>1. Len(o[0]) \in Nat
      BY <2>1
    <3> HIDE DEF o
    <3> QED
      BY <1>0, <3>1, SubSeqProperties
  <2>4. /\ disk' = o \/ disk' = Truncated(o)
        /\ history' = history \/ history' = SubSeq(history, 1, Len(history) - Len(o[0]))
    BY <1>1, Zenon DEF Start
  <2> QED
    BY <1>0, <2>1, <2>2, <2>3, <2>4, Zenon
<1>2. ASSUME NEW t \in Threads, pre_rollout_callback(t) PROVE LinesInv'
  <2>1. history' = history /\ disk' = Renamed(disk, older, older + 1)
    BY <1>2 DEF pre_rollout_callback, RenameOrder
  <2> QED
    BY <1>0, <2>1, RenamedType, Zenon DEF LinesInv, W
<1>3. ASSUME NEW t \in Threads, Reopen(t) PROVE LinesInv'
  BY <1>0, <1>3, TruncatedType, Zenon DEF Reopen, LinesInv, W
<1>4. ASSUME NEW t \in Threads, Write(t) PROVE LinesInv'
  <2>1. stream \in W
    BY <1>4, StreamWhole, Zenon DEF Write, W
  <2>2. history' = Append(history, stream) /\ disk' = [disk EXCEPT ![0] = Append(@, stream)]
    BY <1>4, Zenon DEF Write
  <2>3. history' \in Seq(W)
    BY <1>0, <2>1, <2>2
  <2>4. disk' \in [DOMAIN disk' -> Seq(W)]
    <3>1. 0 \in DOMAIN disk => Append(disk[0], stream) \in Seq(W)
      BY <1>0, <2>1
    <3> QED
      BY <1>0, <2>2, <3>1, Zenon
  <2> QED
    BY <2>3, <2>4, Zenon DEF LinesInv, W
<1>5. CASE UNCHANGED <<disk, history>>
  BY <1>0, <1>5, Zenon
<1>6. Crash => UNCHANGED <<disk, history>>
  BY Zenon DEF Crash
<1>7. ASSUME NEW t \in Threads
      PROVE  initializeLogger(t) \/ Insert(t) \/ processDispatch(t) \/ Flush(t) \/ Release(t)
             => UNCHANGED <<disk, history>>
  BY Zenon DEF initializeLogger, Insert, processDispatch, Flush, Release, FileUnchanged
<1>8. UNCHANGED vars => UNCHANGED <<disk, history>>
  BY Zenon DEF vars
<1> QED
  BY <1>1, <1>2, <1>3, <1>4, <1>5, <1>6, <1>7, <1>8, Zenon DEF Next, Step, LinesInv, W

LineInv == TypeOK /\ PartsLeft /\ LockInv /\ LinesInv

LEMMA InitLine == Init => LineInv
<1> SUFFICES ASSUME Init PROVE LineInv
  OBVIOUS
<1>1. TypeOK /\ PartsLeft
  BY InitType DEF Init, PartsLeft
<1>2. LockInv
  BY DEF Init, LockInv
<1>3. LinesInv
  BY DEF Init, LinesInv
<1> QED
  BY <1>1, <1>2, <1>3 DEF LineInv

LEMMA LineStep == LineInv /\ [Next]_vars => LineInv'
BY TypeStep, LockStep, LinesStep, Zenon DEF LineInv

LEMMA LineInvariant == Spec => []LineInv
BY InitLine, LineStep, PTL DEF Spec

(* A line in a file is one whole statement of one thread, however the      *)
(* statements of the threads, the rollouts and the crashes interleave: the *)
(* lock taken by initializeLogger covers the stream until the line is out. *)
THEOREM LinesAreWhole == Spec => []LinesWhole
<1>1. LineInv => LinesWhole
  <2> SUFFICES ASSUME LineInv, NEW n \in DOMAIN history
               PROVE  \E t \in Threads, nr \in 1 .. MaxLines :
                        history[n] = [k \in 1 .. Parts |-> [by |-> t, nr |-> nr, part |-> k]]
    BY Zenon DEF LinesWhole
  <2>1. history[n] \in WholeLines
    BY DEF LineInv, LinesInv
  <2>2. \E t \in Threads, nr \in 1 .. MaxLines : history[n] = FirstParts(t, nr, Parts)
    BY <2>1 DEF WholeLines
  <2> QED
    BY <2>2, Zenon DEF FirstParts
<1> QED
  BY <1>1, LineInvariant, PTL

-----------------------------------------------------------------------------
(* The rotation.                                                           *)

\* The files as a row, from the oldest place to the log file.
Row(files) ==
  [k \in 1 .. Keep + 1 |-> IF Keep + 1 - k \in DOMAIN files THEN files[Keep + 1 - k] ELSE <<>>]

\* The log file, or nothing while there is none.
Newest(files) == IF 0 \in DOMAIN files THEN files[0] ELSE <<>>

LEMMA PlaceInRow ==
  ASSUME NEW o \in 0 .. Keep - 2, NEW i \in 1 .. Keep + 1,
         i # Keep + 1 - o, i # (Keep + 1 - o) - 1
  PROVE  Keep + 1 - i # o /\ Keep + 1 - i # o + 1
OBVIOUS

LEMMA RowType ==
  ASSUME NEW X, NEW files, files \in [DOMAIN files -> Seq(X)]
  PROVE  Row(files) \in [1 .. Keep + 1 -> Seq(X)] /\ Row(files)[Keep + 1] = Newest(files)
<1>1. Keep + 1 \in 1 .. Keep + 1 /\ Keep + 1 - (Keep + 1) = 0
  OBVIOUS
<1>2. \A k \in 1 .. Keep + 1 :
        (IF Keep + 1 - k \in DOMAIN files THEN files[Keep + 1 - k] ELSE <<>>) \in Seq(X)
  OBVIOUS
<1> QED
  BY <1>1, <1>2, Zenon DEF Row, Newest

\* The first rename puts the second oldest file over the oldest.
LEMMA OldestLost ==
  ASSUME NEW X, NEW files, files \in [DOMAIN files -> Seq(X)], Keep - 1 \in DOMAIN files
  PROVE  FlattenSeq(Row(files)) = Row(files)[1] \o FlattenSeq(Row(Renamed(files, Keep - 1, Keep)))
<1> DEFINE a == Row(files)
           later == Renamed(files, Keep - 1, Keep)
           b == Row(later)
<1>1. later \in [DOMAIN later -> Seq(X)]
  BY RenamedType, Zenon
<1>2. a \in [1 .. Keep + 1 -> Seq(X)] /\ b \in [1 .. Keep + 1 -> Seq(X)]
  BY <1>1, RowType, Zenon
<1>3. /\ DOMAIN later = (DOMAIN files \ {Keep - 1}) \union {Keep}
      /\ later[Keep] = files[Keep - 1]
      /\ \A f \in DOMAIN later : f # Keep => later[f] = files[f]
  BY DEF Renamed
<1> HIDE DEF later
<1>4. \A k \in 1 .. Keep + 1 :
        /\ a[k] = IF Keep + 1 - k \in DOMAIN files THEN files[Keep + 1 - k] ELSE <<>>
        /\ b[k] = IF Keep + 1 - k \in DOMAIN later THEN later[Keep + 1 - k] ELSE <<>>
  BY Zenon DEF Row
<1> HIDE DEF a, b
<1>5. 1 \in 1 .. Keep + 1 /\ 2 \in 1 .. Keep + 1 /\ Keep + 1 - 1 = Keep /\ Keep + 1 - 2 = Keep - 1
      /\ Keep - 1 # Keep /\ Keep + 1 \in Nat /\ Keep + 1 >= 2
  OBVIOUS
<1>6. b[1] = a[2] /\ b[2] = <<>>
  <2>1. a[2] = files[Keep - 1]
    BY <1>4, <1>5, Zenon
  <2>2. b[1] = later[Keep]
    BY <1>3, <1>4, <1>5, Zenon
  <2>3. b[2] = <<>>
    BY <1>3, <1>4, <1>5, Zenon
  <2> QED
    BY <1>3, <2>1, <2>2, <2>3, Zenon
<1>7. \A i \in 3 .. Keep + 1 : a[i] = b[i]
  <2> TAKE i \in 3 .. Keep + 1
  <2>1. i \in 1 .. Keep + 1 /\ Keep + 1 - i # Keep /\ Keep + 1 - i # Keep - 1
    OBVIOUS
  <2> QED
    BY <1>3, <1>4, <2>1, Zenon
<1>8. FlattenSeq(a) = a[1] \o FlattenSeq(b)
  <2>1. Rows(X, Keep + 1, a, b) /\ FirstReplaced(Keep + 1, a, b)
    BY <1>2, <1>5, <1>6, <1>7, Zenon DEF Rows, FirstReplaced
  <2> QED
    BY <2>1, DropFirst
<1> QED
  BY <1>8, Zenon DEF a, b, later

\* A later rename moves a file into the place left free by the one before.
LEMMA FileMoved ==
  ASSUME NEW X, NEW files, files \in [DOMAIN files -> Seq(X)],
         NEW o \in 0 .. Keep - 2, o \in DOMAIN files, o + 1 \notin DOMAIN files
  PROVE  FlattenSeq(Row(files)) = FlattenSeq(Row(Renamed(files, o, o + 1)))
<1> DEFINE a == Row(files)
           later == Renamed(files, o, o + 1)
           b == Row(later)
           k == Keep + 1 - o
<1>1. later \in [DOMAIN later -> Seq(X)]
  BY RenamedType, Zenon
<1>2. a \in [1 .. Keep + 1 -> Seq(X)] /\ b \in [1 .. Keep + 1 -> Seq(X)]
  BY <1>1, RowType, Zenon
<1>3. /\ DOMAIN later = (DOMAIN files \ {o}) \union {o + 1}
      /\ later[o + 1] = files[o]
      /\ \A f \in DOMAIN later : f # o + 1 => later[f] = files[f]
  BY DEF Renamed
<1> HIDE DEF later
<1>4. \A i \in 1 .. Keep + 1 :
        /\ a[i] = IF Keep + 1 - i \in DOMAIN files THEN files[Keep + 1 - i] ELSE <<>>
        /\ b[i] = IF Keep + 1 - i \in DOMAIN later THEN later[Keep + 1 - i] ELSE <<>>
  BY Zenon DEF Row
<1> HIDE DEF a, b
<1>5. k \in 2 .. Keep + 1 /\ k - 1 \in 1 .. Keep + 1 /\ Keep + 1 - k = o /\ Keep + 1 - (k - 1) = o + 1
      /\ o # o + 1 /\ Keep + 1 \in Nat /\ k \in 1 .. Keep + 1
  OBVIOUS
<1>6. a[k - 1] = <<>> /\ b[k - 1] = a[k] /\ b[k] = <<>>
  <2>1. a[k] = files[o]
    BY <1>4, <1>5, Zenon
  <2>2. b[k - 1] = later[o + 1]
    BY <1>3, <1>4, <1>5, Zenon
  <2>3. b[k] = <<>>
    BY <1>3, <1>4, <1>5, Zenon
  <2>4. a[k - 1] = <<>>
    BY <1>4, <1>5, Zenon
  <2> QED
    BY <1>3, <2>1, <2>2, <2>3, <2>4, Zenon
<1>7. \A i \in 1 .. Keep + 1 : i # k /\ i # k - 1 => a[i] = b[i]
  <2> SUFFICES ASSUME NEW i \in 1 .. Keep + 1, i # k, i # k - 1 PROVE a[i] = b[i]
    OBVIOUS
  <2>1. i \in 1 .. Keep + 1 /\ Keep + 1 - i # o /\ Keep + 1 - i # o + 1
    BY PlaceInRow, Zenon
  <2> QED
    BY <1>3, <1>4, <2>1, Zenon
<1> HIDE DEF k
<1>8. FlattenSeq(a) = FlattenSeq(b)
  <2>1. Rows(X, Keep + 1, a, b) /\ Moved(Keep + 1, k, a, b)
    BY <1>2, <1>5, <1>6, <1>7, Zenon DEF Rows, Moved
  <2> QED
    BY <2>1, MoveIntoEmpty, SMT
<1> QED
  BY <1>8, Zenon DEF a, b, later

\* Files that differ in the log file only.
OlderSame(X, files, later) ==
  /\ files \in [DOMAIN files -> Seq(X)] /\ later \in [DOMAIN later -> Seq(X)]
  /\ DOMAIN later \ {0} = DOMAIN files \ {0}
  /\ \A f \in DOMAIN files \ {0} : later[f] = files[f]

OlderBefore(X, files, later) ==
  \E q \in Seq(X) : /\ FlattenSeq(Row(files)) = q \o Newest(files)
                    /\ FlattenSeq(Row(later)) = q \o Newest(later)

LEMMA LogFileChanged ==
  ASSUME NEW X, NEW files, NEW later, OlderSame(X, files, later)
  PROVE  OlderBefore(X, files, later)
<1> USE DEF OlderSame
<1> DEFINE a == Row(files)
           b == Row(later)
<1>1. /\ a \in [1 .. Keep + 1 -> Seq(X)] /\ b \in [1 .. Keep + 1 -> Seq(X)]
      /\ a[Keep + 1] = Newest(files) /\ b[Keep + 1] = Newest(later)
  BY RowType, Zenon
<1>2. \A k \in 1 .. Keep + 1 :
        /\ a[k] = IF Keep + 1 - k \in DOMAIN files THEN files[Keep + 1 - k] ELSE <<>>
        /\ b[k] = IF Keep + 1 - k \in DOMAIN later THEN later[Keep + 1 - k] ELSE <<>>
  BY Zenon DEF Row
<1> HIDE DEF a, b
<1>3. \A i \in 1 .. (Keep + 1) - 1 : a[i] = b[i]
  <2> TAKE i \in 1 .. (Keep + 1) - 1
  <2>1. i \in 1 .. Keep + 1 /\ Keep + 1 - i # 0
    OBVIOUS
  <2>2. Keep + 1 - i \in DOMAIN later <=> Keep + 1 - i \in DOMAIN files
    BY <2>1, Zenon
  <2> QED
    BY <1>2, <2>1, <2>2, Zenon
<1>4. Keep + 1 \in Nat /\ Keep + 1 >= 1
  OBVIOUS
<1>5. \E q \in Seq(X) : FlattenSeq(a) = q \o a[Keep + 1] /\ FlattenSeq(b) = q \o b[Keep + 1]
  <2>1. Rows(X, Keep + 1, a, b) /\ LastReplaced(Keep + 1, a, b)
    BY <1>1, <1>3, <1>4, Zenon DEF Rows, LastReplaced
  <2>2. SameFront(X, Keep + 1, a, b)
    BY <2>1, ChangeLast, Zenon
  <2> QED
    BY <2>2, Zenon DEF SameFront
<1> QED
  BY <1>1, <1>5, Zenon DEF a, b, OlderBefore

\* The files end what was logged, and what is missing fell off the last of them.
Kept(X, lines, files) ==
  \E p \in Seq(X) : /\ lines = p \o FlattenSeq(Row(files))
                    /\ p # <<>> => Keep \in DOMAIN files

LEMMA OnDiskType ==
  ASSUME NEW X, NEW files, files \in [DOMAIN files -> Seq(X)]
  PROVE  FlattenSeq(Row(files)) \in Seq(X)
<1>1. Row(files) \in [1 .. Keep + 1 -> Seq(X)] /\ Keep + 1 \in Nat
  BY RowType
<1> QED
  BY <1>1, FlattenType

\* A rename of the rollout.
LEMMA KeptRenamed ==
  ASSUME NEW X, NEW lines, NEW files, files \in [DOMAIN files -> Seq(X)],
         Kept(X, lines, files), NEW o \in 0 .. Keep - 1,
         o < Keep - 1 => o + 1 \notin DOMAIN files
  PROVE  Kept(X, lines, Renamed(files, o, o + 1))
<1> DEFINE later == Renamed(files, o, o + 1)
<1>1. PICK p \in Seq(X) : /\ lines = p \o FlattenSeq(Row(files))
                          /\ p # <<>> => Keep \in DOMAIN files
  BY DEF Kept
<1>2. CASE o \notin DOMAIN files
  BY <1>2, Zenon DEF Renamed
<1>3. CASE o \in DOMAIN files /\ o < Keep - 1
  <2>1. o \in 0 .. Keep - 2 /\ o # Keep /\ o + 1 # Keep
    BY <1>3
  <2>2. FlattenSeq(Row(files)) = FlattenSeq(Row(later))
    BY <1>3, <2>1, FileMoved, Zenon
  <2>3. Keep \in DOMAIN files => Keep \in DOMAIN later
    BY <1>3, <2>1, Zenon DEF Renamed
  <2> HIDE DEF later
  <2>4. Kept(X, lines, later)
    BY <1>1, <2>2, <2>3, Zenon DEF Kept
  <2> QED
    BY <2>4 DEF later
<1>4. CASE o \in DOMAIN files /\ o = Keep - 1
  <2>1. o + 1 = Keep
    BY <1>4
  <2>2. FlattenSeq(Row(files)) = Row(files)[1] \o FlattenSeq(Row(later))
    BY <1>4, <2>1, OldestLost, Zenon
  <2>3. Keep \in DOMAIN later
    BY <1>4, <2>1, Zenon DEF Renamed
  <2>4. later \in [DOMAIN later -> Seq(X)]
    BY RenamedType, Zenon
  <2> HIDE DEF later
  <2>5. Row(files)[1] \in Seq(X) /\ FlattenSeq(Row(later)) \in Seq(X)
    <3>0. 1 \in 1 .. Keep + 1
      OBVIOUS
    <3>1. Row(files)[1] \in Seq(X)
      BY <3>0 DEF Row
    <3>2. FlattenSeq(Row(later)) \in Seq(X)
      BY <2>4, OnDiskType, Zenon
    <3> QED
      BY <3>0, <3>1, <3>2, Zenon
  <2>6. p \o (Row(files)[1] \o FlattenSeq(Row(later))) = (p \o Row(files)[1]) \o FlattenSeq(Row(later))
    <3>1. Regrouped(p, Row(files)[1], FlattenSeq(Row(later)))
      BY <2>5, Regroup, Zenon
    <3> QED
      BY <3>1, Zenon DEF Regrouped
  <2>7. p \o Row(files)[1] \in Seq(X)
    BY <2>5, ConcatProperties
  <2>8. Kept(X, lines, later)
    BY <1>1, <2>2, <2>3, <2>6, <2>7, Zenon DEF Kept
  <2> QED
    BY <2>8 DEF later
<1>5. o < Keep - 1 \/ o = Keep - 1
  OBVIOUS
<1> QED
  BY <1>2, <1>3, <1>4, <1>5

\* A change of the log file alone.
KeptBefore(X, lines, files, later) ==
  \E q \in Seq(X) : lines = q \o Newest(files) /\ Kept(X, q \o Newest(later), later)

LEMMA KeptChanged ==
  ASSUME NEW X, NEW lines, NEW files, NEW later,
         Kept(X, lines, files), OlderSame(X, files, later)
  PROVE  KeptBefore(X, lines, files, later)
<1>1. PICK p \in Seq(X) : /\ lines = p \o FlattenSeq(Row(files))
                          /\ p # <<>> => Keep \in DOMAIN files
  BY DEF Kept
<1>2. PICK r \in Seq(X) : /\ FlattenSeq(Row(files)) = r \o Newest(files)
                          /\ FlattenSeq(Row(later)) = r \o Newest(later)
  <2>1. OlderBefore(X, files, later)
    BY LogFileChanged, Zenon
  <2> QED
    BY <2>1, Zenon DEF OlderBefore
<1>3. Newest(files) \in Seq(X) /\ Newest(later) \in Seq(X)
  BY DEF Newest, OlderSame
<1>4. /\ p \o (r \o Newest(files)) = (p \o r) \o Newest(files)
      /\ p \o (r \o Newest(later)) = (p \o r) \o Newest(later)
  <2>1. Regrouped(p, r, Newest(files)) /\ Regrouped(p, r, Newest(later))
    BY <1>3, Regroup, Zenon
  <2> QED
    BY <2>1, Zenon DEF Regrouped
<1>5. p \o r \in Seq(X)
  BY ConcatProperties
<1>6. Keep \in DOMAIN files => Keep \in DOMAIN later
  <2>1. Keep # 0
    OBVIOUS
  <2> QED
    BY <2>1, Zenon DEF OlderSame
<1>7. Kept(X, (p \o r) \o Newest(later), later)
  BY <1>1, <1>2, <1>4, <1>6, Zenon DEF Kept
<1>8. lines = (p \o r) \o Newest(files)
  BY <1>1, <1>2, <1>4, Zenon
<1> QED
  BY <1>5, <1>7, <1>8, Zenon DEF KeptBefore

LEMMA KeptReopened ==
  ASSUME NEW X, NEW lines, NEW files, files \in [DOMAIN files -> Seq(X)],
         Kept(X, lines, files), 0 \notin DOMAIN files
  PROVE  Kept(X, lines, Truncated(files))
<1> DEFINE later == Truncated(files)
<1>1. /\ later \in [DOMAIN later -> Seq(X)] /\ DOMAIN later = DOMAIN files \union {0}
      /\ \A f \in DOMAIN files \ {0} : later[f] = files[f]
      /\ later[0] = <<>>
  BY DEF Truncated
<1>2. Newest(later) = <<>> /\ Newest(files) = <<>>
  BY <1>1, Zenon DEF Newest
<1> HIDE DEF later
<1>3. OlderSame(X, files, later)
  BY <1>1, Zenon DEF OlderSame
<1>4. KeptBefore(X, lines, files, later)
  BY <1>3, KeptChanged, Zenon
<1>5. Kept(X, lines, later)
  BY <1>2, <1>4, Zenon DEF KeptBefore
<1> QED
  BY <1>5 DEF later

LEMMA KeptErased ==
  ASSUME NEW X, NEW lines, NEW files, files \in [DOMAIN files -> Seq(X)],
         Kept(X, lines, files), 0 \in DOMAIN files
  PROVE  Kept(X, SubSeq(lines, 1, Len(lines) - Len(files[0])), Truncated(files))
<1> DEFINE later == Truncated(files)
<1>1. /\ later \in [DOMAIN later -> Seq(X)] /\ DOMAIN later = DOMAIN files \union {0}
      /\ \A f \in DOMAIN files \ {0} : later[f] = files[f]
      /\ later[0] = <<>>
  BY DEF Truncated
<1>2. Newest(later) = <<>> /\ Newest(files) = files[0] /\ files[0] \in Seq(X)
  BY <1>1, Zenon DEF Newest
<1> HIDE DEF later
<1>3. KeptBefore(X, lines, files, later)
  <2>1. OlderSame(X, files, later)
    BY <1>1, Zenon DEF OlderSame
  <2> QED
    BY <2>1, KeptChanged, Zenon
<1>4. PICK q \in Seq(X) : lines = q \o Newest(files) /\ Kept(X, q \o Newest(later), later)
  BY <1>3, Zenon DEF KeptBefore
<1>5. q \o <<>> = q
  BY ConcatEmptySeq
<1>6. SubSeq(lines, 1, Len(lines) - Len(files[0])) = q
  <2>1. SubSeq(q \o files[0], 1, Len(q \o files[0]) - Len(files[0])) = q
    BY <1>2, FrontOfConcat
  <2> QED
    BY <1>2, <1>4, <2>1, Zenon
<1>7. Kept(X, q, later)
  BY <1>2, <1>4, <1>5, Zenon
<1> QED
  BY <1>6, <1>7, Zenon DEF later

LEMMA KeptWritten ==
  ASSUME NEW X, NEW lines, NEW files, files \in [DOMAIN files -> Seq(X)],
         Kept(X, lines, files), 0 \in DOMAIN files, NEW line \in X
  PROVE  Kept(X, Append(lines, line), [files EXCEPT ![0] = Append(@, line)])
<1> DEFINE later == [files EXCEPT ![0] = Append(@, line)]
<1>0. files[0] \in Seq(X) /\ Append(files[0], line) \in Seq(X)
  OBVIOUS
<1>1. /\ later \in [DOMAIN later -> Seq(X)] /\ DOMAIN later = DOMAIN files
      /\ \A f \in DOMAIN files \ {0} : later[f] = files[f]
      /\ later[0] = Append(files[0], line)
  BY <1>0, Zenon
<1>2. Newest(later) = Append(files[0], line) /\ Newest(files) = files[0]
  BY <1>1, Zenon DEF Newest
<1> HIDE DEF later
<1>3. PICK q \in Seq(X) : lines = q \o Newest(files) /\ Kept(X, q \o Newest(later), later)
  <2>1. OlderSame(X, files, later)
    BY <1>1, Zenon DEF OlderSame
  <2>2. KeptBefore(X, lines, files, later)
    BY <2>1, KeptChanged, Zenon
  <2> QED
    BY <2>2, Zenon DEF KeptBefore
<1>4. q \o Append(files[0], line) = Append(q \o files[0], line)
  <2>1. <<line>> \in Seq(X) /\ q \o files[0] \in Seq(X)
    BY <1>0, ConcatProperties
  <2>2. Append(files[0], line) = files[0] \o <<line>>
    BY <1>0, AppendIsConcat
  <2>3. Append(q \o files[0], line) = (q \o files[0]) \o <<line>>
    BY <2>1, AppendIsConcat
  <2>4. (q \o files[0]) \o <<line>> = q \o (files[0] \o <<line>>)
    <3>1. Regrouped(q, files[0], <<line>>)
      BY <1>0, <2>1, Regroup, Zenon
    <3> QED
      BY <3>1, Zenon DEF Regrouped
  <2> QED
    BY <2>2, <2>3, <2>4, Zenon
<1>5. Kept(X, Append(lines, line), later)
  BY <1>2, <1>3, <1>4, Zenon
<1> QED
  BY <1>5 DEF later

-----------------------------------------------------------------------------
(* The rotation as an invariant of the log.                                *)

\* The log file is there but while it is rotated; and while it is, the place a
\* file is to be moved to has been left free, but for the oldest.
PlacesInv ==
  /\ up /\ ~Rolling => 0 \in DOMAIN disk
  /\ Rolling /\ older < Keep - 1 => older + 1 \notin DOMAIN disk

LEMMA AloneInside ==
  ASSUME LockInv, NEW t \in Threads, pc[t] # "idle"
  PROVE  up /\ \A u \in Threads : u # t => pc[u] = "idle"
BY Zenon DEF LockInv

LEMMA PlacesStep ==
  ASSUME LineInv, PlacesInv, [Next]_vars
  PROVE  PlacesInv'
<1> USE DEF LineInv
<1>0. pc \in [Threads -> Places] /\ older \in -1 .. Keep - 1
  BY DEF TypeOK
<1>d. disk \in [DOMAIN disk -> Seq(WholeLines)]
  BY DEF LinesInv
<1>1. CASE Start
  <2>1. \A t \in Threads : pc'[t] = "idle"
    BY <1>1, Zenon DEF Start, LockInv
  <2>2. ~Rolling'
    BY <2>1 DEF Rolling, Rolls
  <2>3. /\ 0 \in DOMAIN Appended(disk) /\ 0 \in DOMAIN Truncated(Appended(disk))
    BY Zenon DEF Appended, Truncated
  <2> QED
    BY <1>1, <2>2, <2>3, Zenon DEF Start, PlacesInv
<1>2. CASE Crash
  <2>1. ~Rolling' /\ ~up'
    BY <1>2 DEF Crash, Rolling, Rolls
  <2> QED
    BY <2>1 DEF PlacesInv
<1>3. ASSUME NEW t \in Threads,
             \/ initializeLogger(t) \/ Insert(t) \/ Release(t)
             \/ processDispatch(t) \/ Flush(t) \/ Write(t)
      PROVE  PlacesInv'
  <2>0. pc[t] \notin Rolls /\ \A u \in Threads : u # t => pc[u] \notin Rolls
    BY <1>3 DEF initializeLogger, Insert, Release, processDispatch, Flush, Write, LockFree,
                LockInv, Rolls
  <2>1. ~Rolling
    BY <2>0, Zenon DEF Rolling
  <2>2. up'= up /\ DOMAIN disk' = DOMAIN disk
    BY <1>3, Zenon DEF initializeLogger, Insert, Release, processDispatch, Flush, Write, FileUnchanged
  <2>3. Rolling' => older' = Keep - 1
    <3>a. \A u \in Threads : u # t => pc'[u] = pc[u]
      <4>1. \E place : pc' = [pc EXCEPT ![t] = place]
        BY <1>3, Zenon DEF initializeLogger, Insert, Release, processDispatch, Flush, Write, Goto,
                           Discard
      <4> QED
        BY <1>0, <4>1, Zenon
    <3>c. \A u \in Threads : u # t => pc'[u] \notin Rolls
      BY <2>0, <3>a, Zenon
    <3>b. Rolling' => pc'[t] \in Rolls
      BY <3>c, Zenon DEF Rolling
    <3>1. SUFFICES ASSUME pc'[t] \in Rolls PROVE older' = Keep - 1
      BY <3>b, Zenon
    <3>2. CASE initializeLogger(t) \/ Insert(t) \/ Release(t) \/ Write(t)
      <4>1. pc'[t] \in {"stream", "dispatch", "idle", "flushed"}
        BY <1>0, <3>2 DEF initializeLogger, Insert, Release, Write, Goto
      <4> QED
        BY <3>1, <4>1 DEF Rolls
    <3>3. CASE processDispatch(t) \/ Flush(t)
      BY <1>0, <3>1, <3>3 DEF processDispatch, Flush, Goto, Discard, Rolls
    <3> QED
      BY <1>3, <3>2, <3>3, Zenon
  <2>4. ~ (Keep - 1 < Keep - 1)
    OBVIOUS
  <2> QED
    BY <2>1, <2>2, <2>3, <2>4, Zenon DEF PlacesInv
<1>4. ASSUME NEW t \in Threads, pre_rollout_callback(t) PROVE PlacesInv'
  <2>1. /\ Rolling /\ Rolling' /\ older >= 0
        /\ disk' = Renamed(disk, older, older + 1) /\ older' = older - 1
    BY <1>4, Zenon DEF pre_rollout_callback, Rolling, Rolls, RenameOrder
  <2>2. older' + 1 = older /\ older # older + 1
    BY <1>0, <2>1
  <2>3. older \notin DOMAIN disk'
    BY <2>1, <2>2, Zenon DEF Renamed
  <2> QED
    BY <2>1, <2>2, <2>3, Zenon DEF PlacesInv
<1>5. ASSUME NEW t \in Threads, Reopen(t) PROVE PlacesInv'
  <2>1. \A u \in Threads : pc'[u] \notin Rolls
    BY <1>0, <1>5, AloneInside DEF Reopen, Goto, Rolls
  <2>2. 0 \in DOMAIN disk'
    BY <1>5, Zenon DEF Reopen, Truncated
  <2> QED
    BY <2>1, <2>2, Zenon DEF PlacesInv, Rolling
<1>6. CASE UNCHANGED vars
  BY <1>6, Zenon DEF vars, PlacesInv, Rolling
<1> QED
  BY <1>1, <1>2, <1>3, <1>4, <1>5, <1>6, Zenon DEF Next, Step

\* The files are the end of what was logged.
KeptInv == Kept(WholeLines, history, disk)

LEMMA KeptStep ==
  ASSUME LineInv, PlacesInv, KeptInv, [Next]_vars
  PROVE  KeptInv'
<1> DEFINE W == WholeLines
<1> USE DEF LineInv
<1>0. older \in -1 .. Keep - 1
  BY DEF TypeOK
<1>d. disk \in [DOMAIN disk -> Seq(W)] /\ Kept(W, history, disk)
  BY Zenon DEF LinesInv, KeptInv
<1> HIDE DEF W
<1>1. CASE Start
  <2> DEFINE o == Appended(disk)
  <2>1. o \in [DOMAIN o -> Seq(W)] /\ 0 \in DOMAIN o
    BY <1>d, TruncatedType, Zenon
  <2>2. Kept(W, history, o)
    BY <1>d, KeptReopened, Zenon DEF Appended
  <2> HIDE DEF o
  <2>3. Kept(W, SubSeq(history, 1, Len(history) - Len(o[0])), Truncated(o))
    BY <2>1, <2>2, KeptErased, Zenon
  <2>4. \/ disk' = o /\ history' = history
        \/ disk' = Truncated(o) /\ history' = SubSeq(history, 1, Len(history) - Len(o[0]))
    BY <1>1, Zenon DEF Start, o
  <2> QED
    BY <2>2, <2>3, <2>4, Zenon DEF KeptInv, W
<1>2. ASSUME NEW t \in Threads, pre_rollout_callback(t) PROVE KeptInv'
  <2>1. /\ history' = history /\ disk' = Renamed(disk, older, older + 1) /\ older >= 0
        /\ older < Keep - 1 => older + 1 \notin DOMAIN disk
    BY <1>2, Zenon DEF pre_rollout_callback, RenameOrder, PlacesInv, Rolling, Rolls
  <2>2. older \in 0 .. Keep - 1
    BY <1>0, <2>1
  <2>3. Kept(W, history, Renamed(disk, older, older + 1))
    BY <1>d, <2>1, <2>2, KeptRenamed, Zenon
  <2> QED
    BY <2>1, <2>3, Zenon DEF KeptInv, W
<1>3. ASSUME NEW t \in Threads, Reopen(t) PROVE KeptInv'
  <2>1. history' = history /\ disk' = Truncated(disk) /\ older < 0
    BY <1>3, Zenon DEF Reopen
  <2>2. older + 1 = 0 /\ older < Keep - 1
    BY <1>0, <2>1
  <2>3. 0 \notin DOMAIN disk
    BY <1>3, <2>2, Zenon DEF PlacesInv, Rolling, Rolls, Reopen
  <2>4. Kept(W, history, Truncated(disk))
    BY <1>d, <2>3, KeptReopened, Zenon
  <2> QED
    BY <2>1, <2>4, Zenon DEF KeptInv, W
<1>4. ASSUME NEW t \in Threads, Write(t) PROVE KeptInv'
  <2>1. stream \in W
    BY <1>4, StreamWhole, Zenon DEF Write, W
  <2>2. history' = Append(history, stream) /\ disk' = [disk EXCEPT ![0] = Append(@, stream)]
    BY <1>4, Zenon DEF Write
  <2>3. 0 \in DOMAIN disk
    <3>1. up /\ \A u \in Threads : pc[u] \notin Rolls
      BY <1>4, AloneInside DEF Write, Rolls
    <3> QED
      BY <3>1, Zenon DEF PlacesInv, Rolling
  <2>4. Kept(W, Append(history, stream), [disk EXCEPT ![0] = Append(@, stream)])
    BY <1>d, <2>1, <2>3, KeptWritten, Zenon
  <2> QED
    BY <2>2, <2>4, Zenon DEF KeptInv, W
<1>5. CASE UNCHANGED <<disk, history>>
  BY <1>5, Zenon DEF KeptInv
<1>6. Crash => UNCHANGED <<disk, history>>
  BY Zenon DEF Crash
<1>7. ASSUME NEW t \in Threads
      PROVE  initializeLogger(t) \/ Insert(t) \/ processDispatch(t) \/ Flush(t) \/ Release(t)
             => UNCHANGED <<disk, history>>
  BY Zenon DEF initializeLogger, Insert, processDispatch, Flush, Release, FileUnchanged
<1>8. UNCHANGED vars => UNCHANGED <<disk, history>>
  BY Zenon DEF vars
<1> QED
  BY <1>1, <1>2, <1>3, <1>4, <1>5, <1>6, <1>7, <1>8, Zenon DEF Next, Step

LEMMA SizeType ==
  ASSUME NEW file \in Seq(WholeLines)
  PROVE  Size(file) \in Nat
<1> DEFINE X == [by : Threads, nr : Nat, part : Nat]
<1>1. \A t \in Threads, nr \in 1 .. MaxLines : FirstParts(t, nr, Parts) \in Seq(X)
  BY DEF FirstParts
<1> HIDE DEF X
<1>2. WholeLines \subseteq Seq(X)
  <2> SUFFICES ASSUME NEW w \in WholeLines PROVE w \in Seq(X)
    OBVIOUS
  <2>1. \E t \in Threads, nr \in 1 .. MaxLines : w = FirstParts(t, nr, Parts)
    BY DEF WholeLines
  <2> QED
    BY <1>1, <2>1, Zenon
<1>3. Len(file) \in Nat /\ file \in [1 .. Len(file) -> Seq(X)]
  BY <1>2
<1>4. FlattenSeq(file) \in Seq(X)
  BY <1>3, FlattenType
<1> QED
  BY <1>4 DEF Size

LEMMA EmptySize == Size(<<>>) = 0
BY DEF Size, FlattenSeq

\* The log file is below its limit, but from a write to the rollout it needs.
SizeInv ==
  up /\ max_size # 0 /\ (\A t \in Threads : pc[t] \notin Rolls \union {"flushed"})
    => Size(disk[0]) < max_size

LEMMA SizeStep ==
  ASSUME LineInv, PlacesInv, SizeInv, [Next]_vars
  PROVE  SizeInv'
<1> USE DEF LineInv
<1>0. pc \in [Threads -> Places] /\ max_size \in Nat
  <2>1. max_size \in MaxSizes \union {0}
    BY Zenon DEF TypeOK
  <2>2. pc \in [Threads -> Places]
    BY Zenon DEF TypeOK
  <2> QED
    BY <2>1, <2>2
<1>d. disk \in [DOMAIN disk -> Seq(WholeLines)]
  BY DEF LinesInv
<1>1. CASE Start
  <2> DEFINE o == Appended(disk)
  <2>1. o \in [DOMAIN o -> Seq(WholeLines)] /\ 0 \in DOMAIN o
    BY <1>d, TruncatedType, Zenon
  <2>2. Truncated(o)[0] = <<>>
    BY Zenon DEF Truncated
  <2> HIDE DEF o
  <2>3. Size(o[0]) \in Nat
    BY <2>1, SizeType, Zenon
  <2>4. /\ max_size' \in Nat
        /\ \/ disk' = o /\ ~MustRoll(o[0], max_size')
           \/ disk' = Truncated(o)
    BY <1>1, Zenon DEF Start, o
  <2>5. max_size' # 0 => Size(disk'[0]) < max_size'
    <3>1. CASE disk' = o /\ ~MustRoll(o[0], max_size')
      BY <2>3, <2>4, <3>1 DEF MustRoll
    <3>2. CASE disk' = Truncated(o)
      BY <2>2, <2>4, <3>2, EmptySize
    <3> QED
      BY <2>4, <3>1, <3>2
  <2> QED
    BY <2>5, Zenon DEF SizeInv
<1>2. CASE Crash
  BY <1>2, Zenon DEF Crash, SizeInv
<1>3. ASSUME NEW t \in Threads,
             initializeLogger(t) \/ Insert(t) \/ Release(t) \/ processDispatch(t)
      PROVE  SizeInv'
  <2>1. pc[t] \notin Rolls \union {"flushed"} /\ UNCHANGED <<up, max_size, disk>>
    BY <1>3 DEF initializeLogger, Insert, Release, processDispatch, FileUnchanged, Rolls
  <2>2. \A u \in Threads : u # t => pc'[u] = pc[u]
    <3>1. \E place : pc' = [pc EXCEPT ![t] = place]
      BY <1>3, Zenon DEF initializeLogger, Insert, Release, processDispatch, Goto, Discard
    <3> QED
      BY <1>0, <3>1, Zenon
  <2>3. (\A u \in Threads : pc'[u] \notin Rolls \union {"flushed"})
          => \A u \in Threads : pc[u] \notin Rolls \union {"flushed"}
    BY <2>1, <2>2
  <2> QED
    BY <2>1, <2>3, Zenon DEF SizeInv
<1>4. ASSUME NEW t \in Threads, pre_rollout_callback(t) PROVE SizeInv'
  <2>1. pc'[t] \in Rolls
    BY <1>4 DEF pre_rollout_callback, Rolls
  <2> QED
    BY <2>1, Zenon DEF SizeInv
<1>5. ASSUME NEW t \in Threads, Reopen(t) PROVE SizeInv'
  <2>1. Size(disk'[0]) = 0 /\ max_size' \in Nat
    BY <1>0, <1>5, EmptySize, Zenon DEF Reopen, Truncated
  <2> QED
    BY <2>1 DEF SizeInv
<1>6. ASSUME NEW t \in Threads, Write(t) PROVE SizeInv'
  <2>1. pc'[t] = "flushed"
    BY <1>0, <1>6 DEF Write, Goto
  <2> QED
    BY <2>1, Zenon DEF SizeInv
<1>7. ASSUME NEW t \in Threads, Flush(t) PROVE SizeInv'
  <2>1. UNCHANGED <<up, max_size, disk>> /\ pc[t] = "flushed"
    BY <1>7, Zenon DEF Flush
  <2>2. CASE MustRoll(disk[0], max_size)
    <3>1. pc'[t] \in Rolls
      BY <1>0, <1>7, <2>2 DEF Flush, Goto, Rolls
    <3> QED
      BY <3>1, Zenon DEF SizeInv
  <2>3. CASE ~MustRoll(disk[0], max_size)
    <3>1. 0 \in DOMAIN disk
      <4>1. up /\ \A u \in Threads : pc[u] \notin Rolls
        BY <2>1, AloneInside DEF Rolls
      <4> QED
        BY <4>1, Zenon DEF PlacesInv, Rolling
    <3>2. Size(disk[0]) \in Nat
      BY <1>d, <3>1, SizeType, Zenon
    <3>3. max_size # 0 => Size(disk[0]) < max_size
      BY <1>0, <2>3, <3>2 DEF MustRoll
    <3> QED
      BY <2>1, <3>3, Zenon DEF SizeInv
  <2> QED
    BY <2>2, <2>3
<1>8. CASE UNCHANGED vars
  BY <1>8, Zenon DEF vars, SizeInv
<1> QED
  BY <1>1, <1>2, <1>3, <1>4, <1>5, <1>6, <1>7, <1>8, Zenon DEF Next, Step

RotationInv == LineInv /\ PlacesInv /\ KeptInv /\ SizeInv

LEMMA InitRotation == Init => PlacesInv /\ KeptInv /\ SizeInv
<1> SUFFICES ASSUME Init PROVE PlacesInv /\ KeptInv /\ SizeInv
  OBVIOUS
<1>1. PlacesInv /\ SizeInv
  BY DEF Init, PlacesInv, SizeInv, Rolling, Rolls
\* No file holds a line: they are rows of sequences over the empty set.
<1>2. FlattenSeq(Row(disk)) = <<>>
  <2>1. disk \in [DOMAIN disk -> Seq({})]
    BY DEF Init
  <2>2. FlattenSeq(Row(disk)) \in Seq({})
    BY <2>1, OnDiskType, Zenon
  <2>3. \A x \in Seq({}) : x = <<>>
    OBVIOUS
  <2> QED
    BY <2>2, <2>3, Zenon
<1>3. <<>> \in Seq(WholeLines) /\ <<>> \o <<>> = <<>>
  OBVIOUS
<1>4. history = <<>>
  BY DEF Init
<1>5. KeptInv
  BY <1>2, <1>3, <1>4, Zenon DEF KeptInv, Kept
<1> QED
  BY <1>1, <1>5

(* The files, read from the oldest to the newest, are the last lines that  *)
(* were logged, in order and without a gap: in the middle of a rollout,    *)
(* after a crash in one, with any number of files kept, and when a file in *)
(* the row is missing.  Lines are missing only once the last place of the  *)
(* row is taken, and between statements the log file is below its limit.   *)
THEOREM RotationKeepsLog == Spec => []LogRotated
<1>1. Init => RotationInv
  <2>1. Init => LineInv
    BY InitLine
  <2> QED
    BY <2>1, InitRotation DEF RotationInv
<1>2. RotationInv /\ [Next]_vars => RotationInv'
  BY LineStep, PlacesStep, KeptStep, SizeStep, Zenon DEF RotationInv
<1>3. RotationInv => LogRotated
  <2> SUFFICES ASSUME RotationInv PROVE LogRotated
    OBVIOUS
  <2>0. LineInv /\ disk \in [DOMAIN disk -> Seq(WholeLines)]
    BY Zenon DEF RotationInv, LineInv, LinesInv
  <2>1. OnDisk = FlattenSeq(Row(disk))
    BY Zenon DEF OnDisk, Row
  <2>2. OnDisk \in Seq(WholeLines)
    BY <2>0, <2>1, OnDiskType, Zenon
  <2>3. PICK p \in Seq(WholeLines) : history = p \o OnDisk /\ (p # <<>> => Keep \in DOMAIN disk)
    BY <2>1, Zenon DEF RotationInv, KeptInv, Kept
  <2>4. IsSuffix(OnDisk, history)
    BY <2>2, <2>3, ConcatSuffix, Zenon
  <2>5. OnDisk # history => Keep \in DOMAIN disk
    <3>1. <<>> \o OnDisk = OnDisk
      BY <2>2, ConcatEmptySeq
    <3> QED
      BY <2>3, <3>1, Zenon
  <2>6. up /\ lock = Nobody /\ max_size # 0 => Size(disk[0]) < max_size
    <3>1. lock = Nobody => \A t \in Threads : pc[t] = "idle"
      BY <2>0 DEF LineInv, LockInv
    <3>2. "idle" \notin Rolls \union {"flushed"}
      BY DEF Rolls
    <3> QED
      BY <3>1, <3>2, Zenon DEF RotationInv, SizeInv
  <2> QED
    BY <2>4, <2>5, <2>6, Zenon DEF LogRotated
<1> QED
  BY <1>1, <1>2, <1>3, PTL DEF Spec

=============================================================================
