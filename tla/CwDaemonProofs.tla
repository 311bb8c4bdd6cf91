--------------------------- MODULE CwDaemonProofs ---------------------------
(***************************************************************************)
(* Proofs about the cwdaemon server: the bytes it feeds to the keyer are    *)
(* whole commands and text, the key is down only for a reason, text is      *)
(* keyed in order, tunes end, elements and spaces keep their lengths, and   *)
(* the cap on the turns of update() is not reached.                         *)
(***************************************************************************)
EXTENDS CwDaemon, SequenceLemmas

-----------------------------------------------------------------------------
(* The bytes of a stream, read from the left.                               *)

\* The parameters still expected after one more byte.
SkipAfter(k, c) ==
  IF k > 0 THEN k - 1
  ELSE IF is_winkeyer_command(c) THEN winkey_commands_parameter_count[c] ELSE 0

\* p[i] parameters are expected after the first i bytes of s, k before them.
Phases(s, k, p) ==
  /\ p \in [0 .. Len(s) -> Nat] /\ p[0] = k
  /\ \A i \in 1 .. Len(s) : p[i] = SkipAfter(p[i - 1], s[i])

\* Where a command may stand there is a buffered speed change or text.
Lawful(s, p) == \A i \in 1 .. Len(s) : p[i - 1] = 0 => s[i] = 28 \/ s[i] \in 32 .. 255

\* Text and speed changes, after k parameters of a command before, and l
\* parameters of the last command to come.
Stream(s, k, l) ==
  s \in Seq(Byte) /\ \E p : Phases(s, k, p) /\ Lawful(s, p) /\ p[Len(s)] = l

\* Text and complete speed changes, after k parameters of a command before.
PlainFrom(s, k) == Stream(s, k, 0)

Plain(s) == PlainFrom(s, 0)

LEMMA SkipType ==
  ASSUME NEW k \in Nat, NEW c \in Byte
  PROVE  /\ SkipAfter(k, c) \in Nat
         /\ k > 0 => SkipAfter(k, c) = k - 1
         /\ k = 0 /\ c = 28 => SkipAfter(k, c) = 1
         /\ k = 0 /\ c \in 32 .. 255 => SkipAfter(k, c) = 0
BY DEF SkipAfter, is_winkeyer_command, winkey_commands_parameter_count, Byte

LEMMA PlainEmpty == Plain(<<>>)
<1> DEFINE p == [i \in 0 .. 0 |-> 0]
<1>1. Phases(<<>>, 0, p) /\ Lawful(<<>>, p) /\ p[Len(<<>>)] = 0
  BY DEF Phases, Lawful
<1>2. <<>> \in Seq(Byte)
  OBVIOUS
<1> QED
  BY <1>1, <1>2 DEF Plain, PlainFrom, Stream

LEMMA PlainCharacter ==
  ASSUME NEW c \in 32 .. 255
  PROVE  Plain(<<c>>)
<1> DEFINE p == [i \in 0 .. 1 |-> 0]
           s == <<c>>
<1>0. c \in Byte /\ s \in Seq(Byte) /\ Len(s) = 1 /\ s[1] = c
  BY DEF Byte
<1>1. SkipAfter(0, c) = 0
  BY <1>0, SkipType
<1>2. Phases(s, 0, p) /\ Lawful(s, p) /\ p[Len(s)] = 0
  BY <1>0, <1>1 DEF Phases, Lawful
<1> HIDE DEF s, p
<1>3. Plain(s)
  BY <1>0, <1>2 DEF Plain, PlainFrom, Stream
<1> QED
  BY <1>3 DEF s

LEMMA PlainSpeed ==
  ASSUME NEW n \in Byte
  PROVE  Plain(<<28, n>>)
<1> DEFINE p == [i \in 0 .. 2 |-> IF i = 1 THEN 1 ELSE 0]
           s == <<28, n>>
<1>0. 28 \in Byte /\ s \in Seq(Byte) /\ Len(s) = 2 /\ s[1] = 28 /\ s[2] = n
  BY DEF Byte
<1>1. SkipAfter(0, 28) = 1 /\ SkipAfter(1, n) = 0
  BY <1>0, SkipType
<1>2. Phases(s, 0, p) /\ Lawful(s, p) /\ p[Len(s)] = 0
  BY <1>0, <1>1 DEF Phases, Lawful
<1> HIDE DEF s, p
<1>3. Plain(s)
  BY <1>0, <1>2 DEF Plain, PlainFrom, Stream
<1> QED
  BY <1>3 DEF s

\* w is p and, from its end on, q.
Continued(s, t, p, q, w) ==
  /\ \A i \in 0 .. Len(s) : w[i] = p[i]
  /\ \A i \in 0 .. Len(t) : w[Len(s) + i] = q[i]

\* What is read of a concatenation.
LEMMA PhasesConcat ==
  ASSUME NEW s \in Seq(Byte), NEW t \in Seq(Byte), NEW k \in Nat,
         NEW p, Phases(s, k, p), NEW q, Phases(t, p[Len(s)], q)
  PROVE  \E w : Phases(s \o t, k, w) /\ Continued(s, t, p, q, w)
<1> DEFINE u == s \o t
           w == [i \in 0 .. Len(u) |-> IF i <= Len(s) THEN p[i] ELSE q[i - Len(s)]]
<1>1. /\ Len(s) \in Nat /\ Len(t) \in Nat /\ Len(u) = Len(s) + Len(t)
      /\ \A i \in 1 .. Len(s) : u[i] = s[i]
      /\ \A i \in 1 .. Len(t) : u[Len(s) + i] = t[i]
  BY ConcatProperties
<1>2. /\ p \in [0 .. Len(s) -> Nat] /\ q \in [0 .. Len(t) -> Nat] /\ p[0] = k
      /\ q[0] = p[Len(s)]
      /\ \A i \in 1 .. Len(s) : p[i] = SkipAfter(p[i - 1], s[i])
      /\ \A i \in 1 .. Len(t) : q[i] = SkipAfter(q[i - 1], t[i])
  BY DEF Phases
<1> HIDE DEF u
<1>3. /\ w \in [0 .. Len(u) -> Nat] /\ w[0] = k
      /\ \A i \in 0 .. Len(s) : w[i] = p[i]
      /\ \A i \in 0 .. Len(t) : w[Len(s) + i] = q[i]
  BY <1>1, <1>2
<1> HIDE DEF w
<1>4. ASSUME NEW i \in 1 .. Len(u) PROVE w[i] = SkipAfter(w[i - 1], u[i])
  <2>1. CASE i <= Len(s)
    <3>1. i \in 1 .. Len(s) /\ i \in 0 .. Len(s) /\ i - 1 \in 0 .. Len(s)
      BY <1>1, <2>1
    <3>2. w[i] = p[i] /\ w[i - 1] = p[i - 1] /\ u[i] = s[i]
      BY <1>1, <1>3, <3>1, Zenon
    <3>3. p[i] = SkipAfter(p[i - 1], s[i])
      BY <1>2, <3>1, Zenon
    <3> QED
      BY <3>2, <3>3, Zenon
  <2>2. CASE i > Len(s)
    <3> DEFINE j == i - Len(s)
    <3>1. j \in 1 .. Len(t) /\ i = Len(s) + j /\ j - 1 \in 0 .. Len(t) /\ i - 1 = Len(s) + (j - 1)
      BY <1>1, <2>2
    <3> HIDE DEF j
    <3>a. j \in 0 .. Len(t)
      BY <1>1, <3>1
    <3>2. w[i] = q[j] /\ w[i - 1] = q[j - 1] /\ u[i] = t[j]
      BY <1>1, <1>3, <3>1, <3>a, Zenon
    <3>3. q[j] = SkipAfter(q[j - 1], t[j])
      BY <1>2, <3>1, Zenon
    <3> QED
      BY <3>2, <3>3, Zenon
  <2> QED
    BY <1>1, <2>1, <2>2
<1>5. Phases(u, k, w)
  BY <1>3, <1>4 DEF Phases
<1> QED
  BY <1>3, <1>5 DEF u, Continued

LEMMA StreamConcat ==
  ASSUME NEW k \in Nat, NEW l \in Nat, NEW m \in Nat,
         NEW s, NEW t, Stream(s, k, l), Stream(t, l, m)
  PROVE  Stream(s \o t, k, m)
<1>1. s \in Seq(Byte) /\ t \in Seq(Byte)
  BY DEF Stream
<1>2. PICK p : Phases(s, k, p) /\ Lawful(s, p) /\ p[Len(s)] = l
  BY DEF Stream
<1>3. PICK q : Phases(t, l, q) /\ Lawful(t, q) /\ q[Len(t)] = m
  BY DEF Stream
<1>31. Phases(t, p[Len(s)], q)
  BY <1>2, <1>3, Zenon
<1>40. PICK w : Phases(s \o t, k, w) /\ Continued(s, t, p, q, w)
  BY <1>1, <1>2, <1>31, PhasesConcat, Zenon
<1>4. /\ Phases(s \o t, k, w)
      /\ \A i \in 0 .. Len(s) : w[i] = p[i]
      /\ \A i \in 0 .. Len(t) : w[Len(s) + i] = q[i]
  BY <1>40, Zenon DEF Continued
<1> DEFINE u == s \o t
<1>5. /\ u \in Seq(Byte) /\ Len(s) \in Nat /\ Len(t) \in Nat /\ Len(u) = Len(s) + Len(t)
      /\ \A i \in 1 .. Len(s) : u[i] = s[i]
      /\ \A i \in 1 .. Len(t) : u[Len(s) + i] = t[i]
  BY <1>1, ConcatProperties
<1> HIDE DEF u
<1>6. ASSUME NEW i \in 1 .. Len(u), w[i - 1] = 0 PROVE u[i] = 28 \/ u[i] \in 32 .. 255
  <2>1. CASE i <= Len(s)
    <3>1. i \in 1 .. Len(s) /\ i - 1 \in 0 .. Len(s)
      BY <1>5, <2>1
    <3>2. p[i - 1] = 0 /\ u[i] = s[i]
      BY <1>4, <1>5, <1>6, <3>1, Zenon
    <3> QED
      BY <1>2, <3>1, <3>2, Zenon DEF Lawful
  <2>2. CASE i > Len(s)
    <3> DEFINE j == i - Len(s)
    <3>1. j \in 1 .. Len(t) /\ i = Len(s) + j /\ j - 1 \in 0 .. Len(t) /\ i - 1 = Len(s) + (j - 1)
      BY <1>5, <2>2
    <3>2. q[j - 1] = 0 /\ u[i] = t[j]
      BY <1>4, <1>5, <1>6, <3>1
    <3>3. q[j - 1] = 0 => t[j] = 28 \/ t[j] \in 32 .. 255
      BY <1>3, <3>1 DEF Lawful
    <3> QED
      BY <3>2, <3>3, Zenon
  <2> QED
    BY <1>5, <2>1, <2>2
<1>7. w[Len(u)] = m
  BY <1>3, <1>4, <1>5
<1> QED
  BY <1>4, <1>5, <1>6, <1>7 DEF Stream, Lawful, u

LEMMA PlainConcat ==
  ASSUME NEW k \in Nat, NEW s, NEW t, PlainFrom(s, k), Plain(t)
  PROVE  PlainFrom(s \o t, k)
<1>1. 0 \in Nat
  OBVIOUS
<1> QED
  BY <1>1, StreamConcat, Zenon DEF Plain, PlainFrom

\* The first byte is taken off.
LEMMA StreamTail ==
  ASSUME NEW k \in Nat, NEW l \in Nat, NEW s, Stream(s, k, l), s # <<>>
  PROVE  /\ Head(s) \in Byte /\ Tail(s) \in Seq(Byte)
         /\ Stream(Tail(s), SkipAfter(k, Head(s)), l)
         /\ k = 0 => Head(s) = 28 \/ Head(s) \in 32 .. 255
<1>1. s \in Seq(Byte) /\ Len(s) \in Nat \ {0}
  BY DEF Stream
<1>2. PICK p : Phases(s, k, p) /\ Lawful(s, p) /\ p[Len(s)] = l
  BY DEF Stream
<1> DEFINE t == Tail(s)
           q == [i \in 0 .. Len(t) |-> p[i + 1]]
<1>3. /\ Head(s) = s[1] /\ s[1] \in Byte /\ t \in Seq(Byte) /\ Len(t) = Len(s) - 1
      /\ \A i \in 1 .. Len(t) : t[i] = s[i + 1]
  BY <1>1
<1> HIDE DEF t
<1>4. p[1] = SkipAfter(k, s[1]) /\ p \in [0 .. Len(s) -> Nat] /\ p[0] = k
  BY <1>1, <1>2 DEF Phases
<1>5. q \in [0 .. Len(t) -> Nat] /\ q[0] = p[1] /\ q[Len(t)] = l
  BY <1>1, <1>2, <1>3, <1>4
<1>6. \A i \in 1 .. Len(t) : q[i] = SkipAfter(q[i - 1], t[i])
  <2> TAKE i \in 1 .. Len(t)
  <2>1. i + 1 \in 1 .. Len(s) /\ (i + 1) - 1 = i /\ q[i] = p[i + 1] /\ q[i - 1] = p[i]
    BY <1>1, <1>3
  <2> QED
    BY <1>2, <1>3, <2>1 DEF Phases
<1>7. \A i \in 1 .. Len(t) : q[i - 1] = 0 => t[i] = 28 \/ t[i] \in 32 .. 255
  <2> TAKE i \in 1 .. Len(t)
  <2>1. i + 1 \in 1 .. Len(s) /\ (i + 1) - 1 = i /\ q[i - 1] = p[i]
    BY <1>1, <1>3
  <2>2. p[(i + 1) - 1] = 0 => s[i + 1] = 28 \/ s[i + 1] \in 32 .. 255
    BY <1>2, <2>1, Zenon DEF Lawful
  <2>3. t[i] = s[i + 1]
    BY <1>3
  <2> QED
    BY <2>1, <2>2, <2>3, Zenon
<1> HIDE DEF q
<1>8. Stream(t, p[1], l)
  BY <1>3, <1>5, <1>6, <1>7 DEF Stream, Phases, Lawful
<1>9. k = 0 => s[1] = 28 \/ s[1] \in 32 .. 255
  BY <1>1, <1>2, <1>4 DEF Lawful
<1> QED
  BY <1>3, <1>4, <1>8, <1>9 DEF t

LEMMA PlainTail ==
  ASSUME NEW k \in Nat, NEW s, PlainFrom(s, k), s # <<>>
  PROVE  /\ Head(s) \in Byte /\ Tail(s) \in Seq(Byte)
         /\ PlainFrom(Tail(s), SkipAfter(k, Head(s)))
         /\ k = 0 => Head(s) = 28 \/ Head(s) \in 32 .. 255
<1>1. 0 \in Nat
  OBVIOUS
<1> QED
  BY <1>1, StreamTail, Zenon DEF PlainFrom

-----------------------------------------------------------------------------
(* to_winkeyer: its bytes are plain text, or one immediate command.          *)

ScanStart(initial) ==
  [out |-> <<>>, speed |-> initial, run |-> 0, gap |-> FALSE, ended |-> FALSE]

\* f[i] is what TextBytes has read after i of the first n characters.
Scanned(chars, initial, n, f) ==
  /\ f = [i \in 0 .. n |-> f[i]] /\ f[0] = ScanStart(initial)
  /\ \A i \in 1 .. n : f[i] = ScanByte(f[i - 1], chars[i], initial)

LEMMA ScanExists ==
  ASSUME NEW n \in Nat, NEW chars, NEW initial
  PROVE  \E f : Scanned(chars, initial, n, f)
<1> DEFINE T == {m \in Nat : \E f : Scanned(chars, initial, m, f)}
<1>1. 0 \in T
  <2> DEFINE f == [i \in 0 .. 0 |-> ScanStart(initial)]
  <2>1. f = [i \in 0 .. 0 |-> f[i]] /\ f[0] = ScanStart(initial) /\ 1 .. 0 = {}
    OBVIOUS
  <2> HIDE DEF f
  <2>2. Scanned(chars, initial, 0, f)
    BY <2>1, Zenon DEF Scanned
  <2> QED
    BY <2>2
<1>2. ASSUME NEW m \in Nat, m \in T PROVE m + 1 \in T
  <2>1. PICK f : Scanned(chars, initial, m, f)
    BY <1>2
  <2> HIDE DEF T
  <2> DEFINE g == [i \in 0 .. m + 1 |->
                     IF i <= m THEN f[i] ELSE ScanByte(f[m], chars[m + 1], initial)]
  <2>2. /\ g = [i \in 0 .. m + 1 |-> g[i]] /\ \A i \in 0 .. m : g[i] = f[i]
        /\ g[m + 1] = ScanByte(f[m], chars[m + 1], initial)
    OBVIOUS
  <2> HIDE DEF g
  <2>3. g[0] = ScanStart(initial)
    BY <2>1, <2>2 DEF Scanned
  <2>4. ASSUME NEW i \in 1 .. m + 1 PROVE g[i] = ScanByte(g[i - 1], chars[i], initial)
    <3>1. CASE i \in 1 .. m
      <4>1. i \in 0 .. m /\ i - 1 \in 0 .. m
        BY <3>1
      <4>2. g[i] = f[i] /\ g[i - 1] = f[i - 1] /\ f[i] = ScanByte(f[i - 1], chars[i], initial)
        BY <2>1, <2>2, <3>1, <4>1, Zenon DEF Scanned
      <4> QED
        BY <4>2, Zenon
    <3>2. CASE i = m + 1
      <4>1. i - 1 = m /\ m \in 0 .. m
        BY <3>2
      <4>2. g[i - 1] = f[m]
        BY <2>2, <4>1, Zenon
      <4> QED
        BY <2>2, <3>2, <4>2, Zenon
    <3>3. i \in 1 .. m \/ i = m + 1
      OBVIOUS
    <3> QED
      BY <3>1, <3>2, <3>3, Zenon
  <2>5. Scanned(chars, initial, m + 1, g)
    BY <2>2, <2>3, <2>4, Zenon DEF Scanned
  <2>6. m + 1 \in Nat
    OBVIOUS
  <2> QED
    BY <2>5, <2>6, Zenon DEF T
<1> HIDE DEF T
<1>3. n \in T
  BY <1>1, <1>2, NatInduct
<1> QED
  BY <1>3 DEF T

\* What TextBytes computes.
LEMMA TextBytesScan ==
  ASSUME NEW chars \in Seq(Byte), NEW initial
  PROVE  \E f : /\ Scanned(chars, initial, Len(chars), f)
                /\ TextBytes(chars, initial)
                     = f[Len(chars)].out \o Restore(f[Len(chars)], initial)
<1> DEFINE n == Len(chars)
           D(f) == [i \in 0 .. n |-> IF i = 0 THEN ScanStart(initial)
                                     ELSE ScanByte(f[i - 1], chars[i], initial)]
           h == CHOOSE f : f = D(f)
<1>0. n \in Nat
  OBVIOUS
<1>1. PICK g : Scanned(chars, initial, n, g)
  BY <1>0, ScanExists, Zenon
<1>2. g = D(g)
  <2>1. ASSUME NEW i \in 0 .. n PROVE g[i] = D(g)[i]
    <3>1. CASE i = 0
      BY <1>1, <3>1 DEF Scanned
    <3>2. CASE i # 0
      <4>1. i \in 1 .. n
        BY <3>2
      <4>2. g[i] = ScanByte(g[i - 1], chars[i], initial)
        BY <1>1, <4>1, Zenon DEF Scanned
      <4> QED
        BY <3>2, <4>2
    <3> QED
      BY <3>1, <3>2
  <2>2. g = [i \in 0 .. n |-> g[i]]
    BY <1>1, Zenon DEF Scanned
  <2> QED
    BY <2>1, <2>2
<1>3. h = D(h)
  BY <1>2, Zenon
<1>4. TextBytes(chars, initial) = h[n].out \o Restore(h[n], initial)
  BY Zenon DEF TextBytes, ScanStart
<1> HIDE DEF h
<1>5. Scanned(chars, initial, n, h)
  <2>1. \A i \in 0 .. n : h[i] = IF i = 0 THEN ScanStart(initial)
                                 ELSE ScanByte(h[i - 1], chars[i], initial)
    BY <1>3
  <2>2. h = [i \in 0 .. n |-> h[i]]
    BY <1>3
  <2>3. h[0] = ScanStart(initial)
    BY <1>0, <2>1
  <2>4. \A i \in 1 .. n : h[i] = ScanByte(h[i - 1], chars[i], initial)
    BY <1>0, <2>1
  <2> QED
    BY <2>2, <2>3, <2>4, Zenon DEF Scanned
<1> QED
  BY <1>4, <1>5, Zenon

Scans == [out : Seq(Byte), speed : Byte, run : {0, Plus, Minus}, gap : BOOLEAN,
          ended : BOOLEAN]

\* A run of signs has its speed change at the end.
ScanOK(a) ==
  /\ a \in Scans /\ Plain(a.out)
  /\ a.run # 0 => \E u : Plain(u) /\ a.out = u \o <<BufferedSpeed, a.speed>>

LEMMA ByteRemainder ==
  ASSUME NEW n \in Int
  PROVE  n % 256 \in Byte
BY DEF Byte

LEMMA ByteConcat ==
  ASSUME NEW s \in Seq(Byte), NEW t \in Seq(Byte)
  PROVE  s \o t \in Seq(Byte) /\ Joins(s, t, s \o t)
BY Joining

LEMMA PlainBars == Plain(<<Bar, Bar, Bar, Bar>>)
<1> DEFINE s == <<Bar, Bar, Bar, Bar>>
           p == [i \in 0 .. 4 |-> 0]
<1>1. /\ Bar \in Byte /\ Bar \in 32 .. 255 /\ s \in Seq(Byte) /\ Len(s) = 4
      /\ \A i \in 1 .. 4 : s[i] = Bar
  BY DEF Bar, Byte
<1> HIDE DEF s
<1>2. SkipAfter(0, Bar) = 0
  BY <1>1, SkipType
<1>p. p \in [0 .. 4 -> Nat] /\ \A i \in 0 .. 4 : p[i] = 0
  OBVIOUS
<1> HIDE DEF p
<1>q. ASSUME NEW i \in 1 .. 4
      PROVE  p[i] = SkipAfter(p[i - 1], s[i]) /\ s[i] \in 32 .. 255
  <2>1. i \in 0 .. 4 /\ i - 1 \in 0 .. 4
    OBVIOUS
  <2>2. p[i] = 0 /\ p[i - 1] = 0 /\ s[i] = Bar
    BY <1>1, <1>p, <2>1, Zenon
  <2> QED
    BY <1>1, <1>2, <2>2, Zenon
<1>3. Phases(s, 0, p) /\ Lawful(s, p) /\ p[Len(s)] = 0
  BY <1>1, <1>p, <1>q DEF Phases, Lawful
<1>4. Plain(s)
  BY <1>1, <1>3, Zenon DEF Plain, PlainFrom, Stream
<1> QED
  BY <1>4 DEF s

LEMMA ScanStep ==
  ASSUME NEW a, ScanOK(a), NEW c \in Byte, NEW initial \in Byte
  PROVE  ScanOK(ScanByte(a, c, initial))
<1> DEFINE b == ScanByte(a, c, initial)
<1> SUFFICES ScanOK(b)
  OBVIOUS
<1>0. a \in Scans /\ Plain(a.out)
  BY DEF ScanOK
<1>1. CASE a.ended \/ c \notin 1 .. 127
  <2>1. b = [a EXCEPT !.ended = TRUE]
    BY <1>1, Zenon DEF ScanByte
  <2> HIDE DEF b
  <2>2. b \in Scans /\ b.out = a.out /\ b.run = a.run /\ b.speed = a.speed
    BY <1>0, <2>1 DEF Scans
  <2> QED
    BY <2>2, Zenon DEF ScanOK
<1>2. CASE ~a.ended /\ c \in 1 .. 127 /\ c \in {Plus, Minus}
  <2> DEFINE speed == SpeedAfter(a, c, initial)
  <2>1. speed \in Byte
    <3>0. a.speed \in Byte
      BY <1>0 DEF Scans
    <3>1. a.speed \in Int
      BY <3>0 DEF Byte
    <3>2. a.speed + 2 \in Int /\ a.speed + -2 \in Int
      BY <3>1
    <3> QED
      BY <3>2, ByteRemainder DEF SpeedAfter
  <2> HIDE DEF speed
  <2>2. b = [a EXCEPT !.speed = speed, !.run = c,
               !.out = IF a.run = c THEN [@ EXCEPT ![Len(@)] = speed]
                                    ELSE @ \o <<BufferedSpeed, speed>>]
    BY <1>2 DEF ScanByte, speed
  <2> HIDE DEF b
  <2>3. b.speed = speed /\ b.run = c /\ b.gap = a.gap /\ b.ended = a.ended
    BY <1>0, <2>2 DEF Scans
  <2>4. \E u : Plain(u) /\ b.out = u \o <<BufferedSpeed, speed>>
    <3>1. CASE a.run = c
      <4>0. a.run # 0
        BY <1>2, <3>1 DEF Plus, Minus
      <4>1. PICK u : Plain(u) /\ a.out = u \o <<BufferedSpeed, a.speed>>
        BY <4>0, Zenon DEF ScanOK
      <4>2. b.out = WithLast(a.out, speed)
        BY <1>0, <2>2, <3>1 DEF Scans, WithLast
      <4>3. u \in Seq(Byte) /\ a.speed \in Byte
        BY <1>0, <4>1 DEF Plain, PlainFrom, Stream, Scans
      <4>4. WithLast(a.out, speed) = u \o <<BufferedSpeed, speed>>
        <5>1. BufferedSpeed \in Byte
          BY DEF BufferedSpeed, Byte
        <5>2. Replaced(u, BufferedSpeed, a.speed, speed)
          BY <2>1, <4>3, <5>1, ReplaceLast, Zenon
        <5> QED
          BY <4>1, <5>2, Zenon DEF Replaced
      <4> QED
        BY <4>1, <4>2, <4>4, Zenon
    <3>2. CASE a.run # c
      <4>1. b.out = a.out \o <<BufferedSpeed, speed>>
        BY <1>0, <2>2, <3>2 DEF Scans
      <4> QED
        BY <1>0, <4>1
    <3> QED
      BY <3>1, <3>2
  <2>5. Plain(b.out)
    <3>1. PICK u : Plain(u) /\ b.out = u \o <<BufferedSpeed, speed>>
      BY <2>4
    <3>2. Plain(<<BufferedSpeed, speed>>)
      BY <2>1, PlainSpeed DEF BufferedSpeed
    <3> QED
      BY <3>1, <3>2, PlainConcat DEF Plain
  <2>6. b.out \in Seq(Byte)
    BY <2>5 DEF Plain, PlainFrom, Stream
  <2>7. b = [out |-> b.out, speed |-> b.speed, run |-> b.run, gap |-> b.gap, ended |-> b.ended]
    BY <1>0, <2>2 DEF Scans
  <2>8. b \in Scans
    BY <1>0, <1>2, <2>1, <2>3, <2>6, <2>7 DEF Scans
  <2> QED
    BY <2>3, <2>4, <2>5, <2>8, Zenon DEF ScanOK
<1>3. CASE ~a.ended /\ c \in 1 .. 127 /\ c \notin {Plus, Minus} /\ (c = Tilde \/ c < 32)
  <2>1. b.out = a.out /\ b.run = 0 /\ b \in Scans
    BY <1>0, <1>3 DEF ScanByte, Scans
  <2> HIDE DEF b
  <2> QED
    BY <1>0, <2>1, Zenon DEF ScanOK
<1>4. CASE ~a.ended /\ c \in 1 .. 127 /\ c \notin {Plus, Minus} /\ c # Tilde /\ c >= 32
  <2> DEFINE x == <<toupper(c)>>
             y == IF a.gap THEN <<Bar, Bar, Bar, Bar>> ELSE <<>>
  <2>1. b = [a EXCEPT !.gap = FALSE, !.run = 0, !.out = @ \o x \o y]
    BY <1>4 DEF ScanByte
  <2>2. Plain(x)
    <3>1. toupper(c) \in 32 .. 255
      BY <1>4 DEF toupper
    <3> QED
      BY <3>1, PlainCharacter
  <2>3. Plain(y)
    <3>1. Plain(<<Bar, Bar, Bar, Bar>>)
      BY PlainBars, Zenon
    <3> QED
      BY <3>1, PlainEmpty, Zenon
  <2> HIDE DEF x, y, b
  <2>4. Plain(a.out \o x \o y)
    BY <1>0, <2>2, <2>3, PlainConcat, Zenon DEF Plain
  <2>5. a.out \o x \o y \in Seq(Byte)
    BY <2>4, Zenon DEF Plain, PlainFrom, Stream
  <2>6. b \in Scans /\ b.run = 0 /\ b.out = a.out \o x \o y
    BY <1>0, <2>1, <2>5 DEF Scans
  <2> QED
    BY <2>4, <2>6, Zenon DEF ScanOK
<1>5. \/ a.ended \/ c \notin 1 .. 127
      \/ ~a.ended /\ c \in 1 .. 127 /\ c \in {Plus, Minus}
      \/ ~a.ended /\ c \in 1 .. 127 /\ c \notin {Plus, Minus} /\ (c = Tilde \/ c < 32)
      \/ ~a.ended /\ c \in 1 .. 127 /\ c \notin {Plus, Minus} /\ c # Tilde /\ c >= 32
  BY DEF Byte
<1> QED
  BY <1>1, <1>2, <1>3, <1>4, <1>5, Zenon

LEMMA TextPlain ==
  ASSUME NEW chars \in Seq(Byte), NEW initial \in Byte
  PROVE  Plain(TextBytes(chars, initial))
<1>1. PICK f : /\ Scanned(chars, initial, Len(chars), f)
               /\ TextBytes(chars, initial)
                    = f[Len(chars)].out \o Restore(f[Len(chars)], initial)
  BY TextBytesScan
<1> DEFINE n == Len(chars)
           T == {m \in Nat : m <= n => ScanOK(f[m])}
<1>0. n \in Nat
  OBVIOUS
<1>2. 0 \in T
  <2>1. f[0] = ScanStart(initial)
    BY <1>1, Zenon DEF Scanned
  <2>2. ScanStart(initial) \in Scans /\ ScanStart(initial).out = <<>>
        /\ ScanStart(initial).run = 0
    BY DEF ScanStart, Scans
  <2>3. ScanOK(ScanStart(initial))
    BY <2>2, PlainEmpty, Zenon DEF ScanOK
  <2> QED
    BY <2>1, <2>3
<1>3. ASSUME NEW m \in Nat, m \in T PROVE m + 1 \in T
  <2> SUFFICES ASSUME m + 1 <= n PROVE ScanOK(f[m + 1])
    OBVIOUS
  <2>1. m <= n /\ m + 1 \in 1 .. n /\ (m + 1) - 1 = m /\ chars[m + 1] \in Byte
    BY <1>0
  <2>2. ScanOK(f[m])
    BY <1>3, <2>1
  <2>3. f[m + 1] = ScanByte(f[m], chars[m + 1], initial)
    <3>1. f[m + 1] = ScanByte(f[(m + 1) - 1], chars[m + 1], initial)
      BY <1>1, <2>1, Zenon DEF Scanned
    <3> QED
      BY <2>1, <3>1, Zenon
  <2> QED
    BY <2>1, <2>2, <2>3, ScanStep, Zenon
<1> HIDE DEF T
<1>4. n \in T
  BY <1>0, <1>2, <1>3, NatInduct
<1>5. ScanOK(f[n])
  BY <1>0, <1>4 DEF T
<1>6. Plain(f[n].out) /\ f[n].speed \in Byte
  BY <1>5 DEF ScanOK, Scans
<1>7. Plain(Restore(f[n], initial))
  BY PlainEmpty, PlainSpeed, Zenon DEF Restore, BufferedSpeed
<1> QED
  BY <1>1, <1>6, <1>7, PlainConcat, Zenon DEF Plain

\* A command that takes effect at once: a speed, a weight, an abort.
Immediate(s) == s = <<10>> \/ \E n \in Byte : s = <<2, n>> \/ s = <<3, n>>

MessageOK(msg) == IF msg.kind = "text" THEN msg.chars \in Seq(Byte) ELSE msg.arg \in Int

LEMMA PlainNoTune ==
  ASSUME NEW s, Plain(s)
  PROVE  ~is_tuning_command(s) /\ ~Immediate(s)
<1>1. CASE s = <<>>
  BY <1>1 DEF is_tuning_command, Immediate
<1>2. CASE s # <<>>
  <2>1. Head(s) = 28 \/ Head(s) \in 32 .. 255
    BY <1>2, PlainTail, Zenon DEF Plain
  <2>2. s \in Seq(Byte) /\ Head(s) = s[1]
    BY <1>2 DEF Plain, PlainFrom, Stream
  <2>4. \A h : h = 28 \/ h \in 32 .. 255 => h # 11 /\ h # 10 /\ h # 2 /\ h # 3
    OBVIOUS
  <2>3. s[1] # 11 /\ s[1] # 10 /\ s[1] # 2 /\ s[1] # 3
    BY <2>1, <2>2, <2>4, Zenon
  <2> QED
    BY <2>3 DEF is_tuning_command, Immediate
<1> QED
  BY <1>1, <1>2

\* What a message is translated to.
Translated(s) ==
  \/ (Plain(s) \/ Immediate(s)) /\ ~is_tuning_command(s)
  \/ is_tuning_command(s) /\ \E n \in Byte : s = <<11, 1, n>>

LEMMA Translation ==
  ASSUME NEW msg, MessageOK(msg), NEW initial \in Byte
  PROVE  Translated(to_winkeyer(msg, initial))
<1> DEFINE s == to_winkeyer(msg, initial)
<1> SUFFICES Translated(s)
  OBVIOUS
<1> USE DEF Translated
<1>0. initial \in Int
  BY DEF Byte
<1>1. CASE msg.kind = "text"
  <2>1. s = TextBytes(msg.chars, initial)
    BY <1>1 DEF to_winkeyer
  <2> HIDE DEF s
  <2> QED
    BY <1>1, <2>1, TextPlain, PlainNoTune, Zenon DEF MessageOK
<1>2. CASE msg.kind # "text"
  <2> DEFINE a == msg.arg
  <2>0. a \in Int
    BY <1>2 DEF MessageOK
  <2> HIDE DEF a
  <2>1. a % 256 \in Byte /\ (initial + a) % 256 \in Byte /\ (initial - a) % 256 \in Byte
    BY <1>0, <2>0, ByteRemainder
  <2>2. Weight(a) \in Byte
    <3>1. (50 + a) % 256 \in Byte
      BY <2>0, ByteRemainder
    <3> QED
      BY <3>1 DEF Weight, Byte
  <2>3. CASE msg.kind = "speed"
    <3>1. s = <<2, a % 256>>
      BY <2>3 DEF to_winkeyer, a
    <3> HIDE DEF s
    <3> QED
      BY <2>1, <3>1 DEF Immediate, is_tuning_command
  <2>4. CASE msg.kind = "faster"
    <3>1. s = <<2, (initial + a) % 256>>
      BY <2>4 DEF to_winkeyer, a
    <3> HIDE DEF s
    <3> QED
      BY <2>1, <3>1 DEF Immediate, is_tuning_command
  <2>5. CASE msg.kind = "slower"
    <3>1. s = <<2, (initial - a) % 256>>
      BY <2>5 DEF to_winkeyer, a
    <3> HIDE DEF s
    <3> QED
      BY <2>1, <3>1 DEF Immediate, is_tuning_command
  <2>6. CASE msg.kind = "weight"
    <3>1. s = <<3, Weight(a)>>
      BY <2>6 DEF to_winkeyer, a
    <3> HIDE DEF s
    <3> QED
      BY <2>2, <3>1 DEF Immediate, is_tuning_command
  <2>7. CASE msg.kind = "abort"
    <3>1. s = <<10>>
      BY <2>7 DEF to_winkeyer
    <3> HIDE DEF s
    <3> QED
      BY <3>1 DEF Immediate, is_tuning_command
  <2>8. CASE msg.kind = "tune"
    <3>1. s = <<11, 1, a % 256>>
      BY <2>8 DEF to_winkeyer, a
    <3> HIDE DEF s
    <3> QED
      BY <2>1, <3>1 DEF is_tuning_command
  <2>9. CASE msg.kind \notin {"speed", "faster", "slower", "weight", "abort", "tune"}
    <3>1. s = <<>>
      BY <1>2, <2>9 DEF to_winkeyer
    <3> HIDE DEF s
    <3> QED
      BY <3>1, PlainEmpty, PlainNoTune, Zenon
  <2> QED
    BY <2>3, <2>4, <2>5, <2>6, <2>7, <2>8, <2>9
<1> QED
  BY <1>1, <1>2

-----------------------------------------------------------------------------
(* One byte fed to the keyer.                                                *)

LEMMA QueuedByte ==
  ASSUME NEW c \in Byte, waiting = 0, remaining_args \in Nat,
         remaining_args = 0 => c = 28 \/ c \in 32 .. 255, winkeyer_data(c)
  PROVE  /\ BufferedByte(c) /\ waiting' = 0
         /\ remaining_args' = SkipAfter(remaining_args, c)
<1>1. Parameter(c) \/ ImmediateCommand(c) \/ BufferedByte(c)
  BY DEF winkeyer_data
<1>2. ~Parameter(c)
  BY DEF Parameter
<1>3. ~ImmediateCommand(c)
  BY DEF ImmediateCommand, is_winkeyer_command, is_winkeyer_buffered_command
<1>4. BufferedByte(c)
  BY <1>1, <1>2, <1>3
<1> QED
  BY <1>4 DEF BufferedByte, Remaining, SkipAfter

LEMMA CommandByte ==
  ASSUME NEW c \in {2, 3, 10, 11}, waiting = 0, remaining_args = 0, winkeyer_data(c)
  PROVE  /\ pending' = c /\ waiting' = (IF c = 10 THEN 0 ELSE 1) /\ remaining_args' = 0
         /\ dtr' = dtr /\ UNCHANGED <<winkeyer_speed, profile_speed, weighting>>
         /\ buffer' = (IF c = 10 THEN <<>> ELSE buffer)
<1>1. Parameter(c) \/ ImmediateCommand(c) \/ BufferedByte(c)
  BY DEF winkeyer_data
<1>2. ~Parameter(c)
  BY DEF Parameter
<1>3. ~BufferedByte(c)
  BY DEF BufferedByte, is_winkeyer_command, is_winkeyer_buffered_command
<1>4. ImmediateCommand(c)
  BY <1>1, <1>2, <1>3
<1>5. winkey_commands_parameter_count[c] = IF c = 10 THEN 0 ELSE 1
  BY DEF winkey_commands_parameter_count
<1>6. pending' = c /\ waiting' = (IF c = 10 THEN 0 ELSE 1) /\ remaining_args' = 0
  BY <1>4, <1>5 DEF ImmediateCommand
<1>7. CASE c = 10
  <2>1. Execute(c, argument)
    BY <1>4, <1>6, <1>7 DEF ImmediateCommand
  <2> QED
    BY <1>6, <1>7, <2>1 DEF Execute
<1>8. CASE c # 10
  <2>1. Inert
    BY <1>4, <1>6, <1>8 DEF ImmediateCommand
  <2> QED
    BY <1>6, <1>8, <2>1 DEF Inert, speeds
<1> QED
  BY <1>7, <1>8

LEMMA ParameterByte ==
  ASSUME NEW c \in Byte, waiting = 1, pending \in {2, 3, 11}, winkeyer_data(c)
  PROVE  /\ waiting' = 0 /\ remaining_args' = remaining_args /\ buffer' = buffer
         /\ profile_speed' = (IF pending = 2 THEN c ELSE profile_speed)
         /\ winkeyer_speed' = (IF pending = 2 THEN c ELSE winkeyer_speed)
         /\ weighting' = (IF pending = 3 THEN c ELSE weighting)
         /\ pending = 11 => on_key(c = 1)
         /\ pending # 11 => dtr' = dtr
<1>1. Parameter(c)
  BY DEF winkeyer_data, ImmediateCommand, BufferedByte
<1>2. winkey_commands_parameter_count[pending] = 1
  BY DEF winkey_commands_parameter_count
<1>3. argument' = c /\ waiting' = 0 /\ remaining_args' = remaining_args
  BY <1>1, <1>2 DEF Parameter, FirstArgument
<1>4. Execute(pending, c)
  BY <1>1, <1>3 DEF Parameter
<1> QED
  BY <1>3, <1>4 DEF Execute

-----------------------------------------------------------------------------
(* What the client thread has left to feed.                                  *)

FeedShape ==
  \/ waiting = 0 /\ remaining_args \in Nat /\ PlainFrom(cl_data, remaining_args)
  \/ /\ waiting = 0 /\ remaining_args = 0
     /\ Immediate(cl_data) \/ (cl_data = <<11, 1>> /\ is_tuning)
  \/ /\ waiting = 1 /\ remaining_args = 0 /\ pending \in {2, 3, 11}
     /\ \E n \in Byte : cl_data = <<n>> /\ (pending = 11 => n = 1 /\ is_tuning)

UntuneShape ==
  /\ is_tuning /\ remaining_args = 0
  /\ \/ cl_data = <<11, 0>> /\ waiting = 0
     \/ cl_data = <<0>> /\ waiting = 1 /\ pending = 11
     \/ cl_data = <<>> /\ waiting = 0

MessagesOK ==
  /\ to_come = [of |-> to_come.of, number |-> to_come.number] /\ to_come.number \in Nat
  /\ \A msg \in to_come.of : MessageOK(msg)

\* Whole commands are fed: between two messages nothing is expected, and the
\* bytes left are those the keyer expects.
Shape ==
  /\ MessagesOK /\ profile_speed \in Byte
  /\ cl_pc \in {"recv", "feed", "untune", "done"}
  /\ cl_pc \in {"recv", "done"} => cl_data = <<>> /\ waiting = 0 /\ remaining_args = 0
  /\ cl_pc = "feed" => FeedShape
  /\ cl_pc = "untune" => UntuneShape

LEMMA ShapeInit == Init => Shape
<1> SUFFICES ASSUME Init PROVE Shape
  OBVIOUS
<1>1. MessagesOK
  BY MessageAssumption DEF Init, MessagesOK, MessageOK
<1>2. profile_speed \in Byte /\ waiting = 0 /\ remaining_args = 0 /\ cl_pc = "recv" /\ cl_data = <<>>
  BY DaemonAssumption DEF Init, KeyerInit
<1> QED
  BY <1>1, <1>2 DEF Shape

LEMMA ShapeReceive ==
  ASSUME Shape, NEW msg \in to_come.of, Receive(msg)
  PROVE  Shape'
<1>1. cl_data = <<>> /\ waiting = 0 /\ remaining_args = 0 /\ profile_speed \in Byte
  BY DEF Shape, Receive
<1>2. /\ waiting' = 0 /\ remaining_args' = 0 /\ profile_speed' = profile_speed
      /\ pending' = pending
  BY <1>1 DEF Receive, keyerVars, protocol, speeds
<1>3. MessagesOK'
  <2>1. to_come' = [to_come EXCEPT !.number = @ - 1] /\ to_come.number > 0
    BY DEF Receive
  <2>2. to_come = [of |-> to_come.of, number |-> to_come.number] /\ to_come.number \in Nat
    BY DEF Shape, MessagesOK
  <2>3. to_come' = [of |-> to_come.of, number |-> to_come.number - 1]
    BY <2>1, <2>2
  <2>4. /\ to_come'.of = to_come.of /\ to_come'.number \in Nat
        /\ to_come' = [of |-> to_come'.of, number |-> to_come'.number]
    BY <2>1, <2>2, <2>3
  <2> QED
    BY <2>4, Zenon DEF Shape, MessagesOK, MessageOK
<1> DEFINE bytes == to_winkeyer(msg, profile_speed)
<1>4. Translated(bytes)
  BY <1>1, Translation, Zenon DEF Shape, MessagesOK
<1>5. CASE msg.kind = "exit" /\ ClientTo("done") /\ UNCHANGED <<cl_data, tuning, accepted>>
  BY <1>1, <1>2, <1>3, <1>5 DEF ClientTo, Shape
<1>6. CASE /\ msg.kind = "abort" /\ is_tuning
           /\ ClientTo("untune") /\ cl_data' = <<11, 0>> /\ UNCHANGED <<tuning, accepted>>
  BY <1>1, <1>2, <1>3, <1>6 DEF ClientTo, Shape, UntuneShape, tuning
<1>7. CASE /\ ClientTo("feed") /\ cl_data' = (IF is_tuning_command(bytes) THEN <<11, 1>> ELSE bytes)
           /\ is_tuning' = (is_tuning \/ is_tuning_command(bytes))
  <2>1. CASE is_tuning_command(bytes)
    <3>1. cl_data' = <<11, 1>> /\ is_tuning'
      BY <1>7, <2>1, Zenon
    <3> QED
      BY <1>1, <1>2, <1>3, <1>7, <3>1 DEF ClientTo, Shape, FeedShape
  <2>2. CASE ~is_tuning_command(bytes)
    <3>1. cl_data' = bytes /\ (Plain(cl_data') \/ Immediate(cl_data'))
      BY <1>4, <1>7, <2>2, Zenon DEF Translated
    <3>2. waiting' = 0 /\ remaining_args' = 0 /\ 0 \in Nat
      BY <1>2
    <3>3. FeedShape'
      BY <3>1, <3>2, Zenon DEF FeedShape, Plain, Immediate
    <3> QED
      BY <1>1, <1>2, <1>3, <1>7, <3>3 DEF ClientTo, Shape
  <2> QED
    BY <2>1, <2>2
<1> QED
  BY <1>5, <1>6, <1>7 DEF Receive

\* One byte of a message: text or a buffered speed change, a command, or the
\* parameter of one.
FedPlain(c) ==
  /\ waiting = 0 /\ remaining_args \in Nat /\ PlainFrom(cl_data, remaining_args)
  /\ c \in Byte /\ (remaining_args = 0 => c = 28 \/ c \in 32 .. 255)
  /\ BufferedByte(c) /\ waiting' = 0 /\ remaining_args' \in Nat
  /\ remaining_args' = SkipAfter(remaining_args, c)
  /\ PlainFrom(cl_data', remaining_args')

FedAbort(c) ==
  /\ c = 10 /\ waiting = 0 /\ remaining_args = 0 /\ waiting' = 0 /\ remaining_args' = 0
  /\ cl_data = <<10>> /\ cl_data' = <<>> /\ buffer' = <<>> /\ dtr' = dtr
  /\ UNCHANGED <<winkeyer_speed, profile_speed, weighting>>

FedCommand(c) ==
  /\ c \in {2, 3, 11} /\ pending' = c
  /\ waiting = 0 /\ remaining_args = 0 /\ waiting' = 1 /\ remaining_args' = 0
  /\ buffer' = buffer /\ dtr' = dtr
  /\ UNCHANGED <<winkeyer_speed, profile_speed, weighting>>
  /\ \E n \in Byte : /\ cl_data = <<c, n>> /\ cl_data' = <<n>>
                     /\ c = 11 => n = 1 /\ is_tuning

FedParameter(c) ==
  /\ c \in Byte /\ pending \in {2, 3, 11} /\ cl_data = <<c>> /\ cl_data' = <<>>
  /\ waiting = 1 /\ remaining_args = 0 /\ waiting' = 0 /\ remaining_args' = 0
  /\ buffer' = buffer
  /\ profile_speed' = (IF pending = 2 THEN c ELSE profile_speed)
  /\ winkeyer_speed' = (IF pending = 2 THEN c ELSE winkeyer_speed)
  /\ weighting' = (IF pending = 3 THEN c ELSE weighting)
  /\ pending = 11 => c = 1 /\ is_tuning /\ on_key(TRUE)
  /\ pending # 11 => dtr' = dtr

LEMMA FeedCases ==
  ASSUME Shape, Feed, NEW c, c = Head(cl_data)
  PROVE  FedPlain(c) \/ FedAbort(c) \/ FedCommand(c) \/ FedParameter(c)
<1>0. /\ cl_data # <<>> /\ winkeyer_data(c) /\ cl_data' = Tail(cl_data) /\ FeedShape
  BY DEF Feed, Shape
<1>1. CASE waiting = 0 /\ remaining_args \in Nat /\ PlainFrom(cl_data, remaining_args)
  <2>1. /\ c \in Byte /\ (remaining_args = 0 => c = 28 \/ c \in 32 .. 255)
        /\ PlainFrom(cl_data', SkipAfter(remaining_args, c))
    BY <1>0, <1>1, PlainTail, Zenon
  <2>2. BufferedByte(c) /\ waiting' = 0 /\ remaining_args' = SkipAfter(remaining_args, c)
    BY <1>0, <1>1, <2>1, QueuedByte, Zenon
  <2>3. remaining_args' \in Nat
    BY <1>1, <2>1, <2>2, SkipType, Zenon
  <2> QED
    BY <1>1, <2>1, <2>2, <2>3, Zenon DEF FedPlain
<1>2. CASE waiting = 0 /\ remaining_args = 0 /\ cl_data = <<10>>
  <2>1. c = 10 /\ cl_data' = <<>> /\ c \in {2, 3, 10, 11}
    BY <1>0, <1>2
  <2>3. /\ pending' = c /\ waiting' = (IF c = 10 THEN 0 ELSE 1) /\ remaining_args' = 0
        /\ dtr' = dtr /\ UNCHANGED <<winkeyer_speed, profile_speed, weighting>>
        /\ buffer' = (IF c = 10 THEN <<>> ELSE buffer)
    BY <1>0, <1>2, <2>1, CommandByte, Zenon
  <2> QED
    BY <1>2, <2>1, <2>3, Zenon DEF FedAbort
<1>3. ASSUME NEW m \in {2, 3, 11}, NEW n \in Byte, waiting = 0, remaining_args = 0,
             cl_data = <<m, n>>, m = 11 => n = 1 /\ is_tuning
      PROVE  FedCommand(c)
  <2>1. c = m /\ cl_data' = <<n>> /\ m # 10 /\ m \in {2, 3, 10, 11}
    BY <1>0, <1>3
  <2>3. /\ pending' = m /\ waiting' = (IF m = 10 THEN 0 ELSE 1) /\ remaining_args' = 0
        /\ dtr' = dtr /\ UNCHANGED <<winkeyer_speed, profile_speed, weighting>>
        /\ buffer' = (IF m = 10 THEN <<>> ELSE buffer)
    BY <1>0, <1>3, <2>1, CommandByte, Zenon
  <2> QED
    BY <1>3, <2>1, <2>3, Zenon DEF FedCommand
<1>4. CASE /\ waiting = 1 /\ remaining_args = 0 /\ pending \in {2, 3, 11}
           /\ \E n \in Byte : cl_data = <<n>> /\ (pending = 11 => n = 1 /\ is_tuning)
  <2>1. PICK n \in Byte : cl_data = <<n>> /\ (pending = 11 => n = 1 /\ is_tuning)
    BY <1>4
  <2>2. c = n /\ cl_data' = <<>>
    BY <1>0, <2>1
  <2>3. /\ waiting' = 0 /\ remaining_args' = remaining_args /\ buffer' = buffer
        /\ profile_speed' = (IF pending = 2 THEN c ELSE profile_speed)
        /\ winkeyer_speed' = (IF pending = 2 THEN c ELSE winkeyer_speed)
        /\ weighting' = (IF pending = 3 THEN c ELSE weighting)
        /\ pending = 11 => on_key(c = 1)
        /\ pending # 11 => dtr' = dtr
    BY <1>0, <1>4, <2>2, ParameterByte, Zenon
  <2>4. pending = 11 => c = 1 /\ is_tuning /\ on_key(TRUE)
    BY <2>1, <2>2, <2>3, Zenon DEF on_key
  <2> QED
    BY <1>4, <2>1, <2>2, <2>3, <2>4, Zenon DEF FedParameter
<1>5. CASE waiting = 0 /\ remaining_args = 0 /\ Immediate(cl_data)
  <2>1. CASE cl_data = <<10>>
    BY <1>2, <1>5, <2>1
  <2>2. CASE \E n \in Byte : cl_data = <<2, n>> \/ cl_data = <<3, n>>
    BY <1>3, <1>5, <2>2
  <2> QED
    BY <1>5, <2>1, <2>2 DEF Immediate
<1>6. CASE waiting = 0 /\ remaining_args = 0 /\ cl_data = <<11, 1>> /\ is_tuning
  <2>1. 1 \in Byte
    BY DEF Byte
  <2> QED
    BY <1>3, <1>6, <2>1
<1> QED
  BY <1>0, <1>1, <1>4, <1>5, <1>6 DEF FeedShape

LEMMA ShapeFeed ==
  ASSUME Shape, Feed
  PROVE  Shape'
<1>1. PICK c : c = Head(cl_data)
  OBVIOUS
<1>2. FedPlain(c) \/ FedAbort(c) \/ FedCommand(c) \/ FedParameter(c)
  BY <1>1, FeedCases, Zenon
<1>3. /\ cl_pc' = "feed" /\ is_tuning' = is_tuning /\ to_come' = to_come
  BY DEF Feed, ClientTo, tuning
<1>4. MessagesOK'
  BY <1>3, Zenon DEF Shape, MessagesOK, MessageOK
<1>5. FeedShape' /\ profile_speed' \in Byte
  <2>1. CASE FedPlain(c)
    <3>1. profile_speed' \in Byte
      BY <2>1 DEF FedPlain, BufferedByte, speeds, Shape
    <3> QED
      BY <2>1, <3>1, Zenon DEF FedPlain, FeedShape
  <2>2. CASE FedAbort(c)
    <3>1. PlainFrom(cl_data', remaining_args') /\ remaining_args' \in Nat /\ waiting' = 0
      BY <2>2, PlainEmpty DEF FedAbort, Plain
    <3>2. profile_speed' \in Byte
      BY <2>2 DEF FedAbort, Shape
    <3> QED
      BY <3>1, <3>2, Zenon DEF FeedShape
  <2>3. CASE FedCommand(c)
    <3>1. PICK n \in Byte : cl_data = <<c, n>> /\ cl_data' = <<n>> /\ (c = 11 => n = 1 /\ is_tuning)
      BY <2>3 DEF FedCommand
    <3>2. profile_speed' \in Byte
      BY <2>3 DEF FedCommand, Shape
    <3> QED
      BY <1>3, <2>3, <3>1, <3>2, Zenon DEF FeedShape, FedCommand
  <2>4. CASE FedParameter(c)
    <3>1. PlainFrom(cl_data', remaining_args') /\ remaining_args' \in Nat /\ waiting' = 0
      BY <2>4, PlainEmpty DEF FedParameter, Plain
    <3>2. profile_speed' \in Byte
      BY <2>4 DEF FedParameter, Shape
    <3> QED
      BY <3>1, <3>2, Zenon DEF FeedShape
  <2> QED
    BY <1>2, <2>1, <2>2, <2>3, <2>4
<1> QED
  BY <1>3, <1>4, <1>5 DEF Shape

\* One byte of the key-up of a tune.
UntuneCommand ==
  /\ cl_data = <<11, 0>> /\ cl_data' = <<0>> /\ pending' = 11 /\ dtr' = dtr
  /\ waiting = 0 /\ remaining_args = 0 /\ waiting' = 1 /\ remaining_args' = 0
UntuneParameter ==
  /\ cl_data = <<0>> /\ cl_data' = <<>> /\ on_key(FALSE)
  /\ waiting = 1 /\ remaining_args = 0 /\ waiting' = 0 /\ remaining_args' = 0
UntuneEnd == cl_data = <<>> /\ waiting = 0 /\ ~is_tuning' /\ UNCHANGED keyerVars

LEMMA UntuneCases ==
  ASSUME Shape, Untune
  PROVE  /\ is_tuning /\ UNCHANGED <<buffer, winkeyer_speed, profile_speed, weighting>>
         /\ \/ (UntuneCommand \/ UntuneParameter) /\ cl_pc' = "untune" /\ is_tuning' = is_tuning
            \/ UntuneEnd /\ cl_pc' = "recv" /\ UNCHANGED cl_data
<1>0. UntuneShape
  BY DEF Untune, Shape
<1>1. CASE cl_data = <<11, 0>> /\ waiting = 0
  <2>1. /\ winkeyer_data(11) /\ cl_data' = <<0>> /\ is_tuning' = is_tuning
        /\ cl_pc' = "untune" /\ 11 \in {2, 3, 10, 11}
    BY <1>1 DEF Untune, ClientTo
  <2>2. remaining_args = 0
    BY <1>0 DEF UntuneShape
  <2>3. /\ pending' = 11 /\ waiting' = (IF 11 = 10 THEN 0 ELSE 1) /\ remaining_args' = 0
        /\ dtr' = dtr /\ UNCHANGED <<winkeyer_speed, profile_speed, weighting>>
        /\ buffer' = (IF 11 = 10 THEN <<>> ELSE buffer)
    BY <1>1, <2>1, <2>2, CommandByte, Zenon
  <2>4. waiting' = 1 /\ buffer' = buffer
    BY <2>3
  <2> QED
    BY <1>0, <1>1, <2>1, <2>2, <2>3, <2>4, Zenon DEF UntuneShape, UntuneCommand
<1>2. CASE cl_data = <<0>> /\ waiting = 1 /\ pending = 11
  <2>1. /\ winkeyer_data(0) /\ cl_data' = <<>> /\ is_tuning' = is_tuning
        /\ cl_pc' = "untune" /\ 0 \in Byte /\ pending \in {2, 3, 11}
    BY <1>2 DEF Untune, ClientTo, Byte
  <2>2. /\ waiting' = 0 /\ remaining_args' = remaining_args /\ buffer' = buffer
        /\ profile_speed' = (IF pending = 2 THEN 0 ELSE profile_speed)
        /\ winkeyer_speed' = (IF pending = 2 THEN 0 ELSE winkeyer_speed)
        /\ weighting' = (IF pending = 3 THEN 0 ELSE weighting)
        /\ pending = 11 => on_key(0 = 1)
    BY <1>2, <2>1, ParameterByte, Zenon
  <2>a. pending # 2 /\ pending # 3 /\ 0 # 1
    BY <1>2
  <2>3. on_key(FALSE) /\ UNCHANGED <<winkeyer_speed, profile_speed, weighting>>
    BY <1>2, <2>2, <2>a, Zenon DEF on_key
  <2> QED
    BY <1>0, <1>2, <2>1, <2>2, <2>3, Zenon DEF UntuneShape, UntuneParameter
<1>3. CASE cl_data = <<>> /\ waiting = 0
  <2>1. UntuneEnd /\ cl_pc' = "recv" /\ UNCHANGED cl_data
    BY <1>3 DEF Untune, ClientTo, UntuneEnd
  <2>2. UNCHANGED <<buffer, winkeyer_speed, profile_speed, weighting>>
    BY <2>1 DEF UntuneEnd, keyerVars, speeds
  <2> QED
    BY <1>0, <2>1, <2>2, Zenon DEF UntuneShape
<1> QED
  BY <1>0, <1>1, <1>2, <1>3 DEF UntuneShape

LEMMA ShapeUntune ==
  ASSUME Shape, Untune
  PROVE  Shape'
<1>1. to_come' = to_come /\ profile_speed' \in Byte
  BY UntuneCases DEF Untune, Shape
<1>2. MessagesOK'
  BY <1>1, Zenon DEF Shape, MessagesOK, MessageOK
<1>3. is_tuning
  BY UntuneCases
<1>4. CASE UntuneCommand /\ cl_pc' = "untune" /\ is_tuning' = is_tuning
  BY <1>1, <1>2, <1>3, <1>4 DEF UntuneCommand, Shape, UntuneShape
<1>5. CASE UntuneParameter /\ cl_pc' = "untune" /\ is_tuning' = is_tuning
  BY <1>1, <1>2, <1>3, <1>5 DEF UntuneParameter, Shape, UntuneShape
<1>6. CASE UntuneEnd /\ cl_pc' = "recv" /\ UNCHANGED cl_data
  <2>1. waiting' = 0 /\ remaining_args' = remaining_args /\ cl_data' = <<>>
    BY <1>6 DEF UntuneEnd, keyerVars, protocol
  <2>2. remaining_args = 0
    BY DEF Untune, Shape, UntuneShape
  <2> QED
    BY <1>1, <1>2, <1>6, <2>1, <2>2 DEF Shape
<1> QED
  BY <1>4, <1>5, <1>6, UntuneCases

LEMMA ShapeFrame ==
  ASSUME Shape, UNCHANGED <<cl_pc, cl_data, to_come, is_tuning, profile_speed, protocol>>
  PROVE  Shape'
BY Zenon DEF Shape, MessagesOK, MessageOK, FeedShape, UntuneShape, protocol

\* Between two messages no parameter is expected.
LEMMA CheckIdle ==
  ASSUME Shape, Check
  PROVE  waiting = 0 /\ remaining_args = 0
<1>1. CASE cl_pc = "feed" /\ cl_data = <<>>
  <2>1. CASE waiting = 0 /\ remaining_args \in Nat /\ PlainFrom(cl_data, remaining_args)
    BY <1>1, <2>1 DEF PlainFrom, Stream, Phases
  <2>2. ~Immediate(cl_data) /\ cl_data # <<11, 1>> /\ ~ \E n \in Byte : cl_data = <<n>>
    BY <1>1 DEF Immediate
  <2> QED
    BY <1>1, <2>1, <2>2, Zenon DEF Shape, FeedShape
<1>2. CASE cl_pc = "recv"
  BY <1>2 DEF Shape
<1> QED
  BY <1>1, <1>2 DEF Check

LEMMA ShapeCheck ==
  ASSUME Shape, Check
  PROVE  Shape'
<1>1. /\ UNCHANGED <<to_come, is_tuning, profile_speed, waiting, remaining_args>>
  BY DEF Check, keyerVars, protocol, speeds, tuning
<1>2. MessagesOK' /\ profile_speed' \in Byte
  BY <1>1, Zenon DEF Shape, MessagesOK, MessageOK
<1>3. waiting = 0 /\ remaining_args = 0
  BY CheckIdle
<1>4. \/ is_tuning /\ cl_pc' = "untune" /\ cl_data' = <<11, 0>>
      \/ cl_pc' = "recv" /\ cl_data' = <<>>
  BY DEF Check, ClientTo
<1> QED
  BY <1>1, <1>2, <1>3, <1>4 DEF Shape, UntuneShape

LEMMA KeyerKeeps == KeyerTick => UNCHANGED <<cl_pc, cl_data, to_come, is_tuning, profile_speed, protocol>>
<1> SUFFICES ASSUME KeyerTick PROVE UNCHANGED <<cl_pc, cl_data, to_come, is_tuning, profile_speed, protocol>>
  OBVIOUS
<1>1. UNCHANGED <<cl_pc, cl_data, to_come, is_tuning>>
  BY DEF KeyerTick, client, tuning
<1>2. update
  BY DEF KeyerTick
<1>3. UNCHANGED <<profile_speed, protocol>>
  BY <1>2 DEF update, TimedWait, Idle, ElementEnd, SpaceEnd, WordSpaceEnd, NextElement,
              CharSpace, BufferWait, BufferedCommand, NextCharacter, Stay, speeds
<1> QED
  BY <1>1, <1>3

LEMMA ShapeNext == Shape /\ [Next]_vars => Shape'
<1> SUFFICES ASSUME Shape, [Next]_vars PROVE Shape'
  OBVIOUS
<1>1. CASE \E msg \in to_come.of : Receive(msg)
  BY <1>1, ShapeReceive
<1>2. CASE Feed
  BY <1>2, ShapeFeed
<1>3. CASE Check
  BY <1>3, ShapeCheck
<1>4. CASE Untune
  BY <1>4, ShapeUntune
<1>5. CASE ClientExit
  <2>1. cl_data = <<>> /\ waiting = 0 /\ remaining_args = 0
    BY <1>5 DEF ClientExit, Shape
  <2>2. /\ UNCHANGED <<cl_data, to_come, profile_speed, waiting, remaining_args>>
        /\ cl_pc' = "done"
    BY <1>5 DEF ClientExit, ClientTo, keyerVars, protocol, speeds
  <2>3. MessagesOK' /\ profile_speed' \in Byte
    BY <2>2, Zenon DEF Shape, MessagesOK, MessageOK
  <2> QED
    BY <2>1, <2>2, <2>3 DEF Shape
<1>6. CASE KeyerTick
  BY <1>6, KeyerKeeps, ShapeFrame
<1>7. CASE PortCheck \/ KeyerExit \/ Stop \/ Unplug \/ Plug \/ Tick \/ UNCHANGED vars
  <2>1. UNCHANGED <<cl_pc, cl_data, to_come, is_tuning, profile_speed, protocol>>
    BY <1>7 DEF PortCheck, KeyerExit, Stop, Unplug, Plug, Tick, vars, client, tuning,
                keyerVars, speeds
  <2> QED
    BY <2>1, ShapeFrame
<1> QED
  BY <1>1, <1>2, <1>3, <1>4, <1>5, <1>6, <1>7 DEF Next, ClientStep, KeyerStep

-----------------------------------------------------------------------------
(* The key line.                                                             *)

\* A port that is gone holds no key down, and behind the keyer's back the key is
\* down for a tune whose key-up has not been fed.
KeyInv ==
  /\ ~connected => dtr = FALSE
  /\ dtr /\ state # "send_element" => is_tuning /\ ~(cl_pc = "untune" /\ cl_data = <<>>)

\* One turn of the keyer leaves the key up unless an element began.
LEMMA KeyerKey ==
  ASSUME KeyInv, KeyerTick
  PROVE  KeyInv'
<1>1. UNCHANGED <<cl_pc, cl_data, is_tuning>>
  BY DEF KeyerTick, client, tuning
<1>2. \E next : switch_to(next)
  <2>1. update
    BY DEF KeyerTick
  <2> QED
    BY <2>1, Zenon DEF update, TimedWait, Idle, ElementEnd, SpaceEnd, WordSpaceEnd, NextElement,
              CharSpace, BufferWait, BufferedCommand, NextCharacter, Stay
<1>3. PICK next : switch_to(next)
  BY <1>2
<1>4. state' = next /\ connected' = connected
  BY <1>3 DEF switch_to
<1>5. CASE next = "send_element" /\ state # next
  <2>1. on_key(TRUE)
    BY <1>3, <1>5 DEF switch_to
  <2> QED
    BY <1>1, <1>4, <1>5, <2>1, Zenon DEF KeyInv, on_key
<1>6. CASE state = "send_element" /\ state # next
  <2>1. on_key(FALSE)
    BY <1>3, <1>6 DEF switch_to
  <2>2. ~dtr'
    BY <2>1, Zenon DEF KeyInv, on_key
  <2>3. dtr' = FALSE
    BY <2>1, Zenon DEF KeyInv, on_key
  <2> QED
    BY <2>3, Zenon DEF KeyInv
<1>7. CASE state = next \/ (next # "send_element" /\ state # "send_element")
  <2>1. dtr' = dtr
    BY <1>3, <1>7 DEF switch_to
  <2> QED
    BY <1>1, <1>4, <1>7, <2>1, Zenon DEF KeyInv
<1> QED
  BY <1>5, <1>6, <1>7

LEMMA KeyNext == Shape /\ KeyInv /\ [Next]_vars => KeyInv'
<1> SUFFICES ASSUME Shape, KeyInv, [Next]_vars PROVE KeyInv'
  OBVIOUS
<1>1. CASE \E msg \in to_come.of : Receive(msg)
  <2>1. PICK msg \in to_come.of : Receive(msg)
    BY <1>1
  <2>2. UNCHANGED <<connected, dtr, state>> /\ cl_pc = "recv"
    BY <2>1 DEF Receive, keyerVars, sending
  <2>3. is_tuning => is_tuning'
    BY <2>1, Zenon DEF Receive, tuning
  <2>4. cl_pc' = "untune" => cl_data' # <<>>
    BY <2>1 DEF Receive, ClientTo
  <2> QED
    BY <2>2, <2>3, <2>4, Zenon DEF KeyInv
<1>2. CASE Feed
  <2>1. UNCHANGED <<connected, state, is_tuning>> /\ cl_pc' = "feed" /\ cl_pc = "feed"
    BY <1>2 DEF Feed, winkeyer_data, sending, tuning, ClientTo
  <2>2. dtr' = dtr \/ (is_tuning /\ on_key(TRUE))
    <3>1. PICK c : c = Head(cl_data)
      OBVIOUS
    <3>2. FedPlain(c) \/ FedAbort(c) \/ FedCommand(c) \/ FedParameter(c)
      BY <1>2, <3>1, FeedCases, Zenon
    <3>3. FedPlain(c) => dtr' = dtr
      BY DEF FedPlain, BufferedByte
    <3> QED
      BY <3>2, <3>3, Zenon DEF FedAbort, FedCommand, FedParameter
  <2>3. "feed" # "untune"
    OBVIOUS
  <2>4. CASE dtr' = dtr
    BY <2>1, <2>3, <2>4, Zenon DEF KeyInv
  <2>5. CASE is_tuning /\ on_key(TRUE)
    <3>1. CASE connected
      BY <2>1, <2>3, <2>5, <3>1, Zenon DEF KeyInv
    <3>2. CASE ~connected
      <4>1. dtr' = dtr
        BY <2>5, <3>2, Zenon DEF on_key
      <4> QED
        BY <2>4, <4>1
    <3> QED
      BY <3>1, <3>2
  <2> QED
    BY <2>2, <2>4, <2>5
<1>3. CASE Check
  <2>1. UNCHANGED <<connected, dtr, state, is_tuning>>
    BY <1>3 DEF Check, keyerVars, sending, tuning
  <2>2. cl_pc' = "untune" => cl_data' # <<>>
    BY <1>3 DEF Check, ClientTo
  <2> QED
    BY <2>1, <2>2, Zenon DEF KeyInv
<1>4. CASE Untune
  <2>0. UNCHANGED <<connected, state>> /\ cl_pc = "untune"
    BY <1>4 DEF Untune, winkeyer_data, keyerVars, sending
  <2>1. CASE UntuneCommand /\ cl_pc' = "untune" /\ is_tuning' = is_tuning
    <3>1. cl_data' # <<>> /\ dtr' = dtr
      BY <2>1 DEF UntuneCommand
    <3> QED
      BY <2>0, <2>1, <3>1, Zenon DEF KeyInv
  <2>2. CASE UntuneParameter
    <3>1. dtr' = FALSE
      BY <2>2, Zenon DEF UntuneParameter, on_key, KeyInv
    <3> QED
      BY <3>1, Zenon DEF KeyInv
  <2>3. CASE UntuneEnd
    <3>1. dtr' = dtr /\ cl_data = <<>>
      BY <2>3 DEF UntuneEnd, keyerVars
    <3> QED
      BY <2>0, <3>1, Zenon DEF KeyInv
  <2> QED
    BY <1>4, <2>1, <2>2, <2>3, UntuneCases, Zenon
<1>5. CASE ClientExit
  <2>1. UNCHANGED <<connected, dtr, state, is_tuning>> /\ cl_pc' = "done" /\ "done" # "untune"
    BY <1>5 DEF ClientExit, keyerVars, sending, tuning, ClientTo
  <2> QED
    BY <2>1, Zenon DEF KeyInv
<1>6. CASE KeyerTick
  BY <1>6, KeyerKey
<1>7. CASE PortCheck \/ Unplug
  <2>1. UNCHANGED <<cl_pc, cl_data, is_tuning, state>>
    BY <1>7 DEF PortCheck, Unplug, client, tuning, sending
  <2>2. UNCHANGED <<connected, dtr>> \/ dtr' = FALSE
    BY <1>7 DEF PortCheck, PortUpdate, Unplug
  <2>3. CASE UNCHANGED <<connected, dtr>>
    <3>1. connected' = connected /\ dtr' = dtr
      BY <2>3
    <3> QED
      BY <2>1, <3>1, Zenon DEF KeyInv
  <2>4. CASE dtr' = FALSE
    BY <2>4, Zenon DEF KeyInv
  <2> QED
    BY <2>2, <2>3, <2>4
<1>8. CASE KeyerExit \/ Stop \/ Plug \/ Tick \/ UNCHANGED vars
  <2>1. UNCHANGED <<cl_pc, cl_data, is_tuning, state, connected, dtr>>
    BY <1>8 DEF KeyerExit, Stop, Plug, Tick, vars, client, tuning, keyerVars, sending
  <2> QED
    BY <2>1, Zenon DEF KeyInv
<1> QED
  BY <1>1, <1>2, <1>3, <1>4, <1>5, <1>6, <1>7, <1>8 DEF Next, ClientStep, KeyerStep

\* The key is down only for an element or for a tune, for every configuration,
\* every message, every overflow of the buffer and every speed, also 0.
THEOREM KeyDownCorrect == Spec => []KeyDownAccounted
<1>1. Init => Shape /\ KeyInv
  BY ShapeInit DEF Init, KeyerInit, KeyInv
<1>2. Shape /\ KeyInv /\ [Next]_vars => (Shape /\ KeyInv)'
  BY ShapeNext, KeyNext
<1>3. KeyInv => KeyDownAccounted
  BY Zenon DEF KeyInv, KeyDownAccounted
<1> QED
  BY <1>1, <1>2, <1>3, PTL DEF Spec

-----------------------------------------------------------------------------
(* TextOf: the text of a stream, and of what follows a complete one.         *)

ReadStart == [out |-> <<>>, skip |-> 0]
Readings == [out : Seq(Element), skip : Nat]

\* r[i] is what TextOf has read after i of the first n bytes.
Reading(s, n, r) ==
  /\ r = [i \in 0 .. n |-> r[i]] /\ r[0] = ReadStart
  /\ \A i \in 1 .. n : r[i] = ReadByte(r[i - 1], s[i])

LEMMA ReadExists ==
  ASSUME NEW n \in Nat, NEW s
  PROVE  \E f : Reading(s, n, f)
<1> DEFINE T == {m \in Nat : \E f : Reading(s, m, f)}
<1>1. 0 \in T
  <2> DEFINE f == [i \in 0 .. 0 |-> ReadStart]
  <2>1. f = [i \in 0 .. 0 |-> f[i]] /\ f[0] = ReadStart /\ 1 .. 0 = {}
    OBVIOUS
  <2> HIDE DEF f
  <2>2. Reading(s, 0, f)
    BY <2>1, Zenon DEF Reading
  <2> QED
    BY <2>2
<1>2. ASSUME NEW m \in Nat, m \in T PROVE m + 1 \in T
  <2>1. PICK f : Reading(s, m, f)
    BY <1>2
  <2> HIDE DEF T
  <2> DEFINE g == [i \in 0 .. m + 1 |->
                     IF i <= m THEN f[i] ELSE ReadByte(f[m], s[m + 1])]
  <2>2. /\ g = [i \in 0 .. m + 1 |-> g[i]] /\ \A i \in 0 .. m : g[i] = f[i]
        /\ g[m + 1] = ReadByte(f[m], s[m + 1])
    OBVIOUS
  <2> HIDE DEF g
  <2>3. g[0] = ReadStart
    BY <2>1, <2>2 DEF Reading
  <2>4. ASSUME NEW i \in 1 .. m + 1 PROVE g[i] = ReadByte(g[i - 1], s[i])
    <3>1. CASE i \in 1 .. m
      <4>1. i \in 0 .. m /\ i - 1 \in 0 .. m
        BY <3>1
      <4>2. g[i] = f[i] /\ g[i - 1] = f[i - 1] /\ f[i] = ReadByte(f[i - 1], s[i])
        BY <2>1, <2>2, <3>1, <4>1, Zenon DEF Reading
      <4> QED
        BY <4>2, Zenon
    <3>2. CASE i = m + 1
      <4>1. i - 1 = m /\ m \in 0 .. m
        BY <3>2
      <4>2. g[i - 1] = f[m]
        BY <2>2, <4>1, Zenon
      <4> QED
        BY <2>2, <3>2, <4>2, Zenon
    <3>3. i \in 1 .. m \/ i = m + 1
      OBVIOUS
    <3> QED
      BY <3>1, <3>2, <3>3, Zenon
  <2>5. Reading(s, m + 1, g)
    BY <2>2, <2>3, <2>4, Zenon DEF Reading
  <2>6. m + 1 \in Nat
    OBVIOUS
  <2> QED
    BY <2>5, <2>6, Zenon DEF T
<1> HIDE DEF T
<1>3. n \in T
  BY <1>1, <1>2, NatInduct
<1> QED
  BY <1>3 DEF T

\* What TextOf computes.
LEMMA TextOfReading ==
  ASSUME NEW s \in Seq(Byte)
  PROVE  \E f : Reading(s, Len(s), f) /\ TextOf(s) = f[Len(s)].out
<1> DEFINE n == Len(s)
           D(f) == [i \in 0 .. n |-> IF i = 0 THEN ReadStart
                                     ELSE ReadByte(f[i - 1], s[i])]
           h == CHOOSE f : f = D(f)
<1>0. n \in Nat
  OBVIOUS
<1>1. PICK g : Reading(s, n, g)
  BY <1>0, ReadExists, Zenon
<1>2. g = D(g)
  <2>1. ASSUME NEW i \in 0 .. n PROVE g[i] = D(g)[i]
    <3>1. CASE i = 0
      BY <1>1, <3>1 DEF Reading
    <3>2. CASE i # 0
      <4>1. i \in 1 .. n
        BY <3>2
      <4>2. g[i] = ReadByte(g[i - 1], s[i])
        BY <1>1, <4>1, Zenon DEF Reading
      <4> QED
        BY <3>2, <4>2
    <3> QED
      BY <3>1, <3>2
  <2>2. g = [i \in 0 .. n |-> g[i]]
    BY <1>1, Zenon DEF Reading
  <2> QED
    BY <2>1, <2>2
<1>3. h = D(h)
  BY <1>2, Zenon
<1>4. TextOf(s) = h[n].out
  BY Zenon DEF TextOf, ReadStart
<1> HIDE DEF h
<1>5. Reading(s, n, h)
  <2>1. \A i \in 0 .. n : h[i] = IF i = 0 THEN ReadStart
                                 ELSE ReadByte(h[i - 1], s[i])
    BY <1>3
  <2>2. h = [i \in 0 .. n |-> h[i]]
    BY <1>3
  <2>3. h[0] = ReadStart
    BY <1>0, <2>1
  <2>4. \A i \in 1 .. n : h[i] = ReadByte(h[i - 1], s[i])
    BY <1>0, <2>1
  <2> QED
    BY <2>2, <2>3, <2>4, Zenon DEF Reading
<1> QED
  BY <1>4, <1>5, Zenon

\* The elements of a byte, k parameters being expected.
ReadOut(k, c) == IF k > 0 \/ is_winkeyer_command(c) THEN <<>> ELSE ElementsOf(c)

LEMMA ElementsType ==
  ASSUME NEW c
  PROVE  ElementsOf(c) \in Seq(Element)
<1>1. CASE c # Bar /\ c \in DOMAIN Pattern
  <2>1. Pattern[c] \in Seq(Element)
    BY <1>1, KeyerAssumption
  <2> QED
    BY <1>1, <2>1, Zenon DEF ElementsOf
<1>2. CASE ~(c # Bar /\ c \in DOMAIN Pattern)
  <2>1. ElementsOf(c) = <<>>
    BY <1>2, Zenon DEF ElementsOf
  <2> QED
    BY <2>1
<1> QED
  BY <1>1, <1>2

LEMMA ReadOutType ==
  ASSUME NEW k, NEW c
  PROVE  ReadOut(k, c) \in Seq(Element)
<1>1. <<>> \in Seq(Element)
  OBVIOUS
<1> QED
  BY <1>1, ElementsType, Zenon DEF ReadOut

LEMMA ReadStep ==
  ASSUME NEW a \in Readings, NEW c \in Byte
  PROVE  /\ ReadByte(a, c) \in Readings
         /\ ReadByte(a, c).skip = SkipAfter(a.skip, c)
         /\ ReadByte(a, c).out = a.out \o ReadOut(a.skip, c)
<1> DEFINE b == ReadByte(a, c)
           e == ElementsOf(c)
<1>0. a.out \in Seq(Element) /\ a.skip \in Nat /\ a.out \o <<>> = a.out
  <2>1. a.out \in Seq(Element) /\ a.skip \in Nat
    BY DEF Readings
  <2> QED
    BY <2>1, ConcatEmptySeq
<1>e. e \in Seq(Element) /\ a.out \o e \in Seq(Element)
  BY <1>0, ElementsType, ConcatProperties
<1>1. CASE a.skip > 0
  <2>1. b = [a EXCEPT !.skip = @ - 1]
    BY <1>1, Zenon DEF ReadByte
  <2> HIDE DEF b
  <2>2. b \in Readings /\ b.skip = a.skip - 1 /\ b.out = a.out
    BY <1>0, <1>1, <2>1 DEF Readings
  <2>3. SkipAfter(a.skip, c) = a.skip - 1 /\ ReadOut(a.skip, c) = <<>>
    BY <1>1, Zenon DEF SkipAfter, ReadOut
  <2> QED
    BY <1>0, <2>2, <2>3, Zenon DEF b
<1>2. CASE ~(a.skip > 0) /\ is_winkeyer_command(c)
  <2> DEFINE k == winkey_commands_parameter_count[c]
  <2>0. k \in Nat
    BY <1>2 DEF is_winkeyer_command, winkey_commands_parameter_count, Byte
  <2>1. b = [a EXCEPT !.skip = k]
    BY <1>2, Zenon DEF ReadByte
  <2>3. SkipAfter(a.skip, c) = k /\ ReadOut(a.skip, c) = <<>>
    BY <1>2, Zenon DEF SkipAfter, ReadOut
  <2> HIDE DEF b, k
  <2>2. b \in Readings /\ b.skip = k /\ b.out = a.out
    BY <1>0, <2>0, <2>1 DEF Readings
  <2> QED
    BY <1>0, <2>2, <2>3, Zenon DEF b
<1>3. CASE ~(a.skip > 0) /\ ~is_winkeyer_command(c)
  <2>1. b = [a EXCEPT !.out = @ \o e]
    BY <1>3, Zenon DEF ReadByte
  <2>3. SkipAfter(a.skip, c) = 0 /\ ReadOut(a.skip, c) = e
    BY <1>3, Zenon DEF SkipAfter, ReadOut
  <2> HIDE DEF b, e
  <2>2. b \in Readings /\ b.skip = a.skip /\ b.out = a.out \o e
    BY <1>0, <1>e, <2>1 DEF Readings
  <2>4. a.skip = 0
    BY <1>0, <1>3
  <2> QED
    BY <2>2, <2>3, <2>4, Zenon DEF b
<1> QED
  BY <1>1, <1>2, <1>3, Zenon

LEMMA ReadingType ==
  ASSUME NEW s \in Seq(Byte), NEW r, Reading(s, Len(s), r), NEW i \in 0 .. Len(s)
  PROVE  r[i] \in Readings
<1> DEFINE n == Len(s)
           T == {m \in Nat : m <= n => r[m] \in Readings}
<1>0. n \in Nat
  OBVIOUS
<1>1. 0 \in T
  <2>1. ReadStart \in Readings
    BY DEF ReadStart, Readings
  <2>2. r[0] = ReadStart
    BY Zenon DEF Reading
  <2> QED
    BY <2>1, <2>2
<1>2. ASSUME NEW m \in Nat, m \in T PROVE m + 1 \in T
  <2> SUFFICES ASSUME m + 1 <= n PROVE r[m + 1] \in Readings
    OBVIOUS
  <2>1. m <= n /\ m + 1 \in 1 .. n /\ (m + 1) - 1 = m /\ s[m + 1] \in Byte
    BY <1>0
  <2>2. r[m] \in Readings
    BY <1>2, <2>1
  <2>3. r[m + 1] = ReadByte(r[(m + 1) - 1], s[m + 1])
    BY <2>1, Zenon DEF Reading
  <2>4. r[m + 1] = ReadByte(r[m], s[m + 1])
    BY <2>1, <2>3, Zenon
  <2> QED
    BY <2>1, <2>2, <2>4, ReadStep, Zenon
<1> HIDE DEF T
<1>3. i \in T
  BY <1>0, <1>1, <1>2, NatInduct
<1> QED
  BY <1>0, <1>3 DEF T

LEMMA TextType ==
  ASSUME NEW s \in Seq(Byte)
  PROVE  TextOf(s) \in Seq(Element)
<1>1. PICK r : Reading(s, Len(s), r) /\ TextOf(s) = r[Len(s)].out
  BY TextOfReading, Zenon
<1>2. Len(s) \in 0 .. Len(s)
  OBVIOUS
<1>3. r[Len(s)] \in Readings
  BY <1>1, <1>2, ReadingType, Zenon
<1>4. r[Len(s)].out \in Seq(Element)
  BY <1>3 DEF Readings
<1> QED
  BY <1>1, <1>4

\* Over its first bytes a concatenation reads as they do alone.
LEMMA ReadingFront ==
  ASSUME NEW s \in Seq(Byte), NEW t \in Seq(Byte), NEW u, u \in Seq(Byte), Joins(s, t, u),
         NEW r, Reading(u, Len(u), r), NEW q, Reading(s, Len(s), q),
         NEW p, Phases(s, 0, p)
  PROVE  r[Len(s)] = q[Len(s)] /\ q[Len(s)].skip = p[Len(s)]
<1> DEFINE n == Len(s)
           T == {m \in Nat : m <= n => r[m] = q[m] /\ q[m].skip = p[m]}
<1>0. n \in Nat /\ n <= Len(u)
  BY DEF Joins
<1>1. 0 \in T
  <2>1. r[0] = ReadStart /\ q[0] = ReadStart /\ p[0] = 0
    BY Zenon DEF Reading, Phases
  <2>2. ReadStart.skip = 0
    BY DEF ReadStart
  <2> QED
    BY <2>1, <2>2
<1>2. ASSUME NEW m \in Nat, m \in T PROVE m + 1 \in T
  <2> SUFFICES ASSUME m + 1 <= n PROVE r[m + 1] = q[m + 1] /\ q[m + 1].skip = p[m + 1]
    OBVIOUS
  <2>1. /\ m <= n /\ m + 1 \in 1 .. Len(s) /\ m + 1 \in 1 .. Len(u) /\ (m + 1) - 1 = m
        /\ s[m + 1] \in Byte /\ m \in 0 .. Len(s)
    BY <1>0
  <2>2. r[m] = q[m] /\ q[m].skip = p[m]
    BY <1>2, <2>1
  <2> HIDE DEF T
  <2>3. /\ r[m + 1] = ReadByte(r[(m + 1) - 1], u[m + 1])
        /\ q[m + 1] = ReadByte(q[(m + 1) - 1], s[m + 1])
        /\ p[m + 1] = SkipAfter(p[(m + 1) - 1], s[m + 1])
        /\ u[m + 1] = s[m + 1]
    BY <2>1, Zenon DEF Reading, Phases, Joins
  <2>4. /\ r[m + 1] = ReadByte(q[m], s[m + 1])
        /\ q[m + 1] = ReadByte(q[m], s[m + 1])
        /\ p[m + 1] = SkipAfter(q[m].skip, s[m + 1])
    BY <2>1, <2>2, <2>3, Zenon
  <2>5. q[m] \in Readings
    BY <2>1, ReadingType, Zenon
  <2>6. ReadByte(q[m], s[m + 1]).skip = SkipAfter(q[m].skip, s[m + 1])
    BY <2>1, <2>5, ReadStep, Zenon
  <2> QED
    BY <2>4, <2>6, Zenon
<1> HIDE DEF T
<1>3. n \in T
  BY <1>0, <1>1, <1>2, NatInduct
<1> QED
  BY <1>0, <1>3 DEF T

ReadOn(s, t, r, q) == r[Len(s) + Len(t)].out = r[Len(s)].out \o q[Len(t)].out

\* Behind a complete stream the rest reads as it does alone.
LEMMA ReadingBack ==
  ASSUME NEW s \in Seq(Byte), NEW t \in Seq(Byte), NEW u, u \in Seq(Byte), Joins(s, t, u),
         NEW r, Reading(u, Len(u), r), r[Len(s)].skip = 0,
         NEW q, Reading(t, Len(t), q)
  PROVE  ReadOn(s, t, r, q)
<1> DEFINE n == Len(s)
           a == r[Len(s)].out
           At(m) == /\ r[Len(s) + m].skip = q[m].skip
                    /\ r[Len(s) + m].out = a \o q[m].out
           T == {m \in Nat : m <= Len(t) => At(m)}
<1>0. /\ Len(s) \in Nat /\ Len(t) \in Nat /\ Len(u) = Len(s) + Len(t)
      /\ Len(s) \in 0 .. Len(u) /\ Len(s) + 0 = Len(s)
  BY DEF Joins
<1>a. a \in Seq(Element) /\ a \o <<>> = a
  <2>1. r[Len(s)] \in Readings
    BY <1>0, ReadingType, Zenon
  <2>2. a \in Seq(Element)
    BY <2>1 DEF Readings
  <2> HIDE DEF a
  <2> QED
    BY <2>2, ConcatEmptySeq
<1>b. \A x, y \in Seq(Element) : (a \o x) \o y = a \o (x \o y)
  <2> HIDE DEF a
  <2>1. \A x, y \in Seq(Element) : Regrouped(a, x, y)
    BY <1>a, Regroup, Zenon
  <2> QED
    BY <2>1, Zenon DEF Regrouped
<1>1. 0 \in T
  <2>1. q[0] = ReadStart
    BY Zenon DEF Reading
  <2>2. ReadStart.skip = 0 /\ ReadStart.out = <<>>
    BY DEF ReadStart
  <2>3. q[0].skip = 0 /\ q[0].out = <<>>
    BY <2>1, <2>2, Zenon
  <2>4. At(0)
    BY <1>0, <1>a, <2>3, Zenon
  <2> HIDE DEF At
  <2> QED
    BY <2>4
<1>2. ASSUME NEW m \in Nat, m \in T PROVE m + 1 \in T
  <2> HIDE DEF At
  <2> SUFFICES ASSUME m + 1 <= Len(t) PROVE At(m + 1)
    OBVIOUS
  <2> DEFINE k == Len(s) + m
             c == t[m + 1]
  <2>1. /\ m <= Len(t) /\ m + 1 \in 1 .. Len(t) /\ k + 1 \in 1 .. Len(u) /\ (m + 1) - 1 = m
        /\ c \in Byte /\ m \in 0 .. Len(t) /\ k \in 0 .. Len(u) /\ (k + 1) - 1 = k
        /\ Len(s) + (m + 1) = k + 1
    <3>1. /\ m <= Len(t) /\ m + 1 \in 1 .. Len(t) /\ (m + 1) - 1 = m /\ m \in 0 .. Len(t)
      BY <1>0
    <3>2. /\ k + 1 \in 1 .. Len(u) /\ k \in 0 .. Len(u) /\ (k + 1) - 1 = k
          /\ Len(s) + (m + 1) = k + 1
      BY <1>0
    <3>3. c \in Byte
      BY <3>1, ElementOfSeq, Zenon
    <3> QED
      BY <3>1, <3>2, <3>3, Zenon
  <2>e. At(m)
    BY <1>2, <2>1
  <2>2. r[k].skip = q[m].skip /\ r[k].out = a \o q[m].out
    BY <2>e, Zenon DEF At
  <2> HIDE DEF T, k, a
  <2>c. u[k + 1] = c
    BY <2>1, Zenon DEF Joins
  <2>3. /\ r[k + 1] = ReadByte(r[(k + 1) - 1], u[k + 1])
        /\ q[m + 1] = ReadByte(q[(m + 1) - 1], t[m + 1])
    BY <2>1, Zenon DEF Reading
  <2>4. r[k + 1] = ReadByte(r[k], c) /\ q[m + 1] = ReadByte(q[m], c)
    BY <2>1, <2>c, <2>3, Zenon
  <2>5. r[k] \in Readings /\ q[m] \in Readings
    BY <2>1, ReadingType, Zenon
  <2> HIDE DEF c
  <2>6. /\ r[k + 1].skip = SkipAfter(r[k].skip, c) /\ r[k + 1].out = r[k].out \o ReadOut(r[k].skip, c)
        /\ q[m + 1].skip = SkipAfter(q[m].skip, c) /\ q[m + 1].out = q[m].out \o ReadOut(q[m].skip, c)
    BY <2>1, <2>4, <2>5, ReadStep, Zenon
  <2>7. r[k + 1].out = (a \o q[m].out) \o ReadOut(q[m].skip, c)
    BY <2>2, <2>6, Zenon
  <2>8. q[m].out \in Seq(Element)
    BY <2>5 DEF Readings
  <2>f. ReadOut(q[m].skip, c) \in Seq(Element)
    BY ReadOutType, Zenon
  <2>g. (a \o q[m].out) \o ReadOut(q[m].skip, c) = a \o (q[m].out \o ReadOut(q[m].skip, c))
    BY <1>b, <2>8, <2>f, Zenon
  <2>9. r[k + 1].out = a \o q[m + 1].out
    BY <2>6, <2>7, <2>g, Zenon
  <2>10. r[k + 1].skip = q[m + 1].skip
    BY <2>2, <2>6, Zenon
  <2> QED
    BY <2>1, <2>9, <2>10, Zenon DEF At
<1> HIDE DEF T, At
<1>3. Len(t) \in T
  BY <1>0, <1>1, <1>2, NatInduct
<1>4. At(Len(t))
  BY <1>0, <1>3 DEF T
<1> QED
  BY <1>4, Zenon DEF At, ReadOn

LEMMA TextConcat ==
  ASSUME NEW s \in Seq(Byte), NEW t \in Seq(Byte), NEW p, Phases(s, 0, p), p[Len(s)] = 0
  PROVE  TextOf(s \o t) = TextOf(s) \o TextOf(t)
<1> DEFINE u == s \o t
<1>1. u \in Seq(Byte) /\ Joins(s, t, u)
  BY ByteConcat, Zenon
<1> HIDE DEF u
<1>2. PICK r : Reading(u, Len(u), r) /\ TextOf(u) = r[Len(u)].out
  BY <1>1, TextOfReading, Zenon
<1>3. PICK q : Reading(s, Len(s), q) /\ TextOf(s) = q[Len(s)].out
  BY TextOfReading, Zenon
<1>4. PICK v : Reading(t, Len(t), v) /\ TextOf(t) = v[Len(t)].out
  BY TextOfReading, Zenon
<1>5. r[Len(s)] = q[Len(s)] /\ q[Len(s)].skip = p[Len(s)]
  BY <1>1, <1>2, <1>3, ReadingFront, ZenonT(60)
<1>6. r[Len(s)].skip = 0
  BY <1>5, Zenon
<1>7. r[Len(s) + Len(t)].out = r[Len(s)].out \o v[Len(t)].out
  <2>1. ReadOn(s, t, r, v)
    BY <1>1, <1>2, <1>4, <1>6, ReadingBack, Zenon
  <2> QED
    BY <2>1, Zenon DEF ReadOn
<1>8. Len(u) = Len(s) + Len(t)
  BY <1>1, Zenon DEF Joins
<1>9. TextOf(u) = TextOf(s) \o TextOf(t)
  BY <1>2, <1>3, <1>4, <1>5, <1>7, <1>8, Zenon
<1> QED
  BY <1>9, Zenon DEF u

\* A complete stream is read for itself, and what follows for itself.
LEMMA PlainText ==
  ASSUME NEW s, Plain(s), NEW t \in Seq(Byte)
  PROVE  TextOf(s \o t) = TextOf(s) \o TextOf(t)
<1>1. PICK p : s \in Seq(Byte) /\ Phases(s, 0, p) /\ p[Len(s)] = 0
  BY Zenon DEF Plain, PlainFrom, Stream
<1> QED
  BY <1>1, TextConcat, Zenon

LEMMA TextEmpty == TextOf(<<>>) = <<>>
<1> DEFINE s == <<>>
<1>0. s \in Seq(Byte) /\ Len(s) = 0
  OBVIOUS
<1> HIDE DEF s
<1>1. PICK r : Reading(s, Len(s), r) /\ TextOf(s) = r[Len(s)].out
  BY <1>0, TextOfReading, Zenon
<1>2. r[0] = ReadStart
  BY <1>1, Zenon DEF Reading
<1>3. ReadStart.out = <<>>
  BY DEF ReadStart
<1> QED
  BY <1>0, <1>1, <1>2, <1>3, Zenon DEF s

LEMMA EmptyFirst ==
  ASSUME NEW X, NEW x \in Seq(X)
  PROVE  <<>> \o x = x /\ x \o <<>> = x
BY ConcatEmptySeq

LEMMA StartRead ==
  ASSUME NEW c \in Byte
  PROVE  /\ ReadByte(ReadStart, c) \in Readings
         /\ ReadByte(ReadStart, c).skip = SkipAfter(0, c)
         /\ ReadByte(ReadStart, c).out = ReadOut(0, c)
<1>1. ReadStart \in Readings /\ ReadStart.skip = 0 /\ ReadStart.out = <<>>
  BY DEF ReadStart, Readings
<1>2. <<>> \o ReadOut(0, c) = ReadOut(0, c)
  BY ReadOutType, EmptyFirst, Zenon
<1> QED
  BY <1>1, <1>2, ReadStep, Zenon

LEMMA TextByte ==
  ASSUME NEW c \in Byte
  PROVE  TextOf(<<c>>) = ReadOut(0, c)
<1> DEFINE s == <<c>>
<1>0. s \in Seq(Byte) /\ Len(s) = 1 /\ s[1] = c /\ 1 \in 1 .. Len(s) /\ 1 - 1 = 0
  OBVIOUS
<1> HIDE DEF s
<1>1. PICK r : Reading(s, Len(s), r) /\ TextOf(s) = r[Len(s)].out
  BY <1>0, TextOfReading, Zenon
<1>2. r[0] = ReadStart /\ r[1] = ReadByte(r[1 - 1], s[1])
  BY <1>0, <1>1, Zenon DEF Reading
<1>3. r[1] = ReadByte(ReadStart, c)
  BY <1>0, <1>2, Zenon
<1> QED
  BY <1>0, <1>1, <1>3, StartRead, Zenon DEF s

LEMMA TextCharacter ==
  ASSUME NEW c \in 32 .. 255
  PROVE  TextOf(<<c>>) = ElementsOf(c)
<1>1. c \in Byte /\ ~(0 > 0) /\ ~is_winkeyer_command(c)
  BY DEF Byte, is_winkeyer_command
<1> QED
  BY <1>1, TextByte, Zenon DEF ReadOut

LEMMA TextAbort == TextOf(<<10>>) = <<>>
<1>1. 10 \in Byte /\ is_winkeyer_command(10)
  BY DEF Byte, is_winkeyer_command
<1> QED
  BY <1>1, TextByte, Zenon DEF ReadOut

LEMMA TextPair ==
  ASSUME NEW c \in {2, 3, 11, 28}, NEW n \in Byte
  PROVE  TextOf(<<c, n>>) = <<>>
<1> DEFINE s == <<c, n>>
<1>a. c \in Byte /\ is_winkeyer_command(c) /\ SkipAfter(0, c) = 1 /\ 1 > 0
  BY DEF Byte, is_winkeyer_command, SkipAfter, winkey_commands_parameter_count
<1>0. /\ s \in Seq(Byte) /\ Len(s) = 2 /\ s[1] = c /\ s[2] = n /\ 1 \in 1 .. Len(s) /\ 1 - 1 = 0
      /\ 2 \in 1 .. Len(s) /\ 2 - 1 = 1
  BY <1>a
<1> HIDE DEF s
<1>1. PICK r : Reading(s, Len(s), r) /\ TextOf(s) = r[Len(s)].out
  BY <1>0, TextOfReading, Zenon
<1>2. r[0] = ReadStart /\ r[1] = ReadByte(r[1 - 1], s[1]) /\ r[2] = ReadByte(r[2 - 1], s[2])
  BY <1>0, <1>1, Zenon DEF Reading
<1>3. r[1] = ReadByte(ReadStart, c) /\ r[2] = ReadByte(r[1], n)
  BY <1>0, <1>2, Zenon
<1>4. r[1] \in Readings /\ r[1].skip = 1 /\ r[1].out = <<>>
  BY <1>3, <1>a, StartRead, Zenon DEF ReadOut
<1>5. r[2].out = r[1].out \o ReadOut(r[1].skip, n)
  BY <1>3, <1>4, ReadStep, Zenon
<1>6. ReadOut(1, n) = <<>>
  BY <1>a, Zenon DEF ReadOut
<1>7. <<>> \o <<>> = <<>>
  OBVIOUS
<1> QED
  BY <1>0, <1>1, <1>4, <1>5, <1>6, <1>7, Zenon DEF s

-----------------------------------------------------------------------------
(* The bytes in the buffer.                                                  *)

LEMMA HeadTail ==
  ASSUME NEW X, NEW d \in Seq(X), d # <<>>
  PROVE  d = <<Head(d)>> \o Tail(d) /\ Head(d) \in X /\ Tail(d) \in Seq(X)
<1>1. Head(d) \in X /\ Tail(d) \in Seq(X) /\ <<Head(d)>> \in Seq(X)
  OBVIOUS
<1> DEFINE e == <<Head(d)>> \o Tail(d)
<1>2. e \in Seq(X) /\ Len(e) = Len(d) /\ \A i \in 1 .. Len(d) : e[i] = d[i]
  BY <1>1
<1> HIDE DEF e
<1>3. e = d
  BY <1>2, SeqEqual
<1> QED
  BY <1>1, <1>3, Zenon DEF e

LEMMA TailTail ==
  ASSUME NEW b \in Seq(Byte), ~(Len(b) <= 1)
  PROVE  /\ Len(b) \in Nat /\ Len(b) >= 2 /\ b[1] = Head(b) /\ b[2] = Head(Tail(b))
         /\ Head(Tail(b)) \in Byte /\ Tail(Tail(b)) \in Seq(Byte)
         /\ Len(Tail(Tail(b))) = Len(b) - 2
         /\ \A i \in 1 .. Len(b) - 2 : Tail(Tail(b))[i] = b[i + 2]
OBVIOUS

LEMMA SkipTwo ==
  ASSUME NEW b \in Seq(Byte), ~(Len(b) <= 1)
  PROVE  SubSeq(b, 3, Len(b)) = Tail(Tail(b))
<1> DEFINE x == SubSeq(b, 3, Len(b))
           y == Tail(Tail(b))
<1>1. x \in Seq(Byte) /\ Len(x) = Len(b) - 2 /\ \A i \in 1 .. Len(b) - 2 : x[i] = b[i + 2]
  <2>1. Len(b) \in Nat /\ Len(b) >= 2 /\ \A i \in 3 .. Len(b) : b[i] \in Byte
    OBVIOUS
  <2>2. /\ x \in Seq(Byte) /\ Len(x) = IF 3 <= Len(b) THEN Len(b) - 3 + 1 ELSE 0
        /\ \A i \in 1 .. Len(b) - 3 + 1 : x[i] = b[3 + i - 1]
    BY <2>1, SubSeqProperties
  <2> HIDE DEF x
  <2>3. \A i \in 1 .. Len(b) - 2 : i \in 1 .. Len(b) - 3 + 1 /\ 3 + i - 1 = i + 2
    BY <2>1
  <2>4. \A i \in 1 .. Len(b) - 2 : x[i] = b[i + 2]
    BY <2>2, <2>3, Zenon
  <2>5. Len(x) = Len(b) - 2
    <3>1. Len(x) = IF 3 <= Len(b) THEN Len(b) - 3 + 1 ELSE 0
      BY <2>2, Zenon
    <3>2. \A k \in Nat : k >= 2 => (IF 3 <= k THEN k - 3 + 1 ELSE 0) = k - 2
      OBVIOUS
    <3> QED
      BY <2>1, <3>1, <3>2, Zenon
  <2> QED
    BY <2>2, <2>4, <2>5, Zenon
<1>2. y \in Seq(Byte) /\ Len(y) = Len(b) - 2 /\ \A i \in 1 .. Len(b) - 2 : y[i] = b[i + 2]
  BY TailTail, Zenon
<1> HIDE DEF x, y
<1>3. x = y
  BY <1>1, <1>2, SeqEqual
<1> QED
  BY <1>3, Zenon DEF x, y

LEMMA FirstTwo ==
  ASSUME NEW b \in Seq(Byte), ~(Len(b) <= 1), Head(b) = 28
  PROVE  b = <<28, Head(Tail(b))>> \o Tail(Tail(b))
<1> DEFINE x == <<28, Head(Tail(b))>>
           y == Tail(Tail(b))
           z == x \o y
<1>1. /\ x \in Seq(Byte) /\ Len(x) = 2 /\ x[1] = b[1] /\ x[2] = b[2] /\ Len(b) \in Nat /\ Len(b) >= 2
  <2>1. /\ Len(b) \in Nat /\ Len(b) >= 2 /\ b[1] = 28 /\ b[2] = Head(Tail(b))
        /\ Head(Tail(b)) \in Byte
    BY TailTail, Zenon
  <2>2. 28 \in Byte
    BY DEF Byte
  <2> QED
    BY <2>1, <2>2
<1>2. y \in Seq(Byte) /\ Len(y) = Len(b) - 2 /\ \A i \in 1 .. Len(b) - 2 : y[i] = b[i + 2]
  BY TailTail, Zenon
<1> HIDE DEF x, y
<1>3. z \in Seq(Byte) /\ Joins(x, y, z)
  BY <1>1, <1>2, ByteConcat, Zenon
<1> HIDE DEF z
<1>4. Len(z) = Len(b)
  BY <1>1, <1>2, <1>3 DEF Joins
<1>5. ASSUME NEW i \in 1 .. Len(b) PROVE z[i] = b[i]
  <2>1. CASE i \in 1 .. 2
    BY <1>1, <1>3, <2>1 DEF Joins
  <2>2. CASE i > 2
    <3> DEFINE k == i - 2
    <3>1. k \in 1 .. Len(y) /\ i = Len(x) + k /\ k \in 1 .. Len(b) - 2 /\ k + 2 = i
      BY <1>1, <1>2, <2>2
    <3> HIDE DEF k
    <3>2. z[Len(x) + k] = y[k] /\ y[k] = b[k + 2]
      BY <1>2, <1>3, <3>1, Zenon DEF Joins
    <3> QED
      BY <3>1, <3>2, Zenon
  <2> QED
    BY <2>1, <2>2
<1>6. z = b
  BY <1>3, <1>4, <1>5, SeqEqual
<1> QED
  BY <1>6, Zenon DEF x, y, z

\* The byte at the front of what is fed moves to the back of the buffer.
LEMMA MoveByte ==
  ASSUME NEW b \in Seq(Byte), NEW d \in Seq(Byte), d # <<>>
  PROVE  Append(b, Head(d)) \o Tail(d) = b \o d
<1> DEFINE x == <<Head(d)>>
           y == Tail(d)
<1>1. d = x \o y /\ Head(d) \in Byte /\ y \in Seq(Byte)
  BY HeadTail, Zenon
<1>2. x \in Seq(Byte) /\ Append(b, Head(d)) = b \o x
  BY <1>1
<1> HIDE DEF x, y
<1>3. Regrouped(b, x, y)
  BY <1>1, <1>2, Regroup, Zenon
<1> QED
  BY <1>1, <1>2, <1>3, Zenon DEF y, Regrouped

LEMMA StreamByte ==
  ASSUME NEW k \in Nat, NEW c \in Byte, k = 0 => c = 28 \/ c \in 32 .. 255
  PROVE  Stream(<<c>>, k, SkipAfter(k, c))
<1> DEFINE s == <<c>>
           l == SkipAfter(k, c)
           p == [i \in 0 .. 1 |-> IF i = 0 THEN k ELSE l]
<1>0. l \in Nat /\ s \in Seq(Byte) /\ Len(s) = 1 /\ s[1] = c
  BY SkipType
<1>1. l = SkipAfter(k, c)
  OBVIOUS
<1> HIDE DEF s, l
<1>2. p \in [0 .. 1 -> Nat] /\ p[0] = k /\ p[1] = l
  BY <1>0
<1> HIDE DEF p
<1>3. Phases(s, k, p) /\ Lawful(s, p) /\ p[Len(s)] = l
  <2>1. \A i \in 1 .. Len(s) : i = 1 /\ i - 1 = 0
    BY <1>0
  <2>2. \A i \in 1 .. Len(s) : p[i] = SkipAfter(p[i - 1], s[i])
    BY <1>0, <1>1, <1>2, <2>1, Zenon
  <2>3. Lawful(s, p)
    BY <1>0, <1>2, <2>1, Zenon DEF Lawful
  <2> QED
    BY <1>0, <1>2, <2>2, <2>3 DEF Phases
<1>4. Stream(s, k, l)
  BY <1>0, <1>3, Zenon DEF Stream
<1> QED
  BY <1>4, Zenon DEF s, l

LEMMA StreamAppend ==
  ASSUME NEW k \in Nat, NEW b, Stream(b, 0, k), NEW c \in Byte,
         k = 0 => c = 28 \/ c \in 32 .. 255
  PROVE  Stream(Append(b, c), 0, SkipAfter(k, c))
<1>1. Stream(<<c>>, k, SkipAfter(k, c))
  BY StreamByte, Zenon
<1>2. SkipAfter(k, c) \in Nat /\ 0 \in Nat
  BY SkipType
<1>3. Stream(b \o <<c>>, 0, SkipAfter(k, c))
  BY <1>1, <1>2, StreamConcat, Zenon
<1>4. b \in Seq(Byte)
  BY Zenon DEF Stream
<1>5. b \o <<c>> = Append(b, c)
  BY <1>4
<1> QED
  BY <1>3, <1>5, Zenon

-----------------------------------------------------------------------------
(* Text is keyed in order, as long as the buffer has room.                   *)

\* The hypothesis: a message is fed into a buffer that has room for its bytes.
\* (A full buffer drops its oldest byte, and with it text.)
NoOverflow == cl_pc = "feed" /\ cl_data # <<>> => Len(buffer) < BufSize

\* The bytes that the client thread is to add to the buffer.
Fed == IF waiting > 0 THEN <<>> ELSE cl_data

TextInv ==
  /\ remaining_args \in Nat /\ Stream(buffer, 0, remaining_args)
  /\ sent \in Seq(Element) /\ playing \in Seq(Element)
  /\ accepted = (sent \o playing) \o TextOf(buffer \o Fed)

LEMMA FedType ==
  ASSUME Shape
  PROVE  cl_data \in Seq(Byte) /\ Fed \in Seq(Byte)
<1>0. 0 \in Byte /\ 1 \in Byte /\ 2 \in Byte /\ 3 \in Byte /\ 10 \in Byte /\ 11 \in Byte
  BY DEF Byte
<1>a. \A m, n \in Byte : <<m>> \in Seq(Byte) /\ <<m, n>> \in Seq(Byte)
  OBVIOUS
<1>b. <<>> \in Seq(Byte)
  OBVIOUS
<1>1. CASE cl_pc \in {"recv", "done"}
  <2>1. cl_data = <<>>
    BY <1>1 DEF Shape
  <2> QED
    BY <2>1 DEF Fed
<1>2. CASE cl_pc = "feed"
  <2>1. CASE PlainFrom(cl_data, remaining_args)
    BY <2>1 DEF PlainFrom, Stream, Fed
  <2>2. CASE Immediate(cl_data) \/ cl_data = <<11, 1>> \/ \E n \in Byte : cl_data = <<n>>
    BY <1>0, <1>a, <1>b, <2>2, Zenon DEF Immediate, Fed
  <2> QED
    BY <1>2, <2>1, <2>2 DEF Shape, FeedShape
<1>3. CASE cl_pc = "untune"
  BY <1>0, <1>a, <1>b, <1>3, Zenon DEF Shape, UntuneShape, Fed
<1> QED
  BY <1>1, <1>2, <1>3 DEF Shape

LEMMA FedTypeNext == Shape' => (cl_data \in Seq(Byte) /\ Fed \in Seq(Byte))'
<1>1. Shape => cl_data \in Seq(Byte) /\ Fed \in Seq(Byte)
  BY FedType
<1> QED
  BY <1>1, PTL

LEMMA BufferType ==
  ASSUME TextInv
  PROVE  buffer \in Seq(Byte)
BY Zenon DEF TextInv, Stream

\* The text of the buffer, when it is complete, and of what comes after it.
LEMMA BufferThen ==
  ASSUME NEW b, Stream(b, 0, 0), NEW t \in Seq(Byte)
  PROVE  TextOf(b \o t) = TextOf(b) \o TextOf(t)
BY PlainText, Zenon DEF Plain, PlainFrom

\* A command of the client thread adds no text.
LEMMA BufferSilent ==
  ASSUME NEW b, Stream(b, 0, 0), NEW t \in Seq(Byte), TextOf(t) = <<>>
  PROVE  TextOf(b \o t) = TextOf(b \o <<>>)
<1>1. TextOf(b \o t) = TextOf(b) \o <<>>
  BY BufferThen, Zenon
<1>2. <<>> \in Seq(Byte)
  OBVIOUS
<1>3. TextOf(b \o <<>>) = TextOf(b) \o <<>>
  BY <1>2, BufferThen, TextEmpty, Zenon
<1> QED
  BY <1>1, <1>3, Zenon

LEMMA TextInit == Init => TextInv
<1> SUFFICES ASSUME Init PROVE TextInv
  OBVIOUS
<1>1. /\ buffer = <<>> /\ remaining_args = 0 /\ sent = <<>> /\ playing = <<>>
      /\ accepted = <<>> /\ cl_data = <<>> /\ waiting = 0
  BY DEF Init, KeyerInit
<1>2. Stream(<<>>, 0, 0)
  BY PlainEmpty, Zenon DEF Plain, PlainFrom
<1>3. Fed = <<>>
  BY <1>1 DEF Fed
<1>4. <<>> \o <<>> = <<>> /\ <<>> \in Seq(Element) /\ 0 \in Nat
  OBVIOUS
<1>5. accepted = (sent \o playing) \o TextOf(buffer \o Fed)
  BY <1>1, <1>3, <1>4, TextEmpty, Zenon
<1> QED
  BY <1>1, <1>2, <1>4, <1>5, Zenon DEF TextInv

\* The frame: nothing of the text moves.
LEMMA TextFrame ==
  ASSUME TextInv, remaining_args' \in Nat, Stream(buffer', 0, remaining_args'),
         sent' = sent, playing' = playing, accepted' = accepted,
         TextOf(buffer' \o Fed') = TextOf(buffer \o Fed)
  PROVE  TextInv'
BY Zenon DEF TextInv

LEMMA TextReceive ==
  ASSUME Shape, TextInv, NEW msg \in to_come.of, Receive(msg)
  PROVE  TextInv'
<1>1. cl_data = <<>> /\ waiting = 0 /\ remaining_args = 0
  BY DEF Shape, Receive
<1>2. UNCHANGED <<sent, playing, buffer, waiting, remaining_args>>
  BY DEF Receive, keyerVars, sending, protocol, history
<1>3. Fed = <<>> /\ Fed' = cl_data'
  BY <1>1, <1>2 DEF Fed
<1>4. remaining_args' \in Nat /\ Stream(buffer', 0, remaining_args') /\ Stream(buffer, 0, 0)
  BY <1>1, <1>2, Zenon DEF TextInv
<1>5. cl_data' \in Seq(Byte)
  BY ShapeReceive, FedTypeNext
<1>6. TextOf(buffer \o Fed) = TextOf(buffer)
  <2>1. buffer \in Seq(Byte)
    BY BufferType
  <2> QED
    BY <1>3, <2>1, EmptyFirst, Zenon
<1>7. TextOf(buffer' \o Fed') = TextOf(buffer) \o TextOf(cl_data')
  <2>1. TextOf(buffer \o cl_data') = TextOf(buffer) \o TextOf(cl_data')
    BY <1>4, <1>5, BufferThen, Zenon
  <2> QED
    BY <1>2, <1>3, <2>1, Zenon
<1>8. /\ sent \o playing \in Seq(Element) /\ TextOf(buffer) \in Seq(Element)
      /\ TextOf(cl_data') \in Seq(Element)
  BY <1>5, BufferType, TextType, ConcatProperties DEF TextInv
<1>9. accepted' = accepted \o TextOf(cl_data')
  <2>1. CASE msg.kind = "exit" /\ UNCHANGED <<cl_data, accepted>>
    <3>1. accepted \in Seq(Element)
      BY <1>6, <1>8, ConcatProperties DEF TextInv
    <3>2. cl_data' = <<>> /\ accepted' = accepted
      BY <1>1, <2>1
    <3> QED
      BY <3>1, <3>2, TextEmpty, EmptyFirst, Zenon
  <2>2. CASE cl_data' = <<11, 0>> /\ accepted' = accepted
    <3>1. accepted \in Seq(Element)
      BY <1>6, <1>8, ConcatProperties DEF TextInv
    <3>2. 0 \in Byte /\ 11 \in {2, 3, 11, 28}
      BY DEF Byte
    <3>3. TextOf(cl_data') = <<>>
      BY <2>2, <3>2, TextPair, Zenon
    <3> QED
      BY <2>2, <3>1, <3>3, EmptyFirst, Zenon
  <2>3. CASE accepted' = accepted \o TextOf(cl_data')
    BY <2>3
  <2> QED
    BY <2>1, <2>2, <2>3 DEF Receive, tuning
<1>10. accepted' = (sent' \o playing') \o TextOf(buffer' \o Fed')
  <2> DEFINE a == sent \o playing
             x == TextOf(buffer)
             y == TextOf(cl_data')
  <2>1. Regrouped(a, x, y)
    BY <1>8, Regroup, Zenon
  <2>2. accepted = a \o x
    BY <1>6, Zenon DEF TextInv
  <2>3. accepted' = (a \o x) \o y
    BY <1>9, <2>2, Zenon
  <2>4. accepted' = a \o (x \o y)
    BY <2>1, <2>3, Zenon DEF Regrouped
  <2> QED
    BY <1>2, <1>7, <2>4, Zenon
<1> QED
  BY <1>2, <1>4, <1>10, Zenon DEF TextInv

\* A byte of text goes from the client thread to the buffer; a clear drops the
\* text of the buffer, and every other command none.
LEMMA TextFeed ==
  ASSUME Shape, TextInv, NoOverflow, Feed
  PROVE  TextInv'
<1>1. PICK c : c = Head(cl_data)
  OBVIOUS
<1>2. FedPlain(c) \/ FedAbort(c) \/ FedCommand(c) \/ FedParameter(c)
  BY <1>1, FeedCases, Zenon
<1>3. /\ UNCHANGED <<sent, playing>> /\ cl_data # <<>> /\ cl_data' = Tail(cl_data)
      /\ accepted' = IF buffer' = <<>> /\ buffer # <<>> THEN sent \o playing ELSE accepted
      /\ Len(buffer) < BufSize
  BY DEF Feed, winkeyer_data, sending, history, NoOverflow
<1>4. buffer \in Seq(Byte) /\ cl_data \in Seq(Byte)
  BY BufferType, FedType
<1>5. CASE FedPlain(c)
  <2>1. /\ waiting = 0 /\ waiting' = 0 /\ c \in Byte /\ remaining_args \in Nat
        /\ (remaining_args = 0 => c = 28 \/ c \in 32 .. 255) /\ BufferedByte(c)
        /\ remaining_args' \in Nat /\ remaining_args' = SkipAfter(remaining_args, c)
    BY <1>5, Zenon DEF FedPlain
  <2>2. buffer' = Append(buffer, c)
    BY <1>3, <2>1 DEF BufferedByte
  <2>3. Stream(Append(buffer, c), 0, SkipAfter(remaining_args, c))
    BY <2>1, StreamAppend, Zenon DEF TextInv
  <2>4. Fed = cl_data /\ Fed' = cl_data'
    BY <2>1 DEF Fed
  <2>5. Append(buffer, Head(cl_data)) \o Tail(cl_data) = buffer \o cl_data
    BY <1>3, <1>4, MoveByte, Zenon
  <2>6. buffer' \o Fed' = buffer \o Fed
    BY <1>1, <1>3, <2>2, <2>4, <2>5, Zenon
  <2>7. buffer' # <<>>
    BY <1>4, <2>1, <2>2
  <2>8. accepted' = accepted
    BY <1>3, <2>7, Zenon
  <2> QED
    BY <1>3, <2>1, <2>2, <2>3, <2>6, <2>8, TextFrame, Zenon
<1>6. CASE FedAbort(c)
  <2>1. /\ waiting = 0 /\ waiting' = 0 /\ remaining_args = 0 /\ remaining_args' = 0
        /\ cl_data = <<10>> /\ cl_data' = <<>> /\ buffer' = <<>>
    BY <1>6, Zenon DEF FedAbort
  <2>2. Fed = <<10>> /\ Fed' = <<>> /\ 0 \in Nat /\ <<>> \o <<>> = <<>> /\ <<>> \in Seq(Byte)
    BY <2>1 DEF Fed
  <2>3. Stream(<<>>, 0, 0)
    BY PlainEmpty, Zenon DEF Plain, PlainFrom
  <2>4. TextOf(buffer' \o Fed') = <<>>
    BY <2>1, <2>2, TextEmpty, Zenon
  <2>5. sent \o playing \in Seq(Element)
    BY ConcatProperties DEF TextInv
  <2>6. accepted' = sent \o playing
    <3>1. CASE buffer # <<>>
      BY <1>3, <2>1, <3>1, Zenon
    <3>2. CASE buffer = <<>>
      <4>1. accepted' = accepted
        BY <1>3, <3>2, Zenon
      <4>2. TextOf(buffer \o Fed) = TextOf(<<10>>)
        BY <1>4, <2>1, <2>2, <3>2, FedType, EmptyFirst, Zenon
      <4>3. accepted = (sent \o playing) \o <<>>
        BY <4>2, TextAbort, Zenon DEF TextInv
      <4> QED
        BY <2>5, <4>1, <4>3, EmptyFirst, Zenon
    <3> QED
      BY <3>1, <3>2
  <2>7. accepted' = (sent' \o playing') \o TextOf(buffer' \o Fed')
    BY <1>3, <2>4, <2>5, <2>6, EmptyFirst, Zenon
  <2> QED
    BY <1>3, <2>1, <2>2, <2>3, <2>7, Zenon DEF TextInv
<1>7. CASE FedCommand(c)
  <2>1. /\ c \in {2, 3, 11} /\ waiting = 0 /\ waiting' = 1 /\ remaining_args = 0
        /\ remaining_args' = 0 /\ buffer' = buffer
    BY <1>7, Zenon DEF FedCommand
  <2>2. PICK n \in Byte : cl_data = <<c, n>>
    BY <1>7 DEF FedCommand
  <2>3. Fed = <<c, n>> /\ Fed' = <<>> /\ c \in {2, 3, 11, 28} /\ 0 \in Nat
    BY <2>1, <2>2 DEF Fed
  <2>4. TextOf(<<c, n>>) = <<>> /\ <<c, n>> \in Seq(Byte)
    BY <1>4, <2>2, <2>3, TextPair, Zenon
  <2>5. Stream(buffer, 0, 0)
    BY <2>1, Zenon DEF TextInv
  <2>6. TextOf(buffer \o <<c, n>>) = TextOf(buffer \o <<>>)
    BY <2>4, <2>5, BufferSilent, Zenon
  <2>7. accepted' = accepted
    BY <1>3, <2>1, Zenon
  <2> QED
    BY <1>3, <2>1, <2>3, <2>5, <2>6, <2>7, TextFrame, Zenon
<1>8. CASE FedParameter(c)
  <2>1. /\ waiting = 1 /\ waiting' = 0 /\ remaining_args = 0
        /\ remaining_args' = 0 /\ buffer' = buffer /\ cl_data' = <<>>
    BY <1>8, Zenon DEF FedParameter
  <2>2. Fed = <<>> /\ Fed' = <<>> /\ 0 \in Nat
    BY <2>1 DEF Fed
  <2>3. accepted' = accepted
    BY <1>3, <2>1, Zenon
  <2>4. Stream(buffer, 0, 0)
    BY <2>1, Zenon DEF TextInv
  <2> QED
    BY <1>3, <2>1, <2>2, <2>3, <2>4, TextFrame, Zenon
<1> QED
  BY <1>2, <1>5, <1>6, <1>7, <1>8

LEMMA TextUntune ==
  ASSUME Shape, TextInv, Untune
  PROVE  TextInv'
<1>1. UNCHANGED <<sent, playing, accepted>>
  BY DEF Untune, winkeyer_data, keyerVars, sending, history
<1>2. buffer' = buffer
  BY UntuneCases
<1>3. remaining_args = 0 /\ 0 \in Nat
  BY DEF Untune, Shape, UntuneShape
<1>4. Stream(buffer, 0, 0)
  BY <1>3, Zenon DEF TextInv
<1>5. CASE UntuneCommand
  <2>1. Fed = <<11, 0>> /\ Fed' = <<>> /\ remaining_args' = 0
    BY <1>5 DEF Fed, UntuneCommand
  <2>2. 11 \in {2, 3, 11, 28} /\ 0 \in Byte /\ <<11, 0>> \in Seq(Byte)
    BY DEF Byte
  <2>3. TextOf(<<11, 0>>) = <<>>
    BY <2>2, TextPair, Zenon
  <2>4. TextOf(buffer \o <<11, 0>>) = TextOf(buffer \o <<>>)
    BY <1>4, <2>2, <2>3, BufferSilent, Zenon
  <2> QED
    BY <1>1, <1>2, <1>3, <1>4, <2>1, <2>4, TextFrame, Zenon
<1>6. CASE UntuneParameter \/ UntuneEnd
  <2>1. Fed = <<>> /\ Fed' = <<>> /\ remaining_args' = 0
    <3>1. CASE UntuneParameter
      BY <3>1 DEF Fed, UntuneParameter
    <3>2. CASE UntuneEnd
      <4>1. cl_data' = cl_data
        BY <3>2, UntuneCases DEF UntuneCommand, UntuneParameter, UntuneEnd
      <4> QED
        BY <1>3, <3>2, <4>1 DEF Fed, UntuneEnd, keyerVars, protocol
    <3> QED
      BY <1>6, <3>1, <3>2
  <2> QED
    BY <1>1, <1>2, <1>3, <1>4, <2>1, TextFrame, Zenon
<1> QED
  BY <1>5, <1>6, UntuneCases

LEMMA SwitchSent ==
  ASSUME NEW next, switch_to(next)
  PROVE  sent' = IF next = "send_element" /\ state # next THEN Append(sent, sent_element')
                                                          ELSE sent
BY DEF switch_to

\* An element moves from the front of a character to the end of what was sent.
LEMMA MoveElement ==
  ASSUME NEW x \in Seq(Element), NEW y \in Seq(Element), y # <<>>
  PROVE  /\ Append(x, Head(y)) \in Seq(Element) /\ Tail(y) \in Seq(Element)
         /\ Append(x, Head(y)) \o Tail(y) = x \o y
<1> DEFINE h == <<Head(y)>>
           t == Tail(y)
<1>1. y = h \o t /\ Head(y) \in Element /\ t \in Seq(Element)
  BY HeadTail, Zenon
<1>2. h \in Seq(Element) /\ Append(x, Head(y)) = x \o h /\ Append(x, Head(y)) \in Seq(Element)
  BY <1>1
<1> HIDE DEF h, t
<1>3. Regrouped(x, h, t)
  BY <1>1, <1>2, Regroup, Zenon
<1>4. (x \o h) \o t = x \o y
  BY <1>1, <1>3, Zenon DEF Regrouped
<1> QED
  BY <1>1, <1>2, <1>4, Zenon DEF t

\* The buffer without a complete unit at its front.
LEMMA DropUnit ==
  ASSUME NEW u, Plain(u), NEW b \in Seq(Byte), NEW t \in Seq(Byte)
  PROVE  TextOf((u \o b) \o t) = TextOf(u) \o TextOf(b \o t)
<1>1. u \in Seq(Byte)
  BY Zenon DEF Plain, PlainFrom, Stream
<1>2. b \o t \in Seq(Byte)
  BY ByteConcat, Zenon
<1>3. Regrouped(u, b, t)
  BY <1>1, Regroup, Zenon
<1>4. TextOf(u \o (b \o t)) = TextOf(u) \o TextOf(b \o t)
  BY <1>2, PlainText, Zenon
<1> QED
  BY <1>3, <1>4, Zenon DEF Regrouped

\* The first byte of the buffer, when it is looked at between characters.
LEMMA FrontByte ==
  ASSUME TextInv, buffer # <<>>
  PROVE  /\ Head(buffer) \in Byte /\ Tail(buffer) \in Seq(Byte)
         /\ buffer = <<Head(buffer)>> \o Tail(buffer)
         /\ Head(buffer) = 28 \/ Head(buffer) \in 32 .. 255
         /\ Stream(Tail(buffer), SkipAfter(0, Head(buffer)), remaining_args)
<1>1. 0 \in Nat /\ buffer \in Seq(Byte)
  BY BufferType
<1>2. buffer = <<Head(buffer)>> \o Tail(buffer)
  BY <1>1, HeadTail, Zenon
<1> QED
  BY <1>1, <1>2, StreamTail, Zenon DEF TextInv

LEMMA TextNextElement ==
  ASSUME Shape, TextInv, NextElement, UNCHANGED <<cl_data, accepted>>
  PROVE  TextInv'
<1>1. /\ playing # <<>> /\ playing' = Tail(playing) /\ sent_element' = Head(playing)
      /\ UNCHANGED <<buffer, remaining_args, waiting>>
      /\ switch_to("send_element") /\ state # "send_element"
  BY DEF NextElement, protocol
<1>2. sent' = Append(sent, Head(playing))
  BY <1>1, SwitchSent, Zenon
<1>3. sent' \in Seq(Element) /\ playing' \in Seq(Element) /\ sent' \o playing' = sent \o playing
  BY <1>1, <1>2, MoveElement, Zenon DEF TextInv
<1>4. Fed' = Fed
  BY <1>1, Zenon DEF Fed
<1> QED
  BY <1>1, <1>3, <1>4, Zenon DEF TextInv

LEMMA TextBufferedCommand ==
  ASSUME Shape, TextInv, BufferedCommand, UNCHANGED <<cl_data, accepted>>
  PROVE  TextInv'
<1>1. /\ buffer # <<>> /\ ~Incomplete /\ is_winkeyer_command(Head(buffer))
      /\ UNCHANGED <<playing, remaining_args, waiting>> /\ switch_to("winkeyer")
  BY DEF BufferedCommand, protocol
<1>2. sent' = sent
  <2>1. "winkeyer" # "send_element"
    OBVIOUS
  <2> QED
    BY <1>1, <2>1, SwitchSent, Zenon
<1>3. /\ Tail(buffer) \in Seq(Byte) /\ buffer = <<Head(buffer)>> \o Tail(buffer)
      /\ Head(buffer) = 28 \/ Head(buffer) \in 32 .. 255
      /\ Stream(Tail(buffer), SkipAfter(0, Head(buffer)), remaining_args)
  BY <1>1, FrontByte, Zenon
<1>4. Head(buffer) = 28
  <2>1. \A h \in 32 .. 255 : ~is_winkeyer_command(h)
    BY DEF is_winkeyer_command
  <2> QED
    BY <1>1, <1>3, <2>1, Zenon
<1>5. SkipAfter(0, 28) = 1 /\ winkey_commands_parameter_count[28] = 1 /\ 28 # 10
  BY DEF SkipAfter, is_winkeyer_command, winkey_commands_parameter_count
<1>6. ~(Len(buffer) <= 1)
  BY <1>1, <1>4, <1>5, Zenon DEF Incomplete
<1> DEFINE n == Head(Tail(buffer))
           b == Tail(Tail(buffer))
<1>7. buffer \in Seq(Byte)
  BY BufferType
<1>8. Tail(buffer) # <<>>
  BY <1>6, <1>7
<1>9. n \in Byte /\ b \in Seq(Byte) /\ Stream(b, SkipAfter(1, n), remaining_args)
  <2>1. Stream(Tail(buffer), 1, remaining_args) /\ 1 \in Nat
    BY <1>3, <1>4, <1>5
  <2> QED
    BY <1>8, <2>1, StreamTail, Zenon DEF TextInv
<1>10. SkipAfter(1, n) = 0
  BY DEF SkipAfter
<1>11. buffer' = b
  <2>1. buffer' = Rest(1 + winkey_commands_parameter_count[Head(buffer)])
    BY <1>4, <1>5 DEF BufferedCommand
  <2>2. buffer' = SubSeq(buffer, 3, Len(buffer))
    <3>1. 1 + winkey_commands_parameter_count[Head(buffer)] = 2
      BY <1>4, <1>5
    <3>2. buffer' = SubSeq(buffer, 2 + 1, Len(buffer))
      BY <2>1, <3>1, Zenon DEF Rest
    <3> QED
      BY <3>2
  <2>3. SubSeq(buffer, 3, Len(buffer)) = b
    BY <1>6, <1>7, SkipTwo, Zenon
  <2> QED
    BY <2>2, <2>3, Zenon
<1>12. Plain(<<28, n>>) /\ TextOf(<<28, n>>) = <<>>
  <2>1. 28 \in {2, 3, 11, 28}
    OBVIOUS
  <2> QED
    BY <1>9, <2>1, PlainSpeed, TextPair, Zenon
<1>13. buffer = <<28, n>> \o b
  BY <1>4, <1>6, <1>7, FirstTwo, Zenon
<1>14. Fed' = Fed /\ Fed \in Seq(Byte)
  BY <1>1, FedType, Zenon DEF Fed
<1> HIDE DEF n, b
<1>15. TextOf((<<28, n>> \o b) \o Fed) = <<>> \o TextOf(b \o Fed)
  <2>1. TextOf((<<28, n>> \o b) \o Fed) = TextOf(<<28, n>>) \o TextOf(b \o Fed)
    BY <1>9, <1>12, <1>14, DropUnit, Zenon
  <2> QED
    BY <1>12, <2>1, Zenon
<1>16. TextOf(b \o Fed) \in Seq(Element)
  BY <1>9, <1>14, ByteConcat, TextType, Zenon
<1>17. TextOf(buffer' \o Fed') = TextOf(buffer \o Fed)
  BY <1>11, <1>13, <1>14, <1>15, <1>16, EmptyFirst, Zenon
<1>18. Stream(buffer', 0, remaining_args') /\ remaining_args' \in Nat
  BY <1>1, <1>9, <1>10, <1>11, Zenon DEF TextInv
<1> QED
  BY <1>1, <1>2, <1>17, <1>18, TextFrame, Zenon

LEMMA TextNextCharacter ==
  ASSUME Shape, TextInv, NextCharacter, UNCHANGED <<cl_data, accepted>>
  PROVE  TextInv'
<1> DEFINE c == Head(buffer)
           e == ElementsOf(c)
<1>1. /\ buffer # <<>> /\ ~is_winkeyer_command(c) /\ playing = <<>>
      /\ buffer' = Tail(buffer) /\ UNCHANGED <<remaining_args, waiting>> /\ state = "winkeyer"
  BY DEF NextCharacter, protocol, Between
<1>2. /\ c \in Byte /\ Tail(buffer) \in Seq(Byte) /\ buffer = <<c>> \o Tail(buffer)
      /\ c = 28 \/ c \in 32 .. 255
      /\ Stream(Tail(buffer), SkipAfter(0, c), remaining_args)
  BY <1>1, FrontByte, Zenon
<1> HIDE DEF c
<1>3. c \in 32 .. 255 /\ SkipAfter(0, c) = 0
  BY <1>1, <1>2 DEF is_winkeyer_command, SkipAfter
<1>4. Fed' = Fed /\ Fed \in Seq(Byte)
  BY <1>1, FedType, Zenon DEF Fed
<1>5. Plain(<<c>>) /\ TextOf(<<c>>) = e
  BY <1>3, PlainCharacter, TextCharacter, Zenon
<1>6. e \in Seq(Element)
  BY ElementsType, Zenon
<1>7. TextOf(buffer \o Fed) = e \o TextOf(buffer' \o Fed')
  <2>1. TextOf((<<c>> \o Tail(buffer)) \o Fed) = TextOf(<<c>>) \o TextOf(Tail(buffer) \o Fed)
    BY <1>2, <1>4, <1>5, DropUnit, Zenon
  <2> QED
    BY <1>1, <1>2, <1>4, <1>5, <2>1, Zenon
<1>8. TextOf(buffer' \o Fed') \in Seq(Element)
  BY <1>1, <1>2, <1>4, ByteConcat, TextType, Zenon
<1>9. /\ sent' \in Seq(Element) /\ playing' \in Seq(Element)
      /\ sent' \o playing' = (sent \o playing) \o e
  <2>0. sent \in Seq(Element) /\ sent \o playing = sent
    <3>1. sent \in Seq(Element)
      BY DEF TextInv
    <3> QED
      BY <1>1, <3>1, EmptyFirst, Zenon
  <2>1. CASE c # 124 /\ c \in DOMAIN Pattern
    <3>1. e = Pattern[c] /\ e # <<>>
      BY <2>1, KeyerAssumption, Zenon DEF ElementsOf, Bar
    <3>2. /\ sent_element' = Head(Pattern[c]) /\ playing' = Tail(Pattern[c])
          /\ switch_to("send_element")
      BY <2>1 DEF NextCharacter, c
    <3>3. sent' = Append(sent, Head(Pattern[c]))
      <4>1. "winkeyer" # "send_element"
        OBVIOUS
      <4> QED
        BY <1>1, <3>2, <4>1, SwitchSent, Zenon
    <3>4. sent' = Append(sent, Head(e)) /\ playing' = Tail(e)
      BY <3>1, <3>2, <3>3, Zenon
    <3> HIDE DEF e
    <3> QED
      BY <1>6, <2>0, <3>1, <3>4, MoveElement, Zenon
  <2>2. CASE ~(c # 124 /\ c \in DOMAIN Pattern)
    <3>1. e = <<>>
      BY <2>2, Zenon DEF ElementsOf, Bar
    <3>2. /\ playing' = playing
          /\ switch_to("half_dot_gap") \/ switch_to("inter_word_space")
      BY <2>2 DEF NextCharacter, c
    <3>3. sent' = sent
      <4>1. "half_dot_gap" # "send_element" /\ "inter_word_space" # "send_element"
        OBVIOUS
      <4> QED
        BY <3>2, <4>1, SwitchSent, Zenon
    <3> QED
      BY <1>1, <2>0, <3>1, <3>2, <3>3, EmptyFirst, Zenon DEF TextInv
  <2> QED
    BY <2>1, <2>2
<1>10. accepted' = (sent' \o playing') \o TextOf(buffer' \o Fed')
  <2> DEFINE a == sent \o playing
             x == TextOf(buffer' \o Fed')
  <2>1. a \in Seq(Element)
    BY ConcatProperties DEF TextInv
  <2>2. accepted' = a \o (e \o x)
    BY <1>7, Zenon DEF TextInv
  <2> HIDE DEF a, x, e
  <2>3. Regrouped(a, e, x)
    BY <1>6, <1>8, <2>1, Regroup, Zenon DEF x
  <2> QED
    BY <1>9, <2>2, <2>3, Zenon DEF Regrouped, a, x
<1> QED
  BY <1>1, <1>2, <1>3, <1>9, <1>10, Zenon DEF TextInv

LEMMA TextQuietTurn ==
  ASSUME TextInv, UNCHANGED <<cl_data, accepted>>,
         TimedWait \/ Idle \/ ElementEnd \/ SpaceEnd \/ WordSpaceEnd \/ CharSpace \/ BufferWait
  PROVE  TextInv'
<1>1. UNCHANGED <<playing, buffer, remaining_args, waiting>>
  BY DEF TimedWait, Idle, ElementEnd, SpaceEnd, WordSpaceEnd, CharSpace, BufferWait, Stay, protocol
<1>2. \E next : switch_to(next) /\ (next # "send_element" \/ state = next)
  <2>1. ASSUME TimedWait \/ BufferWait PROVE switch_to(state)
    BY <2>1 DEF TimedWait, BufferWait, Stay
  <2>2. ASSUME Idle PROVE switch_to("idle") \/ switch_to("winkeyer")
    BY <2>2 DEF Idle
  <2>3. ASSUME ElementEnd PROVE switch_to("inter_element_space")
    BY <2>3 DEF ElementEnd
  <2>4. ASSUME SpaceEnd \/ WordSpaceEnd PROVE switch_to("winkeyer")
    BY <2>4 DEF SpaceEnd, WordSpaceEnd
  <2>5. ASSUME CharSpace PROVE switch_to("autospace")
    BY <2>5 DEF CharSpace
  <2>6. /\ "idle" # "send_element" /\ "winkeyer" # "send_element"
        /\ "inter_element_space" # "send_element" /\ "autospace" # "send_element"
    OBVIOUS
  <2> QED
    BY <2>1, <2>2, <2>3, <2>4, <2>5, <2>6, Zenon
<1>3. sent' = sent
  BY <1>2, SwitchSent, Zenon
<1>4. Fed' = Fed
  BY <1>1, Zenon DEF Fed
<1> QED
  BY <1>1, <1>3, <1>4, Zenon DEF TextInv

LEMMA TextNext == Shape /\ TextInv /\ NoOverflow /\ [Next]_vars => TextInv'
<1> SUFFICES ASSUME Shape, TextInv, NoOverflow, [Next]_vars PROVE TextInv'
  OBVIOUS
<1>1. CASE \E msg \in to_come.of : Receive(msg)
  BY <1>1, TextReceive
<1>2. CASE Feed
  BY <1>2, TextFeed
<1>3. CASE Untune
  BY <1>3, TextUntune
<1>4. CASE Check
  <2>1. UNCHANGED <<sent, playing, buffer, accepted, remaining_args, waiting>>
    BY <1>4 DEF Check, keyerVars, sending, history, protocol
  <2>2. waiting = 0 /\ remaining_args = 0 /\ cl_data = <<>>
    BY <1>4, CheckIdle DEF Shape, Check
  <2>3. Stream(buffer, 0, 0) /\ Fed = <<>> /\ 0 \in Nat
    BY <2>2 DEF TextInv, Fed
  <2>4. CASE cl_data' = <<>>
    <3>1. Fed' = <<>>
      BY <2>4 DEF Fed
    <3> QED
      BY <2>1, <2>2, <2>3, <3>1, TextFrame, Zenon
  <2>5. CASE cl_data' = <<11, 0>>
    <3>1. Fed' = <<11, 0>> /\ 11 \in {2, 3, 11, 28} /\ 0 \in Byte /\ <<11, 0>> \in Seq(Byte)
      BY <2>1, <2>2, <2>5 DEF Fed, Byte
    <3>2. TextOf(<<11, 0>>) = <<>>
      BY <3>1, TextPair, Zenon
    <3>3. TextOf(buffer \o <<11, 0>>) = TextOf(buffer \o <<>>)
      BY <2>3, <3>1, <3>2, BufferSilent, Zenon
    <3> QED
      BY <2>1, <2>2, <2>3, <3>1, <3>3, TextFrame, Zenon
  <2> QED
    BY <1>4, <2>4, <2>5 DEF Check
<1>5. CASE KeyerTick
  <2>1. update /\ UNCHANGED <<cl_data, accepted>>
    BY <1>5 DEF KeyerTick, client
  <2> QED
    BY <2>1, TextQuietTurn, TextNextElement, TextBufferedCommand, TextNextCharacter DEF update
<1>6. CASE ClientExit \/ PortCheck \/ KeyerExit \/ Stop \/ Unplug \/ Plug \/ Tick \/ UNCHANGED vars
  <2>1. UNCHANGED <<cl_data, waiting, sent, playing, buffer, accepted, remaining_args>>
    BY <1>6 DEF ClientExit, PortCheck, KeyerExit, Stop, Unplug, Plug, Tick, vars, client,
                keyerVars, sending, history, protocol
  <2>2. Fed' = Fed
    BY <2>1, Zenon DEF Fed
  <2> QED
    BY <2>1, <2>2, Zenon DEF TextInv
<1> QED
  BY <1>1, <1>2, <1>3, <1>4, <1>5, <1>6 DEF Next, ClientStep, KeyerStep

\* As long as no message finds the buffer full, the elements of all text are
\* keyed completely and in order, whatever the threads' interleaving, aborts,
\* speed changes and tunes.
THEOREM TextKeyedInOrder == Spec /\ []NoOverflow => []TextInOrder
<1>1. Init => Shape /\ TextInv
  BY ShapeInit, TextInit
<1>2. Shape /\ TextInv /\ NoOverflow /\ [Next]_vars => (Shape /\ TextInv)'
  BY ShapeNext, TextNext
<1>3. TextInv => TextInOrder
  BY Zenon DEF TextInv, TextInOrder, Fed
<1> QED
  BY <1>1, <1>2, <1>3, PTL DEF Spec

-----------------------------------------------------------------------------
(* The length of a translation does not depend on the speed.                 *)

Alike(a, b, ia, ib) ==
  /\ ScanOK(a) /\ ScanOK(b) /\ Len(a.out) = Len(b.out)
  /\ a.run = b.run /\ a.gap = b.gap /\ a.ended = b.ended
  /\ \E d \in Int : a.speed = (ia + d) % 256 /\ b.speed = (ib + d) % 256

\* The length of what is scanned, and its flags, after one more byte.
LenAfter(l, run, gap, ended, c) ==
  IF ended \/ c \notin 1 .. 127 THEN l
  ELSE IF c \in {Plus, Minus} THEN (IF run = c THEN l ELSE l + 2)
  ELSE IF c = Tilde \/ c < 32 THEN l
  ELSE IF gap THEN l + 5 ELSE l + 1

RunAfter(run, ended, c) ==
  IF ended \/ c \notin 1 .. 127 THEN run ELSE IF c \in {Plus, Minus} THEN c ELSE 0

GapAfter(gap, ended, c) ==
  IF ended \/ c \notin 1 .. 127 \/ c \in {Plus, Minus} THEN gap
  ELSE IF c = Tilde THEN TRUE ELSE IF c < 32 THEN gap ELSE FALSE

EndedAfter(ended, c) == ended \/ c \notin 1 .. 127

ChangeAfter(ended, c) ==
  IF ended \/ c \notin 1 .. 127 \/ c \notin {Plus, Minus} THEN 0 ELSE IF c = Plus THEN 2 ELSE -2

ScannedTo(a, b, c) ==
  /\ Len(b.out) = LenAfter(Len(a.out), a.run, a.gap, a.ended, c)
  /\ b.run = RunAfter(a.run, a.ended, c)
  /\ b.gap = GapAfter(a.gap, a.ended, c)
  /\ b.ended = EndedAfter(a.ended, c)
  /\ b.speed = (a.speed + ChangeAfter(a.ended, c)) % 256

LEMMA ScanEffect ==
  ASSUME NEW a, ScanOK(a), NEW c \in Byte, NEW initial \in Byte
  PROVE  ScannedTo(a, ScanByte(a, c, initial), c)
<1> DEFINE b == ScanByte(a, c, initial)
<1> SUFFICES ScannedTo(a, b, c)
  OBVIOUS
<1>0. /\ a \in Scans /\ a.out \in Seq(Byte) /\ a.speed \in Byte /\ a.speed \in Int
      /\ a.speed % 256 = a.speed /\ a.ended \in BOOLEAN /\ a.gap \in BOOLEAN /\ Len(a.out) \in Nat
  <2>1. a \in Scans
    BY DEF ScanOK
  <2>2. a.out \in Seq(Byte) /\ a.speed \in Byte /\ a.ended \in BOOLEAN /\ a.gap \in BOOLEAN
    BY <2>1 DEF Scans
  <2>3. a.speed \in Int /\ a.speed % 256 = a.speed
    <3>1. \A n \in Byte : n \in Int /\ n % 256 = n
      BY DEF Byte
    <3> QED
      BY <2>2, <3>1, Zenon
  <2> QED
    BY <2>1, <2>2, <2>3
<1>1. CASE a.ended \/ c \notin 1 .. 127
  <2>1. b = [a EXCEPT !.ended = TRUE]
    BY <1>1, Zenon DEF ScanByte
  <2> HIDE DEF b
  <2>2. b.out = a.out /\ b.run = a.run /\ b.gap = a.gap /\ b.speed = a.speed /\ b.ended = TRUE
    BY <1>0, <2>1 DEF Scans
  <2>3. a.speed + 0 = a.speed
    BY <1>0
  <2>4. /\ LenAfter(Len(a.out), a.run, a.gap, a.ended, c) = Len(a.out)
        /\ RunAfter(a.run, a.ended, c) = a.run /\ GapAfter(a.gap, a.ended, c) = a.gap
        /\ EndedAfter(a.ended, c) = TRUE /\ ChangeAfter(a.ended, c) = 0
    BY <1>1, Zenon DEF LenAfter, RunAfter, GapAfter, EndedAfter, ChangeAfter
  <2> QED
    BY <1>0, <2>2, <2>3, <2>4, Zenon DEF ScannedTo
<1>2. CASE ~a.ended /\ c \in 1 .. 127 /\ c \in {Plus, Minus}
  <2> DEFINE speed == SpeedAfter(a, c, initial)
  <2>1. speed \in Byte /\ speed = (a.speed + (IF c = Plus THEN 2 ELSE -2)) % 256
    <3>2. a.speed + 2 \in Int /\ a.speed + -2 \in Int
      BY <1>0
    <3> QED
      BY <3>2, ByteRemainder DEF SpeedAfter
  <2>2. b = [a EXCEPT !.speed = speed, !.run = c,
               !.out = IF a.run = c THEN [@ EXCEPT ![Len(@)] = speed]
                                    ELSE @ \o <<BufferedSpeed, speed>>]
    BY <1>2 DEF ScanByte
  <2> HIDE DEF speed, b
  <2>3. b.speed = speed /\ b.run = c /\ b.gap = a.gap /\ b.ended = a.ended
    BY <1>0, <2>2 DEF Scans
  <2>4. Len(b.out) = IF a.run = c THEN Len(a.out) ELSE Len(a.out) + 2
    <3>1. CASE a.run = c
      <4>1. b.out = WithLast(a.out, speed)
        BY <1>0, <2>2, <3>1 DEF Scans, WithLast
      <4>3. Len(WithLast(a.out, speed)) = Len(a.out)
        <5>0. a.out \in Seq(Byte) /\ speed \in Byte
          BY <1>0, <2>1, Zenon
        <5>1. LastSet(a.out, speed, WithLast(a.out, speed))
          BY <5>0, WithLastIs, Zenon
        <5> QED
          BY <5>1, Zenon DEF LastSet
      <4>2. Len(b.out) = Len(a.out)
        BY <4>1, <4>3, Zenon
      <4> QED
        BY <3>1, <4>2, Zenon
    <3>2. CASE a.run # c
      <4>1. b.out = a.out \o <<BufferedSpeed, speed>>
        BY <1>0, <2>2, <3>2 DEF Scans
      <4>2. <<BufferedSpeed, speed>> \in Seq(Byte) /\ Len(<<BufferedSpeed, speed>>) = 2
        BY <2>1 DEF BufferedSpeed, Byte
      <4>3. Len(b.out) = Len(a.out) + Len(<<BufferedSpeed, speed>>)
        BY <1>0, <4>1, <4>2, ByteConcat, ZenonT(60) DEF Joins
      <4> QED
        BY <3>2, <4>2, <4>3, Zenon
    <3> QED
      BY <3>1, <3>2
  <2>5. /\ LenAfter(Len(a.out), a.run, a.gap, a.ended, c)
             = (IF a.run = c THEN Len(a.out) ELSE Len(a.out) + 2)
        /\ RunAfter(a.run, a.ended, c) = c /\ GapAfter(a.gap, a.ended, c) = a.gap
        /\ ChangeAfter(a.ended, c) = IF c = Plus THEN 2 ELSE -2
    BY <1>2, Zenon DEF LenAfter, RunAfter, GapAfter, ChangeAfter
  <2>6. EndedAfter(a.ended, c) = a.ended
    BY <1>0, <1>2, Zenon DEF EndedAfter
  <2> QED
    BY <2>1, <2>3, <2>4, <2>5, <2>6, Zenon DEF ScannedTo
<1>3. CASE ~a.ended /\ c \in 1 .. 127 /\ c \notin {Plus, Minus} /\ (c = Tilde \/ c < 32)
  <2>1. /\ b.out = a.out /\ b.run = 0 /\ b.speed = a.speed /\ b.ended = a.ended
        /\ b.gap = IF c = Tilde THEN TRUE ELSE a.gap
    BY <1>0, <1>3 DEF ScanByte, Scans
  <2> HIDE DEF b
  <2>3. a.speed + 0 = a.speed
    BY <1>0
  <2>4. /\ LenAfter(Len(a.out), a.run, a.gap, a.ended, c) = Len(a.out)
        /\ RunAfter(a.run, a.ended, c) = 0
        /\ GapAfter(a.gap, a.ended, c) = (IF c = Tilde THEN TRUE ELSE a.gap)
        /\ ChangeAfter(a.ended, c) = 0
    BY <1>3, Zenon DEF LenAfter, RunAfter, GapAfter, ChangeAfter
  <2>6. EndedAfter(a.ended, c) = a.ended
    BY <1>0, <1>3, Zenon DEF EndedAfter
  <2> QED
    BY <1>0, <2>1, <2>3, <2>4, <2>6, Zenon DEF ScannedTo
<1>4. CASE ~a.ended /\ c \in 1 .. 127 /\ c \notin {Plus, Minus} /\ c # Tilde /\ ~(c < 32)
  <2> DEFINE x == <<toupper(c)>>
             y == IF a.gap THEN <<Bar, Bar, Bar, Bar>> ELSE <<>>
  <2>1. b = [a EXCEPT !.gap = FALSE, !.run = 0, !.out = @ \o x \o y]
    BY <1>4 DEF ScanByte
  <2>2. x \in Seq(Byte) /\ Len(x) = 1
    BY <1>4 DEF toupper, Byte
  <2>3. y \in Seq(Byte) /\ Len(y) = IF a.gap THEN 4 ELSE 0
    <3>1. <<Bar, Bar, Bar, Bar>> \in Seq(Byte) /\ Len(<<Bar, Bar, Bar, Bar>>) = 4
      BY DEF Bar, Byte
    <3>2. <<>> \in Seq(Byte) /\ Len(<<>>) = 0
      OBVIOUS
    <3>3. CASE a.gap
      BY <3>1, <3>3, Zenon
    <3>4. CASE ~a.gap
      <4>1. y = <<>>
        BY <3>4, Zenon
      <4> HIDE DEF y
      <4> QED
        BY <3>2, <3>4, <4>1
    <3> QED
      BY <3>3, <3>4
  <2> HIDE DEF x, y, b
  <2>4. /\ b.run = 0 /\ b.gap = FALSE /\ b.speed = a.speed /\ b.ended = a.ended
        /\ b.out = (a.out \o x) \o y
    BY <1>0, <2>1 DEF Scans
  <2>5. a.out \o x \in Seq(Byte) /\ Len(a.out \o x) = Len(a.out) + Len(x)
    BY <1>0, <2>2, ByteConcat, Zenon DEF Joins
  <2>6. Len(b.out) = Len(a.out \o x) + Len(y)
    BY <2>3, <2>4, <2>5, ByteConcat, Zenon DEF Joins
  <2>7. Len(b.out) = IF a.gap THEN Len(a.out) + 5 ELSE Len(a.out) + 1
    <3>1. CASE a.gap
      <4>1. Len(y) = 4
        BY <2>3, <3>1, Zenon
      <4>2. Len(b.out) = Len(a.out) + 5
        BY <1>0, <2>2, <2>5, <2>6, <4>1
      <4> QED
        BY <3>1, <4>2, Zenon
    <3>2. CASE ~a.gap
      <4>1. Len(y) = 0
        BY <2>3, <3>2, Zenon
      <4>2. Len(b.out) = Len(a.out) + 1
        BY <1>0, <2>2, <2>5, <2>6, <4>1
      <4> QED
        BY <3>2, <4>2, Zenon
    <3> QED
      BY <3>1, <3>2
  <2>8. a.speed + 0 = a.speed
    BY <1>0
  <2>9. /\ LenAfter(Len(a.out), a.run, a.gap, a.ended, c)
             = (IF a.gap THEN Len(a.out) + 5 ELSE Len(a.out) + 1)
        /\ RunAfter(a.run, a.ended, c) = 0 /\ GapAfter(a.gap, a.ended, c) = FALSE
        /\ ChangeAfter(a.ended, c) = 0
    BY <1>4, Zenon DEF LenAfter, RunAfter, GapAfter, ChangeAfter
  <2>10. EndedAfter(a.ended, c) = a.ended
    BY <1>0, <1>4, Zenon DEF EndedAfter
  <2> QED
    BY <1>0, <2>4, <2>7, <2>8, <2>9, <2>10, Zenon DEF ScannedTo
<1> QED
  BY <1>1, <1>2, <1>3, <1>4, Zenon

LEMMA AlikeStep ==
  ASSUME NEW a, NEW b, NEW ia \in Byte, NEW ib \in Byte, Alike(a, b, ia, ib), NEW c \in Byte
  PROVE  Alike(ScanByte(a, c, ia), ScanByte(b, c, ib), ia, ib)
<1> DEFINE v == ScanByte(a, c, ia)
           w == ScanByte(b, c, ib)
<1> SUFFICES Alike(v, w, ia, ib)
  OBVIOUS
<1>0. ScanOK(a) /\ ScanOK(b)
  BY DEF Alike
<1>1. ScanOK(v) /\ ScanOK(w)
  BY <1>0, ScanStep, Zenon
<1>2. /\ Len(v.out) = LenAfter(Len(a.out), a.run, a.gap, a.ended, c)
      /\ v.run = RunAfter(a.run, a.ended, c)
      /\ v.gap = GapAfter(a.gap, a.ended, c)
      /\ v.ended = EndedAfter(a.ended, c)
      /\ v.speed = (a.speed + ChangeAfter(a.ended, c)) % 256
  BY <1>0, ScanEffect, ZenonT(60) DEF ScannedTo
<1>3. /\ Len(w.out) = LenAfter(Len(b.out), b.run, b.gap, b.ended, c)
      /\ w.run = RunAfter(b.run, b.ended, c)
      /\ w.gap = GapAfter(b.gap, b.ended, c)
      /\ w.ended = EndedAfter(b.ended, c)
      /\ w.speed = (b.speed + ChangeAfter(b.ended, c)) % 256
  BY <1>0, ScanEffect, ZenonT(60) DEF ScannedTo
<1> HIDE DEF v, w
<1>4. /\ Len(v.out) = Len(w.out) /\ v.run = w.run /\ v.gap = w.gap /\ v.ended = w.ended
      /\ ChangeAfter(a.ended, c) = ChangeAfter(b.ended, c)
  <2>1. Len(a.out) = Len(b.out) /\ a.run = b.run /\ a.gap = b.gap /\ a.ended = b.ended
    BY Zenon DEF Alike
  <2> QED
    BY <1>2, <1>3, <2>1, Zenon
<1>5. PICK d \in Int : a.speed = (ia + d) % 256 /\ b.speed = (ib + d) % 256
  BY Zenon DEF Alike
<1> DEFINE e == ChangeAfter(a.ended, c)
<1>6. e \in Int
  BY DEF ChangeAfter
<1> HIDE DEF e
<1>7. \A i \in Byte : (((i + d) % 256) + e) % 256 = (i + (d + e)) % 256
  <2> TAKE i \in Byte
  <2>0. i \in Int
    BY DEF Byte
  <2>1. i + d \in Int
    BY <2>0
  <2>2. \A n \in Int : ((n % 256) + e) % 256 = (n + e) % 256
    BY <1>6
  <2>3. (((i + d) % 256) + e) % 256 = ((i + d) + e) % 256
    BY <2>1, <2>2, Zenon
  <2> QED
    BY <1>6, <2>0, <2>3
<1>8. v.speed = (ia + (d + e)) % 256 /\ w.speed = (ib + (d + e)) % 256
  <2>1. v.speed = (a.speed + e) % 256 /\ w.speed = (b.speed + e) % 256
    BY <1>2, <1>3, <1>4, Zenon DEF e
  <2>2. v.speed = (((ia + d) % 256) + e) % 256 /\ w.speed = (((ib + d) % 256) + e) % 256
    BY <1>5, <2>1, Zenon
  <2> QED
    BY <1>7, <2>2, ZenonT(60)
<1>9. d + e \in Int
  BY <1>6
<1> QED
  BY <1>1, <1>4, <1>8, <1>9, Zenon DEF Alike

LEMMA TextLength ==
  ASSUME NEW chars \in Seq(Byte), NEW ia \in Byte, NEW ib \in Byte
  PROVE  Len(TextBytes(chars, ia)) = Len(TextBytes(chars, ib))
<1> DEFINE n == Len(chars)
<1>0. n \in Nat
  OBVIOUS
<1>1. PICK f : /\ Scanned(chars, ia, n, f)
               /\ TextBytes(chars, ia) = f[n].out \o Restore(f[n], ia)
  BY TextBytesScan
<1>2. PICK g : /\ Scanned(chars, ib, n, g)
               /\ TextBytes(chars, ib) = g[n].out \o Restore(g[n], ib)
  BY TextBytesScan
<1> DEFINE T == {m \in Nat : m <= n => Alike(f[m], g[m], ia, ib)}
<1>3. 0 \in T
  <2>1. f[0] = ScanStart(ia) /\ g[0] = ScanStart(ib)
    BY <1>1, <1>2, Zenon DEF Scanned
  <2>2. ASSUME NEW i \in Byte
        PROVE  /\ ScanOK(ScanStart(i)) /\ ScanStart(i).out = <<>> /\ ScanStart(i).run = 0
               /\ ScanStart(i).gap = FALSE /\ ScanStart(i).ended = FALSE
               /\ ScanStart(i).speed = (i + 0) % 256
    <3>1. ScanStart(i) \in Scans
      BY DEF ScanStart, Scans
    <3>2. /\ ScanStart(i).out = <<>> /\ ScanStart(i).run = 0
          /\ ScanStart(i).gap = FALSE /\ ScanStart(i).ended = FALSE /\ ScanStart(i).speed = i
      BY DEF ScanStart
    <3>3. (i + 0) % 256 = i
      BY DEF Byte
    <3> QED
      BY <3>1, <3>2, <3>3, PlainEmpty, Zenon DEF ScanOK
  <2>3. 0 \in Int
    OBVIOUS
  <2>4. Alike(ScanStart(ia), ScanStart(ib), ia, ib)
    <3> DEFINE v == ScanStart(ia)
               w == ScanStart(ib)
    <3>1. /\ ScanOK(v) /\ ScanOK(w) /\ v.out = <<>> /\ w.out = <<>> /\ v.run = 0 /\ w.run = 0
          /\ v.gap = FALSE /\ w.gap = FALSE /\ v.ended = FALSE /\ w.ended = FALSE
          /\ v.speed = (ia + 0) % 256 /\ w.speed = (ib + 0) % 256
      BY <2>2, ZenonT(60)
    <3> HIDE DEF v, w
    <3>2. Alike(v, w, ia, ib)
      BY <2>3, <3>1, Zenon DEF Alike
    <3> QED
      BY <3>2, Zenon DEF v, w
  <2> QED
    BY <2>1, <2>4
<1>4. ASSUME NEW m \in Nat, m \in T PROVE m + 1 \in T
  <2> SUFFICES ASSUME m + 1 <= n PROVE Alike(f[m + 1], g[m + 1], ia, ib)
    OBVIOUS
  <2>1. m <= n /\ m + 1 \in 1 .. n /\ (m + 1) - 1 = m /\ chars[m + 1] \in Byte
    BY <1>0
  <2>2. Alike(f[m], g[m], ia, ib)
    BY <1>4, <2>1
  <2>3. /\ f[m + 1] = ScanByte(f[(m + 1) - 1], chars[m + 1], ia)
        /\ g[m + 1] = ScanByte(g[(m + 1) - 1], chars[m + 1], ib)
    BY <1>1, <1>2, <2>1, Zenon DEF Scanned
  <2>4. /\ f[m + 1] = ScanByte(f[m], chars[m + 1], ia)
        /\ g[m + 1] = ScanByte(g[m], chars[m + 1], ib)
    BY <2>1, <2>3, Zenon
  <2> QED
    BY <2>1, <2>2, <2>4, AlikeStep, Zenon
<1> HIDE DEF T
<1>5. n \in T
  BY <1>0, <1>3, <1>4, NatInduct
<1>6. Alike(f[n], g[n], ia, ib)
  BY <1>0, <1>5 DEF T
<1> DEFINE x == f[n]
           y == g[n]
           rx == Restore(x, ia)
           ry == Restore(y, ib)
<1>7. x.out \in Seq(Byte) /\ y.out \in Seq(Byte) /\ Len(x.out) = Len(y.out)
  BY <1>6 DEF Alike, ScanOK, Scans
<1>8. rx \in Seq(Byte) /\ ry \in Seq(Byte) /\ Len(rx) = Len(ry)
  <2>1. PICK d \in Int : x.speed = (ia + d) % 256 /\ y.speed = (ib + d) % 256
    BY <1>6, Zenon DEF Alike
  <2>2. \A i \in Byte : (i + d) % 256 = i <=> d % 256 = 0
    BY DEF Byte
  <2>3. x.speed = ia <=> y.speed = ib
    BY <2>1, <2>2, ZenonT(60)
  <2>4. \A i \in Byte : /\ <<BufferedSpeed, i>> \in Seq(Byte) /\ Len(<<BufferedSpeed, i>>) = 2
                        /\ <<>> \in Seq(Byte) /\ Len(<<>>) = 0
    BY DEF BufferedSpeed, Byte
  <2> HIDE DEF x, y
  <2>5. CASE x.speed = ia
    BY <2>3, <2>4, <2>5, Zenon DEF Restore
  <2>6. CASE x.speed # ia
    BY <2>3, <2>4, <2>6, Zenon DEF Restore
  <2> QED
    BY <2>5, <2>6
<1> HIDE DEF rx, ry, x, y
<1>9. Len(x.out \o rx) = Len(x.out) + Len(rx) /\ Len(y.out \o ry) = Len(y.out) + Len(ry)
  BY <1>7, <1>8, ByteConcat, Zenon DEF Joins
<1>10. TextBytes(chars, ia) = x.out \o rx /\ TextBytes(chars, ib) = y.out \o ry
  BY <1>1, <1>2, Zenon DEF x, y, rx, ry
<1> QED
  BY <1>7, <1>8, <1>9, <1>10, Zenon

\* Whatever the speed, a message has the same number of bytes.
LEMMA TranslationLength ==
  ASSUME NEW msg, MessageOK(msg), NEW ia \in Byte, NEW ib \in Byte
  PROVE  Len(to_winkeyer(msg, ia)) = Len(to_winkeyer(msg, ib))
<1>1. CASE msg.kind = "text"
  <2>1. /\ to_winkeyer(msg, ia) = TextBytes(msg.chars, ia)
        /\ to_winkeyer(msg, ib) = TextBytes(msg.chars, ib)
    BY <1>1 DEF to_winkeyer
  <2> QED
    BY <1>1, <2>1, TextLength, Zenon DEF MessageOK
<1>2. CASE msg.kind # "text"
  BY <1>2 DEF to_winkeyer
<1> QED
  BY <1>1, <1>2

-----------------------------------------------------------------------------
(* Tunes end on time.                                                        *)

\* The hypotheses: neither stop() nor an exit command ends the client thread
\* (they leave the key as it is), the messages have a longest, and the 32-bit
\* millisecond timer has not wrapped.
NeverStopped ==
  /\ ~MayStop
  /\ \A talk \in Conversations :
       /\ \A msg \in talk.of : msg.kind # "exit"
       /\ \E n \in Nat : \A msg \in talk.of : Len(to_winkeyer(msg, InitialSpeed)) <= n
Unwrapped == clock < U32

LEMMA Lags ==
  ASSUME NEW n \in Nat, NEW m \in Nat
  PROVE  /\ ClientLag * n \in Nat /\ (n <= m => ClientLag * n <= ClientLag * m)
         /\ ClientLag * (n + 1) = ClientLag * n + ClientLag
         /\ ClientLag * (n + 4) = ClientLag * n + 4 * ClientLag
<1>0. ClientLag \in Nat
  BY DaemonAssumption
<1>1. ClientLag * n \in Nat /\ ClientLag * m \in Nat
  BY <1>0
<1>2. /\ ClientLag * (n + 1) = ClientLag * n + ClientLag
      /\ ClientLag * (n + 4) = ClientLag * n + 4 * ClientLag
  BY <1>0
<1>3. ASSUME n <= m PROVE ClientLag * n <= ClientLag * m
  <2>1. m - n \in Nat /\ m = n + (m - n)
    BY <1>3
  <2>2. ClientLag * (m - n) \in Nat
    BY <1>0, <2>1
  <2>3. ClientLag * m = ClientLag * n + ClientLag * (m - n)
    BY <1>0
  <2> QED
    BY <1>1, <2>2, <2>3
<1> QED
  BY <1>1, <1>2, <1>3

LEMMA TranslationType ==
  ASSUME NEW msg, MessageOK(msg), NEW initial \in Byte
  PROVE  to_winkeyer(msg, initial) \in Seq(Byte) /\ Len(to_winkeyer(msg, initial)) \in Nat
<1> DEFINE s == to_winkeyer(msg, initial)
<1>1. Translated(s)
  BY Translation, Zenon
<1> SUFFICES s \in Seq(Byte)
  BY \A x \in Seq(Byte) : Len(x) \in Nat, Zenon
<1> HIDE DEF s
<1>2. 1 \in Byte /\ 2 \in Byte /\ 3 \in Byte /\ 10 \in Byte /\ 11 \in Byte
  BY DEF Byte
<1>3. ASSUME Plain(s) PROVE s \in Seq(Byte)
  BY <1>3 DEF Plain, PlainFrom, Stream
<1>4. ASSUME Immediate(s) PROVE s \in Seq(Byte)
  <2>1. CASE s = <<10>>
    BY <1>2, <2>1
  <2>2. ASSUME NEW n \in Byte, s = <<2, n>> \/ s = <<3, n>> PROVE s \in Seq(Byte)
    BY <1>2, <2>2
  <2> QED
    BY <1>4, <2>1, <2>2, Zenon DEF Immediate
<1>5. ASSUME NEW n \in Byte, s = <<11, 1, n>> PROVE s \in Seq(Byte)
  BY <1>2, <1>5
<1> QED
  BY <1>1, <1>3, <1>4, <1>5, Zenon DEF Translated

\* A bounded set of naturals has a largest.
LEMMA Largest ==
  ASSUME NEW S, S \subseteq Nat, S # {}, NEW n \in Nat, \A k \in S : k <= n
  PROVE  \E k \in S : \A j \in S : j <= k
<1> DEFINE T == {k \in Nat : \A j \in S : j <= k}
<1>1. T \subseteq Nat /\ T # {}
  OBVIOUS
<1>2. PICK k \in T : \A j \in T : k <= j
  BY <1>1, LeastNatural
<1>3. k \in Nat /\ \A j \in S : j <= k
  BY <1>2
<1>4. k \in S
  <2> SUFFICES ASSUME k \notin S PROVE FALSE
    OBVIOUS
  <2>1. \A j \in S : j \in Nat /\ j < k
    BY <1>3
  <2>2. k # 0
    <3>1. PICK j \in S : TRUE
      OBVIOUS
    <3>2. j \in Nat /\ j < k
      BY <2>1
    <3> QED
      BY <1>3, <3>2
  <2>3. k - 1 \in T
    BY <1>3, <2>1, <2>2
  <2> QED
    BY <1>2, <1>3, <2>3
<1> QED
  BY <1>3, <1>4

Bounded == \E n \in Nat : \A msg \in to_come.of : Len(to_winkeyer(msg, InitialSpeed)) <= n

LEMMA LongestIs ==
  ASSUME MessagesOK, Bounded, NEW m \in to_come.of
  PROVE  LongestFeed \in Nat /\ Len(to_winkeyer(m, InitialSpeed)) <= LongestFeed
<1> DEFINE l(x) == Len(to_winkeyer(x, InitialSpeed))
           S == {l(x) : x \in to_come.of}
<1>0. InitialSpeed \in Byte
  BY DaemonAssumption
<1>1. \A x \in to_come.of : l(x) \in Nat
  BY <1>0, TranslationType, Zenon DEF MessagesOK
<1>2. PICK n \in Nat : \A x \in to_come.of : l(x) <= n
  BY Zenon DEF Bounded
<1> HIDE DEF l
<1>3. S \subseteq Nat /\ l(m) \in S /\ S # {} /\ \A k \in S : k <= n
  BY <1>1, <1>2
<1> HIDE DEF S
<1>4. \E k \in S : \A j \in S : j <= k
  BY <1>3, Largest
<1>5. LongestFeed = CHOOSE k \in S : \A j \in S : j <= k
  BY Zenon DEF LongestFeed, S, l
<1>6. LongestFeed \in S /\ \A j \in S : j <= LongestFeed
  BY <1>4, <1>5, Zenon
<1>7. LongestFeed \in Nat /\ l(m) <= LongestFeed
  BY <1>3, <1>6, Zenon
<1> QED
  BY <1>7, Zenon DEF l

\* Where the client thread is, and how long it has before it looks at the tune.
TuneTimes ==
  /\ LongestFeed \in Nat /\ tune_end_time <= tune_due
  /\ cl_pc = "recv" => cl_by <= tune_due + RecvTimeout
  /\ cl_pc = "feed" =>
       cl_by + ClientLag * Len(cl_data)
         <= tune_due + RecvTimeout + ClientLag * (LongestFeed + 1)
  /\ cl_pc = "untune" =>
       cl_by + ClientLag * Len(cl_data)
         <= tune_due + RecvTimeout + ClientLag * (LongestFeed + 4)

TuneInv ==
  /\ ~MayStop /\ is_running /\ cl_pc # "done" /\ Bounded
  /\ \A msg \in to_come.of : msg.kind # "exit"
  /\ clock \in Nat /\ cl_by \in Nat /\ tune_due \in Nat /\ tune_end_time \in Nat
  /\ clock <= cl_by
  /\ is_tuning => TuneTimes

LEMMA TuneInit == NeverStopped /\ Init => TuneInv
<1> SUFFICES ASSUME NeverStopped, Init PROVE TuneInv
  OBVIOUS
<1>1. ~MayStop /\ Bounded /\ \A msg \in to_come.of : msg.kind # "exit"
  BY DEF Init, NeverStopped, Bounded
<1>2. /\ is_running /\ cl_pc # "done" /\ ~is_tuning /\ tune_due \in Nat /\ tune_end_time \in Nat
      /\ clock \in Nat /\ cl_by \in Nat /\ clock <= cl_by
  BY KeyerAssumption, DaemonAssumption DEF Init, KeyerInit
<1> QED
  BY <1>1, <1>2 DEF TuneInv

LEMMA TuneReceive ==
  ASSUME Shape, TuneInv, NEW msg \in to_come.of, Receive(msg)
  PROVE  TuneInv'
<1>0. /\ RecvTimeout \in Nat /\ ClientLag \in Nat /\ TuneUnit \in Nat /\ U32 \in Nat \ {0}
      /\ InitialSpeed \in Byte
  BY DaemonAssumption, KeyerAssumption
<1>1. /\ clock \in Nat /\ cl_by \in Nat /\ tune_due \in Nat /\ tune_end_time \in Nat
      /\ clock <= cl_by /\ is_running /\ msg.kind # "exit"
  BY DEF TuneInv
<1>2. /\ clock' = clock /\ is_running' = is_running /\ cl_pc = "recv" /\ cl_data = <<>>
      /\ profile_speed \in Byte
  BY DEF Receive, keyerVars, Shape
<1>3. to_come'.of = to_come.of
  <2>1. to_come' = [to_come EXCEPT !.number = @ - 1]
    BY DEF Receive
  <2>2. to_come = [of |-> to_come.of, number |-> to_come.number]
    BY DEF Shape, MessagesOK
  <2> QED
    BY <2>1, <2>2
<1>4. LongestFeed' = LongestFeed /\ (Bounded <=> Bounded')
  BY <1>3, Zenon DEF LongestFeed, Bounded
<1>5. ~MayStop /\ Bounded' /\ \A m \in to_come'.of : m.kind # "exit"
  BY <1>3, <1>4, Zenon DEF TuneInv
<1> DEFINE bytes == to_winkeyer(msg, profile_speed)
<1>6. LongestFeed \in Nat /\ Len(bytes) <= LongestFeed /\ Len(bytes) \in Nat /\ Translated(bytes)
  <2>1. MessagesOK /\ MessageOK(msg) /\ Bounded
    BY DEF Shape, MessagesOK, TuneInv
  <2>2. LongestFeed \in Nat /\ Len(to_winkeyer(msg, InitialSpeed)) <= LongestFeed
    BY <2>1, LongestIs, Zenon
  <2>3. Len(bytes) = Len(to_winkeyer(msg, InitialSpeed))
    BY <1>0, <1>2, <2>1, TranslationLength, Zenon
  <2>4. Len(bytes) \in Nat /\ Translated(bytes)
    BY <1>2, <2>1, TranslationType, Translation, Zenon
  <2> QED
    BY <2>2, <2>3, <2>4, Zenon
<1>7. /\ ClientLag * (LongestFeed + 1) = ClientLag * LongestFeed + ClientLag
      /\ ClientLag * (LongestFeed + 4) = ClientLag * LongestFeed + 4 * ClientLag
      /\ ClientLag * LongestFeed \in Nat
      /\ \A k \in Nat : k <= LongestFeed => ClientLag * k <= ClientLag * LongestFeed
      /\ \A k \in Nat : ClientLag * k \in Nat
  BY <1>6, Lags, Zenon
<1> HIDE DEF bytes
<1>8. CASE ClientTo("untune") /\ cl_data' = <<11, 0>> /\ UNCHANGED tuning /\ is_tuning
  <2>1. /\ cl_pc' = "untune" /\ cl_by' = clock + ClientLag /\ Len(cl_data') = 2
        /\ UNCHANGED <<is_tuning, tune_end_time, tune_due>>
    BY <1>8 DEF ClientTo, tuning
  <2>2. TuneTimes /\ ClientLag * 2 = 2 * ClientLag
    BY <1>0, <1>8 DEF TuneInv
  <2>3. TuneTimes'
    BY <1>0, <1>1, <1>2, <1>4, <1>6, <1>7, <2>1, <2>2 DEF TuneTimes
  <2> QED
    BY <1>0, <1>1, <1>2, <1>5, <2>1, <2>3 DEF TuneInv
<1>9. CASE /\ ClientTo("feed") /\ ~is_tuning_command(bytes) /\ cl_data' = bytes
           /\ UNCHANGED <<tune_end_time, tune_due>> /\ (is_tuning' => is_tuning)
  <2>1. cl_pc' = "feed" /\ cl_by' = clock + ClientLag
    BY <1>9 DEF ClientTo
  <2>2. ASSUME is_tuning PROVE TuneTimes'
    <3>1. TuneTimes
      BY <2>2 DEF TuneInv
    <3>2. ClientLag * Len(bytes) <= ClientLag * LongestFeed /\ ClientLag * Len(bytes) \in Nat
      BY <1>6, <1>7, Zenon
    <3> QED
      BY <1>0, <1>1, <1>2, <1>4, <1>6, <1>7, <1>9, <2>1, <3>1, <3>2 DEF TuneTimes
  <2>3. is_tuning' => TuneTimes'
    BY <1>9, <2>2, Zenon
  <2>4. /\ clock' \in Nat /\ cl_by' \in Nat /\ tune_due' \in Nat /\ tune_end_time' \in Nat
        /\ clock' <= cl_by' /\ cl_pc' # "done" /\ is_running'
    BY <1>0, <1>1, <1>2, <1>9, <2>1
  <2> QED
    BY <1>5, <2>3, <2>4 DEF TuneInv
<1>10. CASE /\ ClientTo("feed") /\ is_tuning_command(bytes) /\ cl_data' = <<11, 1>>
            /\ tune_end_time' = (ms + TuneUnit * bytes[3]) % U32
            /\ tune_due' = clock + TuneUnit * bytes[3]
  <2>1. cl_pc' = "feed" /\ cl_by' = clock + ClientLag /\ Len(cl_data') = 2
    BY <1>10 DEF ClientTo
  <2>2. bytes[3] \in Nat /\ Len(bytes) = 3
    <3>1. PICK n \in Byte : bytes = <<11, 1, n>>
      BY <1>6, <1>10, Zenon DEF Translated
    <3> QED
      BY <3>1 DEF Byte
  <2> DEFINE d == TuneUnit * bytes[3]
  <2>3. d \in Nat
    BY <1>0, <2>2
  <2> HIDE DEF d
  <2>4. /\ tune_due' = clock + d /\ tune_end_time' = ((clock % U32) + d) % U32
    BY <1>10, Zenon DEF d, ms
  <2>5. clock % U32 \in Nat /\ clock % U32 <= clock
    BY <1>0, <1>1
  <2>6. tune_end_time' \in Nat /\ tune_end_time' <= (clock % U32) + d
    <3> DEFINE e == (clock % U32) + d
    <3>1. e \in Nat
      BY <2>3, <2>5
    <3> HIDE DEF e
    <3>2. e % U32 \in Nat /\ e % U32 <= e
      BY <1>0, <3>1
    <3> QED
      BY <2>4, <3>2, Zenon DEF e
  <2>7. tune_due' \in Nat /\ tune_end_time' <= tune_due' /\ clock <= tune_due'
    BY <1>1, <2>3, <2>4, <2>5, <2>6
  <2>8. ClientLag * 2 <= ClientLag * LongestFeed /\ ClientLag * 2 \in Nat
    <3>1. 2 \in Nat /\ 2 <= LongestFeed
      BY <1>6, <2>2
    <3> QED
      BY <1>7, <3>1, Zenon
  <2>9. TuneTimes'
    <3>1. LongestFeed' \in Nat /\ cl_pc' # "recv" /\ cl_pc' # "untune"
      BY <1>4, <1>6, <2>1
    <3>2. ClientLag * Len(cl_data') = ClientLag * 2
      BY <2>1
    <3>3. ClientLag * (LongestFeed' + 1) = ClientLag * LongestFeed + ClientLag
      BY <1>4, <1>7
    <3>4. cl_by' + ClientLag * 2
            <= tune_due' + RecvTimeout + (ClientLag * LongestFeed + ClientLag)
      BY <1>0, <1>1, <1>7, <2>1, <2>7, <2>8
    <3>5. cl_by' + ClientLag * Len(cl_data')
            <= tune_due' + RecvTimeout + ClientLag * (LongestFeed' + 1)
      BY <3>2, <3>3, <3>4
    <3> QED
      BY <2>7, <3>1, <3>5 DEF TuneTimes
  <2>10. /\ clock' \in Nat /\ cl_by' \in Nat
         /\ clock' <= cl_by' /\ cl_pc' # "done" /\ is_running'
    BY <1>0, <1>1, <1>2, <2>1
  <2> QED
    BY <1>5, <2>6, <2>7, <2>9, <2>10 DEF TuneInv
<1>11. \/ ClientTo("untune") /\ cl_data' = <<11, 0>> /\ UNCHANGED tuning /\ is_tuning
       \/ /\ ClientTo("feed")
          /\ cl_data' = IF is_tuning_command(bytes) THEN <<11, 1>> ELSE bytes
          /\ is_tuning' = (is_tuning \/ is_tuning_command(bytes))
          /\ tune_end_time' = IF is_tuning_command(bytes)
                                THEN (ms + TuneUnit * bytes[3]) % U32 ELSE tune_end_time
          /\ tune_due' = IF is_tuning_command(bytes)
                           THEN clock + TuneUnit * bytes[3] ELSE tune_due
  BY <1>1, Zenon DEF Receive, bytes
<1>12. CASE is_tuning_command(bytes)
  BY <1>8, <1>10, <1>11, <1>12
<1>13. CASE ~is_tuning_command(bytes)
  <2>1. ASSUME ClientTo("feed"),
               is_tuning' = (is_tuning \/ is_tuning_command(bytes))
        PROVE  is_tuning' => is_tuning
    BY <1>13, <2>1, Zenon
  <2>2. CASE ClientTo("untune") /\ cl_data' = <<11, 0>> /\ UNCHANGED tuning /\ is_tuning
    BY <1>8, <2>2
  <2>3. CASE /\ ClientTo("feed") /\ cl_data' = bytes /\ (is_tuning' => is_tuning)
             /\ UNCHANGED <<tune_end_time, tune_due>>
    BY <1>9, <1>13, <2>3
  <2> QED
    BY <1>11, <1>13, <2>1, <2>2, <2>3
<1> QED
  BY <1>12, <1>13

\* One byte fed: a step less to go.
LEMMA OneLess ==
  ASSUME Shape, cl_data # <<>>, cl_data' = Tail(cl_data), cl_by' = clock + ClientLag,
         clock \in Nat, cl_by \in Nat, clock <= cl_by
  PROVE  /\ cl_by' + ClientLag * Len(cl_data') <= cl_by + ClientLag * Len(cl_data)
         /\ clock <= cl_by' /\ cl_by' \in Nat /\ ClientLag * Len(cl_data) \in Nat
         /\ ClientLag * Len(cl_data') \in Nat
<1>0. ClientLag \in Nat
  BY DaemonAssumption
<1>1. cl_data \in Seq(Byte)
  BY FedType
<1>2. Len(cl_data') \in Nat /\ Len(cl_data) = Len(cl_data') + 1
  BY <1>1
<1>3. /\ ClientLag * (Len(cl_data') + 1) = ClientLag * Len(cl_data') + ClientLag
      /\ ClientLag * Len(cl_data') \in Nat
  BY <1>2, Lags, Zenon
<1>4. ClientLag * Len(cl_data) = ClientLag * Len(cl_data') + ClientLag
  BY <1>2, <1>3, Zenon
<1> QED
  BY <1>0, <1>3, <1>4

LEMMA TuneKept ==
  ASSUME TuneInv, UNCHANGED <<to_come, is_running>>
  PROVE  /\ LongestFeed' = LongestFeed /\ Bounded' /\ ~MayStop /\ is_running'
         /\ \A m \in to_come'.of : m.kind # "exit"
<1>1. to_come' = to_come /\ is_running' = is_running
  OBVIOUS
<1>2. to_come'.of = to_come.of
  BY <1>1
<1>3. LongestFeed' = LongestFeed /\ (Bounded <=> Bounded')
  BY <1>2, Zenon DEF LongestFeed, Bounded
<1>4. Bounded /\ ~MayStop /\ is_running /\ \A m \in to_come.of : m.kind # "exit"
  BY Zenon DEF TuneInv
<1>5. is_running'
  BY <1>1, <1>4
<1> QED
  BY <1>2, <1>3, <1>4, <1>5, Zenon

LEMMA TuneFeed ==
  ASSUME Shape, TuneInv, Feed
  PROVE  TuneInv'
<1>1. /\ cl_pc = "feed" /\ cl_pc' = "feed" /\ cl_data # <<>> /\ cl_data' = Tail(cl_data)
      /\ cl_by' = clock + ClientLag /\ UNCHANGED <<to_come, is_running>> /\ clock' = clock
      /\ UNCHANGED <<is_tuning, tune_end_time, tune_due>>
  BY DEF Feed, ClientTo, tuning, winkeyer_data
<1>2. /\ clock \in Nat /\ cl_by \in Nat /\ clock <= cl_by /\ tune_due \in Nat
      /\ tune_end_time \in Nat
  BY DEF TuneInv
<1>3. /\ cl_by' + ClientLag * Len(cl_data') <= cl_by + ClientLag * Len(cl_data)
      /\ clock <= cl_by' /\ cl_by' \in Nat /\ ClientLag * Len(cl_data) \in Nat
      /\ ClientLag * Len(cl_data') \in Nat
  BY <1>1, <1>2, OneLess
<1>4. /\ LongestFeed' = LongestFeed /\ Bounded' /\ ~MayStop /\ is_running'
      /\ \A m \in to_come'.of : m.kind # "exit"
  BY <1>1, TuneKept
<1>5. ASSUME is_tuning PROVE TuneTimes'
  <2>1. TuneTimes
    BY <1>5 DEF TuneInv
  <2>2. /\ LongestFeed \in Nat /\ tune_end_time <= tune_due
        /\ cl_by + ClientLag * Len(cl_data)
             <= tune_due + RecvTimeout + ClientLag * (LongestFeed + 1)
    BY <1>1, <2>1 DEF TuneTimes
  <2>3. RecvTimeout \in Nat /\ ClientLag * (LongestFeed + 1) \in Nat
    BY <2>2, DaemonAssumption
  <2>4. cl_by' + ClientLag * Len(cl_data')
          <= tune_due + RecvTimeout + ClientLag * (LongestFeed + 1)
    BY <1>2, <1>3, <2>2, <2>3
  <2>5. ClientLag * (LongestFeed' + 1) = ClientLag * (LongestFeed + 1)
    BY <1>4
  <2> QED
    BY <1>1, <1>4, <2>2, <2>4, <2>5 DEF TuneTimes
<1>6. is_tuning' => TuneTimes'
  BY <1>1, <1>5, Zenon
<1> QED
  BY <1>1, <1>2, <1>3, <1>4, <1>6 DEF TuneInv

LEMMA TuneUntune ==
  ASSUME Shape, TuneInv, Untune
  PROVE  TuneInv'
<1>0. RecvTimeout \in Nat
  BY DaemonAssumption
<1>1. cl_pc = "untune" /\ UNCHANGED <<to_come, is_running, tune_end_time, tune_due>> /\ clock' = clock
  BY DEF Untune, winkeyer_data, keyerVars
<1>2. /\ clock \in Nat /\ cl_by \in Nat /\ clock <= cl_by /\ tune_due \in Nat
      /\ tune_end_time \in Nat
  BY DEF TuneInv
<1>4. /\ LongestFeed' = LongestFeed /\ Bounded' /\ ~MayStop /\ is_running'
      /\ \A m \in to_come'.of : m.kind # "exit"
  BY <1>1, TuneKept
<1>5. CASE cl_data = <<>>
  <2>1. ~is_tuning' /\ cl_pc' = "recv" /\ cl_by' = clock + RecvTimeout
    BY <1>5 DEF Untune, ClientTo
  <2> QED
    BY <1>0, <1>1, <1>2, <1>4, <2>1 DEF TuneInv
<1>6. CASE cl_data # <<>>
  <2>1. /\ cl_data' = Tail(cl_data) /\ cl_pc' = "untune" /\ cl_by' = clock + ClientLag
        /\ is_tuning' = is_tuning
    BY <1>6 DEF Untune, ClientTo
  <2>2. /\ cl_by' + ClientLag * Len(cl_data') <= cl_by + ClientLag * Len(cl_data)
        /\ clock <= cl_by' /\ cl_by' \in Nat /\ ClientLag * Len(cl_data) \in Nat
        /\ ClientLag * Len(cl_data') \in Nat
    BY <1>2, <1>6, <2>1, OneLess
  <2>3. ASSUME is_tuning PROVE TuneTimes'
    <3>1. TuneTimes
      BY <2>3 DEF TuneInv
    <3>2. /\ LongestFeed \in Nat /\ tune_end_time <= tune_due
          /\ cl_by + ClientLag * Len(cl_data)
               <= tune_due + RecvTimeout + ClientLag * (LongestFeed + 4)
      BY <1>1, <3>1 DEF TuneTimes
    <3>3. RecvTimeout \in Nat /\ ClientLag * (LongestFeed + 4) \in Nat
      BY <3>2, DaemonAssumption
    <3>4. cl_by' + ClientLag * Len(cl_data')
            <= tune_due + RecvTimeout + ClientLag * (LongestFeed + 4)
      BY <1>2, <2>2, <3>2, <3>3
    <3>5. ClientLag * (LongestFeed' + 4) = ClientLag * (LongestFeed + 4)
      BY <1>4
    <3> QED
      BY <1>1, <1>4, <2>1, <3>2, <3>4, <3>5 DEF TuneTimes
  <2>4. is_tuning' => TuneTimes'
    BY <2>1, <2>3, Zenon
  <2> QED
    BY <1>1, <1>2, <1>4, <2>1, <2>2, <2>4 DEF TuneInv
<1> QED
  BY <1>5, <1>6

\* The look at the tuning: before its end, the next look is a receive timeout
\* away; after it, the two bytes of the key-up follow.
LEMMA TuneCheck ==
  ASSUME Shape, TuneInv, Unwrapped, Check
  PROVE  TuneInv'
<1>0. RecvTimeout \in Nat /\ ClientLag \in Nat /\ U32 \in Nat \ {0}
  BY DaemonAssumption, KeyerAssumption
<1>1. /\ UNCHANGED <<to_come, is_running, is_tuning, tune_end_time, tune_due>> /\ clock' = clock
      /\ cl_pc = "recv" \/ (cl_pc = "feed" /\ cl_data = <<>>)
  BY DEF Check, keyerVars, tuning
<1>2. /\ clock \in Nat /\ cl_by \in Nat /\ clock <= cl_by /\ tune_due \in Nat
      /\ tune_end_time \in Nat
  BY DEF TuneInv
<1>3. ms = clock
  BY <1>0, <1>2 DEF Unwrapped, ms
<1>4. /\ LongestFeed' = LongestFeed /\ Bounded' /\ ~MayStop /\ is_running'
      /\ \A m \in to_come'.of : m.kind # "exit"
  BY <1>1, TuneKept
<1>5. CASE is_tuning /\ ms > tune_end_time
  <2>1. cl_pc' = "untune" /\ cl_data' = <<11, 0>> /\ cl_by' = clock + ClientLag
    BY <1>5 DEF Check, ClientTo
  <2>2. TuneTimes
    BY <1>5 DEF TuneInv
  <2>3. LongestFeed \in Nat /\ tune_end_time <= tune_due
    BY <2>2 DEF TuneTimes
  <2>4. /\ ClientLag * (LongestFeed + 1) = ClientLag * LongestFeed + ClientLag
        /\ ClientLag * (LongestFeed + 4) = ClientLag * LongestFeed + 4 * ClientLag
        /\ ClientLag * LongestFeed \in Nat
    BY <2>3, Lags, Zenon
  <2>5. cl_by <= tune_due + RecvTimeout + (ClientLag * LongestFeed + ClientLag)
    <3>1. CASE cl_pc = "recv"
      <4>1. cl_by <= tune_due + RecvTimeout
        BY <2>2, <3>1 DEF TuneTimes
      <4> QED
        BY <1>0, <1>2, <2>4, <4>1
    <3>2. CASE cl_pc = "feed" /\ cl_data = <<>>
      <4>1. ClientLag * Len(cl_data) = 0
        BY <1>0, <3>2
      <4>2. cl_by + ClientLag * Len(cl_data)
              <= tune_due + RecvTimeout + ClientLag * (LongestFeed + 1)
        BY <2>2, <3>2 DEF TuneTimes
      <4>3. cl_by + 0 <= tune_due + RecvTimeout + (ClientLag * LongestFeed + ClientLag)
        BY <2>4, <4>1, <4>2
      <4> QED
        BY <1>2, <4>3
    <3> QED
      BY <1>1, <3>1, <3>2
  <2>6. ClientLag * Len(cl_data') = 2 * ClientLag
    BY <1>0, <2>1
  <2>7. ClientLag * (LongestFeed' + 4) = ClientLag * LongestFeed + 4 * ClientLag
    BY <1>4, <2>4
  <2>8. cl_by' + 2 * ClientLag
          <= tune_due + RecvTimeout + (ClientLag * LongestFeed + 4 * ClientLag)
    BY <1>0, <1>2, <2>1, <2>4, <2>5
  <2>9. cl_by' + ClientLag * Len(cl_data')
          <= tune_due' + RecvTimeout + ClientLag * (LongestFeed' + 4)
    BY <1>1, <2>6, <2>7, <2>8
  <2>10. TuneTimes'
    BY <1>1, <1>4, <2>1, <2>3, <2>9 DEF TuneTimes
  <2> QED
    BY <1>0, <1>1, <1>2, <1>4, <2>1, <2>10 DEF TuneInv
<1>6. CASE ~(is_tuning /\ ms > tune_end_time)
  <2>1. cl_pc' = "recv" /\ cl_by' = clock + RecvTimeout
    BY <1>6 DEF Check, ClientTo
  <2>2. ASSUME is_tuning PROVE TuneTimes'
    <3>1. TuneTimes
      BY <2>2 DEF TuneInv
    <3>2. LongestFeed \in Nat /\ tune_end_time <= tune_due
      BY <3>1 DEF TuneTimes
    <3>3. clock <= tune_due
      BY <1>2, <1>3, <1>6, <2>2, <3>2
    <3> QED
      BY <1>0, <1>1, <1>2, <1>4, <2>1, <3>2, <3>3 DEF TuneTimes
  <2>3. is_tuning' => TuneTimes'
    BY <1>1, <2>2, Zenon
  <2> QED
    BY <1>0, <1>1, <1>2, <1>4, <2>1, <2>3 DEF TuneInv
<1> QED
  BY <1>5, <1>6

\* A step that leaves the client thread alone, at most the clock moves.
LEMMA TuneFrame ==
  ASSUME TuneInv, UNCHANGED <<to_come, is_running, cl_pc, cl_data, cl_by>>,
         UNCHANGED <<is_tuning, tune_end_time, tune_due>>,
         clock' \in Nat, clock' <= cl_by
  PROVE  TuneInv'
<1>1. /\ LongestFeed' = LongestFeed /\ Bounded' /\ ~MayStop /\ is_running'
      /\ \A m \in to_come'.of : m.kind # "exit"
  BY TuneKept
<1>2. TuneTimes => TuneTimes'
  BY <1>1, Zenon DEF TuneTimes
<1>3. is_tuning' => TuneTimes'
  BY <1>2, Zenon DEF TuneInv
<1> QED
  BY <1>1, <1>3 DEF TuneInv

LEMMA TuneNext == Shape /\ TuneInv /\ Unwrapped /\ [Next]_vars => TuneInv'
<1> SUFFICES ASSUME Shape, TuneInv, Unwrapped, [Next]_vars PROVE TuneInv'
  OBVIOUS
<1>0. clock \in Nat /\ cl_by \in Nat /\ clock <= cl_by /\ is_running /\ ~MayStop /\ cl_pc # "done"
  BY DEF TuneInv
<1>1. CASE \E msg \in to_come.of : Receive(msg)
  BY <1>1, TuneReceive
<1>2. CASE Feed
  BY <1>2, TuneFeed
<1>3. CASE Check
  BY <1>3, TuneCheck
<1>4. CASE Untune
  BY <1>4, TuneUntune
<1>5. CASE ClientExit \/ Stop
  BY <1>0, <1>5 DEF ClientExit, Stop
<1>6. CASE KeyerTick \/ PortCheck \/ KeyerExit \/ Unplug \/ Plug \/ UNCHANGED vars
  <2>1. /\ UNCHANGED <<to_come, is_running, cl_pc, cl_data, cl_by>>
        /\ UNCHANGED <<is_tuning, tune_end_time, tune_due>>
    BY <1>6 DEF KeyerTick, PortCheck, KeyerExit, Unplug, Plug, vars, client, tuning
  <2>2. clock' = clock
    <3>1. CASE KeyerTick
      BY <3>1 DEF KeyerTick, update, TimedWait, Idle, ElementEnd, SpaceEnd, WordSpaceEnd,
                  NextElement, CharSpace, BufferWait, BufferedCommand, NextCharacter, Stay, switch_to
    <3>2. CASE PortCheck \/ KeyerExit \/ Unplug \/ Plug \/ UNCHANGED vars
      BY <3>2 DEF PortCheck, KeyerExit, Unplug, Plug, vars, keyerVars
    <3> QED
      BY <1>6, <3>1, <3>2
  <2> QED
    BY <1>0, <2>1, <2>2, TuneFrame
<1>7. CASE Tick
  <2>1. /\ UNCHANGED <<to_come, is_running, cl_pc, cl_data, cl_by>>
        /\ UNCHANGED <<is_tuning, tune_end_time, tune_due>> /\ clock' = clock + 1
        /\ clock < cl_by
    BY <1>0, <1>7 DEF Tick, client, tuning
  <2>2. clock' \in Nat /\ clock' <= cl_by
    BY <1>0, <2>1
  <2> QED
    BY <2>1, <2>2, TuneFrame
<1> QED
  BY <1>1, <1>2, <1>3, <1>4, <1>5, <1>6, <1>7 DEF Next, ClientStep, KeyerStep

LEMMA TuneOver ==
  ASSUME Shape, KeyInv, TuneInv
  PROVE  TuneBounded
<1> SUFFICES ASSUME dtr, state # "send_element"
             PROVE  clock <= tune_due + 1 + RecvTimeout + ClientLag * (LongestFeed + 4)
  BY DEF TuneBounded
<1>0. RecvTimeout \in Nat /\ ClientLag \in Nat
  BY DaemonAssumption
<1>1. is_tuning
  BY Zenon DEF KeyInv
<1>2. TuneTimes /\ clock \in Nat /\ cl_by \in Nat /\ clock <= cl_by /\ tune_due \in Nat
  BY <1>1 DEF TuneInv
<1>3. LongestFeed \in Nat
  BY <1>2 DEF TuneTimes
<1>4. /\ ClientLag * (LongestFeed + 1) = ClientLag * LongestFeed + ClientLag
      /\ ClientLag * (LongestFeed + 4) = ClientLag * LongestFeed + 4 * ClientLag
      /\ ClientLag * LongestFeed \in Nat
  BY <1>3, Lags, Zenon
<1>5. Len(cl_data) \in Nat
  BY FedType
<1>6. ClientLag * Len(cl_data) \in Nat
  BY <1>5, Lags, Zenon
<1>7. cl_pc \in {"recv", "feed", "untune"}
  BY DEF Shape, TuneInv
<1>8. CASE cl_pc = "recv"
  <2>1. cl_by <= tune_due + RecvTimeout
    BY <1>2, <1>8 DEF TuneTimes
  <2> QED
    BY <1>0, <1>2, <1>4, <2>1
<1>9. CASE cl_pc = "feed"
  <2>1. cl_by + ClientLag * Len(cl_data) <= tune_due + RecvTimeout + ClientLag * (LongestFeed + 1)
    BY <1>2, <1>9 DEF TuneTimes
  <2> QED
    BY <1>0, <1>2, <1>4, <1>6, <2>1
<1>10. CASE cl_pc = "untune"
  <2>1. cl_by + ClientLag * Len(cl_data) <= tune_due + RecvTimeout + ClientLag * (LongestFeed + 4)
    BY <1>2, <1>10 DEF TuneTimes
  <2> QED
    BY <1>0, <1>2, <1>4, <1>6, <2>1
<1> QED
  BY <1>7, <1>8, <1>9, <1>10

\* As long as the client thread is not ended (stop() and the exit command leave the
\* key as it is), the messages have a longest and the 32-bit timer has not wrapped, a
\* tune never outlasts its time by more than a receive timeout and the feeding of the
\* one message that came first, however the keyer thread's elements, further tunes,
\* aborts and an unplugged port interleave with it.
THEOREM TunesEnd == NeverStopped /\ Spec /\ []Unwrapped => []TuneBounded
<1>1. NeverStopped /\ Init => Shape /\ KeyInv /\ TuneInv
  BY ShapeInit, TuneInit DEF Init, KeyerInit, KeyInv
<1>2. Shape /\ KeyInv /\ TuneInv /\ Unwrapped /\ [Next]_vars => (Shape /\ KeyInv /\ TuneInv)'
  BY ShapeNext, KeyNext, TuneNext
<1>3. Shape /\ KeyInv /\ TuneInv => TuneBounded
  BY TuneOver
<1> QED
  BY <1>1, <1>2, <1>3, PTL DEF Spec

-----------------------------------------------------------------------------
(* The keyer thread's pace.                                                  *)

\* A tick begins when it is due, never later than the thread's lag, and the mutex
\* is held only by a thread that runs.
ThreadInv ==
  /\ clock \in Nat /\ wake \in Nat /\ mtx \in {"free", "keyer"}
  /\ mtx = "keyer" => kt_done = FALSE /\ wake <= clock
  /\ kt_done = FALSE => clock <= wake + KeyerLag

\* One turn to the state next: the tick ends, or goes on.
TickEnds(next) ==
  /\ mtx' = "free" /\ drained' = 0 /\ wake' = clock + 1
  /\ next = state \/ drained + 1 = MaxTransitions
TickGoesOn(next) ==
  /\ mtx' = "keyer" /\ drained' = drained + 1 /\ wake' = wake
  /\ next # state /\ drained + 1 # MaxTransitions

LEMMA SwitchThread ==
  ASSUME NEW next, switch_to(next)
  PROVE  clock' = clock /\ state' = next /\ (TickEnds(next) \/ TickGoesOn(next))
BY DEF switch_to, TickEnds, TickGoesOn

\* The state a turn leads to, and what allows it.
LEMMA TurnCases ==
  ASSUME update
  PROVE  /\ Turn
         /\ \/ /\ switch_to(state)
               /\ UNCHANGED <<playing, inter_char_space_played, sent_element, last_send_time>>
               /\ state \in Timed => TimedWait
            \/ state = "idle" /\ Idle /\ switch_to("winkeyer")
            \/ ElementEnd \/ SpaceEnd \/ WordSpaceEnd \/ NextElement \/ CharSpace \/ NextCharacter
<1>1. CASE TimedWait
  BY <1>1 DEF TimedWait, Stay
<1>2. CASE Idle
  <2>1. "idle" \notin Timed
    BY DEF Timed
  <2> QED
    BY <1>2, <2>1 DEF Idle
<1>3. CASE BufferWait \/ BufferedCommand
  <2>1. "winkeyer" \notin Timed
    BY DEF Timed
  <2> QED
    BY <1>3, <2>1 DEF BufferWait, BufferedCommand, Stay, Between
<1>4. CASE ElementEnd \/ SpaceEnd \/ WordSpaceEnd \/ NextElement \/ CharSpace \/ NextCharacter
  BY <1>4 DEF ElementEnd, SpaceEnd, WordSpaceEnd, NextElement, CharSpace, NextCharacter
<1> QED
  BY <1>1, <1>2, <1>3, <1>4 DEF update

LEMMA TurnSwitches ==
  ASSUME update
  PROVE  \E next : switch_to(next)
<1>1. ASSUME Idle PROVE \E next : switch_to(next)
  BY <1>1 DEF Idle
<1>2. ASSUME NextCharacter PROVE \E next : switch_to(next)
  BY <1>2 DEF NextCharacter
<1> QED
  BY <1>1, <1>2, TurnCases DEF ElementEnd, SpaceEnd, WordSpaceEnd, NextElement, CharSpace

\* Every other step leaves the keyer's state alone.
LEMMA OtherSteps ==
  ASSUME [Next]_vars, ~KeyerTick
  PROVE  /\ UNCHANGED <<thread, sending, history>>
         /\ \/ clock' = clock
            \/ clock' = clock + 1 /\ (kt_done \/ clock < wake + KeyerLag)
         /\ kt_done' = kt_done \/ (mtx = "free" /\ kt_done' = TRUE)
<1>1. CASE \E msg \in to_come.of : Receive(msg)
  BY <1>1 DEF Receive, keyerVars
<1>2. CASE Feed
  BY <1>2 DEF Feed, winkeyer_data
<1>3. CASE Untune
  BY <1>3 DEF Untune, winkeyer_data, keyerVars
<1>4. CASE Check \/ ClientExit \/ Stop \/ Plug \/ KeyerExit \/ UNCHANGED vars
  BY <1>4 DEF Check, ClientExit, Stop, Plug, KeyerExit, vars, keyerVars
<1>5. CASE PortCheck \/ Unplug
  BY <1>5 DEF PortCheck, Unplug
<1>6. CASE Tick
  BY <1>6 DEF Tick
<1> QED
  BY <1>1, <1>2, <1>3, <1>4, <1>5, <1>6 DEF Next, ClientStep, KeyerStep

LEMMA ThreadNext == ThreadInv /\ [Next]_vars => ThreadInv'
<1> SUFFICES ASSUME ThreadInv, [Next]_vars PROVE ThreadInv'
  OBVIOUS
<1>0. KeyerLag \in Nat
  BY DaemonAssumption
<1>1. CASE KeyerTick
  <2>1. update /\ kt_done' = kt_done /\ ~kt_done
    BY <1>1 DEF KeyerTick
  <2>2. Turn /\ \E next : switch_to(next)
    BY <2>1, TurnCases, TurnSwitches
  <2>3. PICK next : switch_to(next)
    BY <2>2
  <2>4. clock' = clock /\ (TickEnds(next) \/ TickGoesOn(next))
    BY <2>3, SwitchThread, Zenon
  <2>5. wake <= clock
    BY <2>2 DEF Turn, ThreadInv
  <2>6. mtx = "free" \/ kt_done = FALSE
    BY DEF ThreadInv
  <2>7. CASE TickEnds(next)
    BY <1>0, <2>4, <2>7 DEF TickEnds, ThreadInv
  <2>8. CASE TickGoesOn(next)
    <3>1. mtx' = "keyer" /\ wake' = wake
      BY <2>8 DEF TickGoesOn
    <3> QED
      BY <1>0, <2>1, <2>4, <2>5, <3>1 DEF ThreadInv
  <2> QED
    BY <2>4, <2>7, <2>8
<1>2. CASE ~KeyerTick
  <2>1. /\ mtx' = mtx /\ wake' = wake
        /\ clock' = clock \/ (clock' = clock + 1 /\ (kt_done \/ clock < wake + KeyerLag))
        /\ kt_done' = kt_done \/ (mtx = "free" /\ kt_done' = TRUE)
    BY <1>2, OtherSteps DEF thread
  <2> QED
    BY <1>0, <2>1 DEF ThreadInv
<1> QED
  BY <1>1, <1>2

LEMMA ThreadInit == Init => ThreadInv
BY KeyerAssumption, DaemonAssumption DEF Init, KeyerInit, ThreadInv

-----------------------------------------------------------------------------
(* Elements keep their lengths.                                              *)

\* The hypothesis: no element has length 0, and the 32-bit timer does not wrap
\* within one.
Measurable ==
  \A e \in Element : /\ weighted_element_length_ms(e) \in Nat \ {0}
                     /\ clock + weighted_element_length_ms(e) < U32

LEMMA ElementDeadline ==
  EnterDeadlines("send_element") = {(ms + weighted_element_length_ms(sent_element')) % U32}
BY Zenon DEF EnterDeadlines

\* The element that is begun is an element, and so is what is left of the character.
LEMMA ElementBegun ==
  ASSUME playing \in Seq(Element), NextElement \/ NextCharacter, state' = "send_element"
  PROVE  /\ sent_element' \in Element /\ playing' \in Seq(Element)
         /\ switch_to("send_element") /\ state = "winkeyer"
<1>1. CASE NextElement
  <2>1. /\ playing # <<>> /\ sent_element' = Head(playing) /\ playing' = Tail(playing)
        /\ switch_to("send_element") /\ state = "winkeyer"
    BY <1>1 DEF NextElement
  <2>2. Head(playing) \in Element /\ Tail(playing) \in Seq(Element)
    BY <2>1
  <2> QED
    BY <2>1, <2>2, Zenon
<1>2. CASE NextCharacter
  <2> DEFINE c == Head(buffer)
  <2>1. state = "winkeyer"
    BY <1>2 DEF NextCharacter, Between
  <2>2. CASE c # 124 /\ c \in DOMAIN Pattern
    <3>1. /\ sent_element' = Head(Pattern[c]) /\ playing' = Tail(Pattern[c])
          /\ switch_to("send_element")
      BY <1>2, <2>2 DEF NextCharacter
    <3> HIDE DEF c
    <3>2. Pattern[c] \in Seq(Element) /\ Pattern[c] # <<>>
      BY <2>2, KeyerAssumption
    <3>3. Head(Pattern[c]) \in Element /\ Tail(Pattern[c]) \in Seq(Element)
      BY <3>2
    <3> QED
      BY <2>1, <3>1, <3>3, Zenon
  <2>3. CASE ~(c # 124 /\ c \in DOMAIN Pattern)
    <3>1. switch_to("half_dot_gap") \/ switch_to("inter_word_space")
      BY <1>2, <2>3 DEF NextCharacter
    <3>2. state' = "half_dot_gap" \/ state' = "inter_word_space"
      BY <3>1, SwitchThread, Zenon
    <3> QED
      BY <3>2
  <2> QED
    BY <2>2, <2>3
<1> QED
  BY <1>1, <1>2

\* What is left of a character is elements, whatever the turn.
LEMMA PlayingKept ==
  ASSUME playing \in Seq(Element), update
  PROVE  playing' \in Seq(Element)
<1>1. CASE NextElement \/ NextCharacter
  <2>1. CASE state' = "send_element"
    BY <1>1, <2>1, ElementBegun, Zenon
  <2>2. CASE state' # "send_element"
    <3>1. playing' = playing
      <4>1. ASSUME switch_to("send_element") PROVE FALSE
        BY <2>2, <4>1, SwitchThread, Zenon
      <4> QED
        BY <1>1, <4>1 DEF NextElement, NextCharacter
    <3> QED
      BY <3>1
  <2> QED
    BY <2>1, <2>2
<1>2. CASE ~(NextElement \/ NextCharacter)
  <2>1. playing' = playing
    BY <1>2, TurnCases DEF Idle, ElementEnd, SpaceEnd, WordSpaceEnd, CharSpace
  <2> QED
    BY <2>1
<1> QED
  BY <1>1, <1>2

\* The keyer looks at an element no later than at its end.
ElementInv ==
  /\ playing \in Seq(Element)
  /\ state = "send_element" =>
       /\ entered \in Nat /\ nominal \in Nat
       /\ deadline = entered + nominal /\ wake <= deadline

\* An element is left at its deadline only.
LEMMA ElementLeft ==
  ASSUME update, state = "send_element", state' # state
  PROVE  ElementEnd
<1>1. "winkeyer" # "send_element" /\ "idle" # "send_element"
  OBVIOUS
<1>2. ~NextElement /\ ~CharSpace /\ ~NextCharacter /\ ~SpaceEnd /\ ~WordSpaceEnd
  BY DEF NextElement, CharSpace, NextCharacter, Between, SpaceEnd, WordSpaceEnd
<1>3. ~switch_to(state)
  BY SwitchThread, Zenon
<1> QED
  BY <1>1, <1>2, <1>3, TurnCases

LEMMA ElementTurn ==
  ASSUME ThreadInv, ElementInv, Measurable, update
  PROVE  ElementInv'
<1>0. U32 \in Nat \ {0} /\ clock \in Nat /\ wake \in Nat
  BY KeyerAssumption DEF ThreadInv
<1>1. playing' \in Seq(Element)
  BY PlayingKept DEF ElementInv
<1>2. PICK next : switch_to(next)
  BY TurnSwitches
<1>3. clock' = clock /\ state' = next /\ (TickEnds(next) \/ TickGoesOn(next))
  BY <1>2, SwitchThread, Zenon
<1>4. wake <= clock
  BY TurnCases DEF Turn, ThreadInv
<1>5. CASE next = "send_element" /\ state # next
  <2>1. NextElement \/ NextCharacter
    <3>1. ASSUME switch_to("winkeyer") \/ switch_to("inter_element_space")
                   \/ switch_to("autospace") \/ switch_to(state) PROVE FALSE
      BY <1>3, <1>5, <3>1, SwitchThread
    <3> QED
      BY <3>1, TurnCases DEF ElementEnd, SpaceEnd, WordSpaceEnd, CharSpace
  <2>2. sent_element' \in Element /\ switch_to("send_element")
    BY <1>3, <1>5, <2>1, ElementBegun DEF ElementInv
  <2> DEFINE l == weighted_element_length_ms(sent_element')
  <2>3. l \in Nat \ {0} /\ clock + l < U32
    BY <2>2, Zenon DEF Measurable
  <2>4. entered' = clock /\ nominal' = l /\ deadline' \in EnterDeadlines("send_element")
    BY <1>5, <2>2 DEF switch_to
  <2>5. deadline' = (ms + l) % U32
    BY <2>4, ElementDeadline
  <2> HIDE DEF l
  <2>6. deadline' = clock + l
    <3>1. ms = clock
      BY <1>0, <2>3 DEF ms
    <3>2. clock + l \in 0 .. U32 - 1
      BY <1>0, <2>3
    <3>3. \A x \in 0 .. U32 - 1 : x % U32 = x
      BY <1>0
    <3> QED
      BY <2>5, <3>1, <3>2, <3>3, Zenon
  <2>7. wake' <= clock + l
    BY <1>0, <1>3, <1>4, <2>3 DEF TickEnds, TickGoesOn
  <2> QED
    BY <1>0, <1>1, <2>3, <2>4, <2>6, <2>7 DEF ElementInv
<1>6. CASE next = "send_element" /\ state = next
  <2>1. UNCHANGED <<entered, nominal, deadline>>
    BY <1>2, <1>6 DEF switch_to
  <2>2. wake' = clock + 1
    BY <1>3, <1>6 DEF TickEnds, TickGoesOn
  <2>3. ms < deadline
    <3>1. state \in Timed
      BY <1>6 DEF Timed
    <3>2. CASE TimedWait
      BY <3>2 DEF TimedWait
    <3>3. CASE ElementEnd
      <4>1. state' = "inter_element_space"
        BY <3>3, SwitchThread DEF ElementEnd
      <4> QED
        BY <1>3, <1>6, <4>1
    <3> QED
      BY <1>6, <3>1, <3>2, <3>3, TurnCases
         DEF SpaceEnd, WordSpaceEnd, NextElement, CharSpace, NextCharacter, Between
  <2>4. ms = clock
    <3>1. "dit" \in Element
      BY DEF Element
    <3>2. clock < U32
      BY <1>0, <3>1 DEF Measurable
    <3> QED
      BY <1>0, <3>2 DEF ms
  <2> QED
    BY <1>0, <1>1, <1>6, <2>1, <2>2, <2>3, <2>4 DEF ElementInv
<1>7. CASE next # "send_element"
  BY <1>1, <1>3, <1>7 DEF ElementInv
<1> QED
  BY <1>5, <1>6, <1>7

LEMMA ElementNext ==
  ThreadInv /\ ElementInv /\ Measurable /\ [Next]_vars => ElementInv'
<1> SUFFICES ASSUME ThreadInv, ElementInv, Measurable, [Next]_vars PROVE ElementInv'
  OBVIOUS
<1>1. CASE KeyerTick
  <2>1. update
    BY <1>1 DEF KeyerTick
  <2> QED
    BY <2>1, ElementTurn
<1>2. CASE ~KeyerTick
  <2>1. UNCHANGED <<playing, state, entered, nominal, deadline, wake>>
    BY <1>2, OtherSteps DEF thread, sending, history
  <2> QED
    BY <2>1, Zenon DEF ElementInv
<1> QED
  BY <1>1, <1>2

LEMMA ElementStep ==
  ASSUME ThreadInv, ElementInv, Measurable, [Next]_vars
  PROVE  state = "send_element" /\ state' # state
           => clock - entered \in nominal .. nominal + KeyerLag
<1> SUFFICES ASSUME state = "send_element", state' # state
             PROVE  clock - entered \in nominal .. nominal + KeyerLag
  OBVIOUS
<1>0. /\ U32 \in Nat \ {0} /\ clock \in Nat /\ wake \in Nat /\ KeyerLag \in Nat
      /\ entered \in Nat /\ nominal \in Nat /\ deadline = entered + nominal /\ wake <= deadline
  BY KeyerAssumption, DaemonAssumption DEF ThreadInv, ElementInv
<1>1. KeyerTick
  BY OtherSteps DEF sending
<1>2. update /\ ~kt_done
  BY <1>1 DEF KeyerTick
<1>3. ElementEnd
  BY <1>2, ElementLeft
<1>4. ms >= deadline /\ Turn
  BY <1>3 DEF ElementEnd
<1>5. ms <= clock /\ ms \in Nat
  BY <1>0 DEF ms
<1>6. clock <= wake + KeyerLag
  BY <1>2 DEF ThreadInv
<1> QED
  BY <1>0, <1>4, <1>5, <1>6

\* As long as every element takes at least a millisecond and the timer does not
\* wrap within one, an element is never shorter than its length and longer by at
\* most the keyer thread's lag, whatever the client thread feeds meanwhile.
THEOREM ElementsOnTime == Spec /\ []Measurable => ElementOnTime
<1>1. Init => ThreadInv /\ ElementInv
  <2>1. Init => playing \in Seq(Element) /\ state # "send_element"
    BY DEF Init, KeyerInit
  <2> QED
    BY <2>1, ThreadInit DEF ElementInv
<1>2. ThreadInv /\ ElementInv /\ Measurable /\ [Next]_vars => (ThreadInv /\ ElementInv)'
  BY ThreadNext, ElementNext
<1>3. ThreadInv /\ ElementInv /\ Measurable /\ [Next]_vars =>
        [state = "send_element" /\ state' # state
           => clock - entered \in nominal .. nominal + KeyerLag]_vars
  BY ElementStep
<1> QED
  BY <1>1, <1>2, <1>3, PTL DEF Spec, ElementOnTime

-----------------------------------------------------------------------------
(* The cap on the turns of one tick is not reached.                          *)

\* The hypotheses: the cap, 16 in the code, is above 6, whatever is timed takes
\* longer than the thread's lag, and the timer does not wrap within it.
CapHigh == MaxTransitions > 6
Outlasts(length) == length \in Nat /\ length > KeyerLag /\ clock + length < U32
Unhurried ==
  /\ \A e \in Element : Outlasts(weighted_element_length_ms(e))
  /\ Outlasts(weighted_element_length_ms("dit") \div 2)
  /\ Outlasts(inter_element_space_length_ms) /\ Outlasts(inter_word_space_length_ms)

\* What a state entered in this tick allows: most wait for a deadline that is out
\* of the tick's reach, and those that do not are passed once, in one order.
TurnShape ==
  /\ state \in {"send_element", "inter_element_space", "half_dot_gap"} =>
       deadline \in Nat /\ deadline > wake + KeyerLag /\ drained <= 6
  /\ state = "inter_word_space" =>
       /\ playing = <<>> /\ inter_char_space_played
       /\ drained <= 4 \/ (drained <= 6 /\ deadline \in Nat /\ deadline > wake + KeyerLag)
  /\ state = "autospace" => drained <= 2 /\ playing = <<>> /\ inter_char_space_played
  /\ state = "winkeyer" =>
       \/ drained <= 1
       \/ /\ playing = <<>> /\ inter_char_space_played
          /\ drained <= 3 \/ (drained <= 5 /\ last_send_time >= wake)
  /\ state # "idle"

CapInv ==
  /\ playing \in Seq(Element) /\ drained \in Nat
  /\ state \in Timed \cup {"idle", "winkeyer"}
  /\ last_send_time \in Nat /\ last_send_time <= clock
  /\ mtx = "free" => drained = 0
  /\ mtx = "keyer" => TurnShape

\* A deadline set from the clock, or from an earlier time.
LEMMA Reached ==
  ASSUME ThreadInv, NEW l, Outlasts(l), NEW t \in Nat, t <= clock
  PROVE  (t + l) % U32 = t + l /\ (t >= wake => t + l > wake + KeyerLag)
<1>0. U32 \in Nat \ {0} /\ KeyerLag \in Nat /\ clock \in Nat /\ wake \in Nat
  BY KeyerAssumption, DaemonAssumption DEF ThreadInv
<1>1. l \in Nat /\ l > KeyerLag /\ clock + l < U32
  BY DEF Outlasts
<1>2. t + l \in 0 .. U32 - 1
  BY <1>0, <1>1
<1> QED
  BY <1>0, <1>1, <1>2

LEMMA SpaceDeadlines ==
  /\ EnterDeadlines("inter_element_space") = {(ms + inter_element_space_length_ms) % U32}
  /\ EnterDeadlines("inter_word_space") =
       {(last_send_time' + inter_word_space_length_ms) % U32}
  /\ EnterDeadlines("half_dot_gap") = {(ms + weighted_element_length_ms("dit") \div 2) % U32}
  /\ EnterDeadlines("autospace") = AutospaceDeadlines
BY Zenon DEF EnterDeadlines

\* The timer is the clock: what was entered now is not over within this tick.
LEMMA EnteredNow ==
  ASSUME ThreadInv, Unhurried, Turn, playing \in Seq(Element), NEW next,
         next \in {"send_element", "inter_element_space", "half_dot_gap"},
         next # state, switch_to(next), next = "send_element" => sent_element' \in Element
  PROVE  deadline' \in Nat /\ deadline' > wake + KeyerLag
<1>0. U32 \in Nat \ {0} /\ clock \in Nat /\ wake \in Nat /\ wake <= clock
  BY KeyerAssumption DEF ThreadInv, Turn
<1>1. deadline' \in EnterDeadlines(next)
  BY DEF switch_to
<1>2. Outlasts(inter_element_space_length_ms)
  BY DEF Unhurried
<1>3. ms = clock
  BY <1>0, <1>2 DEF ms, Outlasts
<1>4. ASSUME NEW l, Outlasts(l), deadline' = (ms + l) % U32
      PROVE  deadline' \in Nat /\ deadline' > wake + KeyerLag
  <2>1. (clock + l) % U32 = clock + l /\ (clock >= wake => clock + l > wake + KeyerLag)
    BY <1>0, <1>4, Reached
  <2> QED
    BY <1>0, <1>3, <1>4, <2>1 DEF Outlasts
<1>5. CASE next = "send_element"
  <2>1. Outlasts(weighted_element_length_ms(sent_element'))
    BY <1>5, Zenon DEF Unhurried
  <2>2. deadline' = (ms + weighted_element_length_ms(sent_element')) % U32
    BY <1>1, <1>5, ElementDeadline
  <2> QED
    BY <1>3, <1>4, <2>1, <2>2, Zenon
<1>6. CASE next = "inter_element_space"
  <2>2. deadline' = (ms + inter_element_space_length_ms) % U32
    BY <1>1, <1>6, SpaceDeadlines
  <2> QED
    BY <1>2, <1>3, <1>4, <2>2, Zenon
<1>7. CASE next = "half_dot_gap"
  <2>1. Outlasts(weighted_element_length_ms("dit") \div 2)
    BY DEF Unhurried
  <2>2. deadline' = (ms + weighted_element_length_ms("dit") \div 2) % U32
    BY <1>1, <1>7, SpaceDeadlines
  <2> QED
    BY <1>3, <1>4, <2>1, <2>2, Zenon
<1> QED
  BY <1>5, <1>6, <1>7

\* One turn that changes the state: at most six of them in a tick.
Passed ==
  /\ drained + 1 <= 6 /\ state' # "idle"
  /\ state' \in Timed \cup {"winkeyer"}
  /\ last_send_time' \in Nat /\ last_send_time' <= clock
  /\ state' \in {"send_element", "inter_element_space", "half_dot_gap"} =>
       deadline' \in Nat /\ deadline' > wake + KeyerLag
  /\ state' = "inter_word_space" =>
       /\ playing' = <<>> /\ inter_char_space_played'
       /\ drained + 1 <= 4 \/ (deadline' \in Nat /\ deadline' > wake + KeyerLag)
  /\ state' = "autospace" => drained + 1 <= 2 /\ playing' = <<>> /\ inter_char_space_played'
  /\ state' = "winkeyer" =>
       \/ drained + 1 <= 1
       \/ /\ playing' = <<>> /\ inter_char_space_played'
          /\ drained + 1 <= 3 \/ (drained + 1 <= 5 /\ last_send_time' >= wake)

LEMMA CapTurn ==
  ASSUME ThreadInv, CapInv, Unhurried, update, ~kt_done, state' # state
  PROVE  Passed
<1>0. /\ U32 \in Nat \ {0} /\ KeyerLag \in Nat /\ clock \in Nat /\ wake \in Nat /\ drained \in Nat
      /\ playing \in Seq(Element) /\ last_send_time \in Nat /\ last_send_time <= clock
  BY KeyerAssumption, DaemonAssumption DEF ThreadInv, CapInv
<1>1. Turn /\ wake <= clock /\ clock <= wake + KeyerLag
  BY TurnCases DEF Turn, ThreadInv
<1>2. mtx = "keyer" \/ drained = 0
  BY DEF ThreadInv, CapInv
<1>3. ms = clock
  <2>1. Outlasts(inter_element_space_length_ms)
    BY DEF Unhurried
  <2> QED
    BY <1>0, <2>1 DEF ms, Outlasts
\* A state entered in this tick whose deadline is out of reach is not left.
<1>4. ASSUME deadline \in Nat, deadline > wake + KeyerLag, ms >= deadline PROVE FALSE
  BY <1>0, <1>1, <1>3, <1>4
<1>5. mtx = "keyer" => TurnShape
  BY DEF CapInv
<1>6. CASE state = "idle" /\ Idle /\ switch_to("winkeyer")
  <2>1. state' = "winkeyer" /\ last_send_time' = last_send_time
    BY <1>6, SwitchThread, Zenon DEF Idle
  <2>2. drained = 0
    BY <1>2, <1>5, <1>6 DEF TurnShape
  <2> QED
    BY <1>0, <2>1, <2>2 DEF Passed
<1>7. CASE ElementEnd
  <2>1. /\ state = "send_element" /\ ms >= deadline /\ last_send_time' = ms
        /\ switch_to("inter_element_space")
    BY <1>7 DEF ElementEnd
  <2>2. drained = 0
    BY <1>2, <1>4, <1>5, <2>1 DEF TurnShape
  <2>3. state' = "inter_element_space"
    BY <2>1, SwitchThread, Zenon
  <2>4. deadline' \in Nat /\ deadline' > wake + KeyerLag
    BY <1>0, <1>1, <2>1, EnteredNow
  <2> QED
    BY <1>0, <1>3, <2>1, <2>2, <2>3, <2>4 DEF Passed, Timed
<1>8. CASE SpaceEnd
  <2>1. /\ state \in {"inter_element_space", "autospace", "half_dot_gap"} /\ ms >= deadline
        /\ switch_to("winkeyer") /\ UNCHANGED <<playing, inter_char_space_played, last_send_time>>
    BY <1>8 DEF SpaceEnd
  <2>2. state' = "winkeyer"
    BY <2>1, SwitchThread, Zenon
  <2>3. \/ drained = 0
        \/ drained <= 2 /\ playing = <<>> /\ inter_char_space_played
    BY <1>2, <1>4, <1>5, <2>1 DEF TurnShape
  <2> QED
    BY <1>0, <2>1, <2>2, <2>3 DEF Passed
<1>9. CASE WordSpaceEnd
  <2>1. /\ state = "inter_word_space" /\ ms >= deadline /\ last_send_time' = ms
        /\ switch_to("winkeyer") /\ UNCHANGED <<playing, inter_char_space_played>>
    BY <1>9 DEF WordSpaceEnd
  <2>2. state' = "winkeyer"
    BY <2>1, SwitchThread, Zenon
  <2>3. \/ drained = 0
        \/ drained <= 4 /\ playing = <<>> /\ inter_char_space_played
    BY <1>2, <1>4, <1>5, <2>1 DEF TurnShape
  <2> QED
    BY <1>0, <1>1, <1>3, <2>1, <2>2, <2>3 DEF Passed
<1>10. CASE state = "winkeyer"
  <2>0. \/ drained <= 1
        \/ /\ playing = <<>> /\ inter_char_space_played
           /\ drained <= 3 \/ (drained <= 5 /\ last_send_time >= wake)
    BY <1>2, <1>5, <1>10 DEF TurnShape
  <2>1. CASE CharSpace
    <3>1. /\ playing = <<>> /\ ~inter_char_space_played /\ inter_char_space_played' = TRUE
          /\ switch_to("autospace") /\ UNCHANGED <<playing, last_send_time>>
      BY <2>1 DEF CharSpace
    <3>2. state' = "autospace"
      BY <3>1, SwitchThread, Zenon
    <3> QED
      BY <1>0, <2>0, <3>1, <3>2 DEF Passed, Timed
  <2>2. CASE (NextElement \/ NextCharacter) /\ state' = "send_element"
    <3>1. sent_element' \in Element /\ switch_to("send_element")
      BY <1>0, <2>2, ElementBegun
    <3>2. deadline' \in Nat /\ deadline' > wake + KeyerLag
      BY <1>0, <1>1, <1>10, <3>1, EnteredNow
    <3>3. last_send_time' = last_send_time
      BY <2>2 DEF NextElement, NextCharacter
    <3>4. drained + 1 <= 6
      BY <1>0, <2>0
    <3> QED
      BY <1>0, <2>2, <3>2, <3>3, <3>4 DEF Passed, Timed
  <2>3. CASE NextCharacter /\ state' # "send_element"
    <3>1. playing = <<>> /\ inter_char_space_played /\ last_send_time' = last_send_time
      BY <2>3 DEF NextCharacter, Between
    <3>2. /\ UNCHANGED <<playing, inter_char_space_played>>
          /\ switch_to("half_dot_gap") \/ switch_to("inter_word_space")
      <4>1. ASSUME switch_to("send_element") PROVE FALSE
        BY <2>3, <4>1, SwitchThread, Zenon
      <4> QED
        BY <2>3, <4>1 DEF NextCharacter
    <3>3. CASE switch_to("half_dot_gap")
      <4>1. state' = "half_dot_gap"
        BY <3>3, SwitchThread, Zenon
      <4>2. deadline' \in Nat /\ deadline' > wake + KeyerLag
        BY <1>0, <1>1, <1>10, <3>3, EnteredNow
      <4>3. drained + 1 <= 6
        BY <1>0, <2>0
      <4> QED
        BY <1>0, <3>1, <4>1, <4>2, <4>3 DEF Passed, Timed
    <3>4. CASE switch_to("inter_word_space")
      <4>1. state' = "inter_word_space"
        BY <3>4, SwitchThread, Zenon
      <4>2. deadline' \in EnterDeadlines("inter_word_space")
        BY <1>10, <3>4 DEF switch_to
      <4>3. deadline' = (last_send_time + inter_word_space_length_ms) % U32
        BY <3>1, <4>2, SpaceDeadlines
      <4>4. Outlasts(inter_word_space_length_ms)
        BY DEF Unhurried
      <4>5. last_send_time >= wake => deadline' \in Nat /\ deadline' > wake + KeyerLag
        BY <1>0, <4>3, <4>4, Reached DEF Outlasts
      <4> QED
        BY <1>0, <2>0, <3>1, <3>2, <4>1, <4>5 DEF Passed, Timed
    <3> QED
      BY <3>2, <3>3, <3>4
  <2>4. CASE NextElement /\ state' # "send_element"
    <3>1. switch_to("send_element")
      BY <2>4 DEF NextElement
    <3> QED
      BY <2>4, <3>1, SwitchThread, Zenon
  <2>5. ~switch_to(state)
    BY SwitchThread, Zenon
  <2> QED
    BY <1>6, <1>7, <1>8, <1>9, <2>1, <2>2, <2>3, <2>4, <2>5, TurnCases
<1>11. CASE state # "winkeyer"
  <2>1. ~NextElement /\ ~CharSpace /\ ~NextCharacter
    BY <1>11 DEF NextElement, CharSpace, NextCharacter, Between
  <2>2. ~switch_to(state)
    BY SwitchThread, Zenon
  <2> QED
    BY <1>6, <1>7, <1>8, <1>9, <2>1, <2>2, TurnCases
<1> QED
  BY <1>10, <1>11

LEMMA CapNext ==
  CapHigh /\ ThreadInv /\ CapInv /\ Unhurried /\ [Next]_vars => CapInv'
<1> SUFFICES ASSUME CapHigh, ThreadInv, CapInv, Unhurried, [Next]_vars PROVE CapInv'
  OBVIOUS
<1>0. /\ clock \in Nat /\ drained \in Nat /\ playing \in Seq(Element)
      /\ last_send_time \in Nat /\ last_send_time <= clock
  BY DEF ThreadInv, CapInv
<1>1. CASE KeyerTick
  <2>1. update /\ ~kt_done
    BY <1>1 DEF KeyerTick
  <2>2. playing' \in Seq(Element)
    BY <1>0, <2>1, PlayingKept
  <2>3. PICK next : switch_to(next)
    BY <2>1, TurnSwitches
  <2>4. clock' = clock /\ state' = next /\ (TickEnds(next) \/ TickGoesOn(next))
    BY <2>3, SwitchThread, Zenon
  <2>5. CASE state' = state
    <3>1. mtx' = "free" /\ drained' = 0
      BY <2>4, <2>5 DEF TickEnds, TickGoesOn
    <3>2. last_send_time' = last_send_time
      <4>1. ASSUME ElementEnd \/ WordSpaceEnd PROVE FALSE
        BY <2>5, <4>1, SwitchThread DEF ElementEnd, WordSpaceEnd
      <4> QED
        BY <2>1, <4>1, TurnCases DEF Idle, SpaceEnd, NextElement, CharSpace, NextCharacter
    <3> QED
      BY <1>0, <2>2, <2>4, <2>5, <3>1, <3>2 DEF CapInv
  <2>6. CASE state' # state
    <3>1. Passed
      BY <2>1, <2>6, CapTurn
    <3>2. TickGoesOn(next)
      BY <1>0, <2>4, <2>6, <3>1 DEF TickEnds, Passed, CapHigh
    <3>3. mtx' = "keyer" /\ drained' = drained + 1 /\ wake' = wake
      BY <3>2 DEF TickGoesOn
    <3>4. TurnShape'
      BY <1>0, <3>1, <3>3 DEF Passed, TurnShape
    <3> QED
      BY <1>0, <2>2, <2>4, <3>1, <3>3, <3>4 DEF CapInv, Passed
  <2> QED
    BY <2>5, <2>6
<1>2. CASE ~KeyerTick
  <2>1. /\ UNCHANGED <<mtx, drained, wake, state, deadline, playing, inter_char_space_played,
                       last_send_time>>
        /\ clock' = clock \/ clock' = clock + 1
    BY <1>2, OtherSteps DEF thread, sending
  <2>2. TurnShape => TurnShape'
    BY <2>1, Zenon DEF TurnShape
  <2> QED
    BY <1>0, <2>1, <2>2 DEF CapInv
<1> QED
  BY <1>1, <1>2

LEMMA CapStep ==
  ASSUME CapHigh, ThreadInv, CapInv, Unhurried, [Next]_vars
  PROVE  mtx = "keyer" /\ mtx' = "free" => state' = state
<1> SUFFICES ASSUME mtx = "keyer", mtx' = "free", state' # state PROVE FALSE
  OBVIOUS
<1>1. KeyerTick
  BY OtherSteps DEF thread
<1>2. update /\ ~kt_done
  BY <1>1 DEF KeyerTick
<1>3. Passed
  BY <1>2, CapTurn
<1>4. PICK next : switch_to(next)
  BY <1>2, TurnSwitches
<1>5. state' = next /\ (TickEnds(next) \/ TickGoesOn(next))
  BY <1>4, SwitchThread, Zenon
<1>6. drained + 1 = MaxTransitions
  BY <1>5 DEF TickEnds, TickGoesOn
<1> QED
  BY <1>3, <1>6 DEF Passed, CapHigh, CapInv

\* As long as whatever is timed outlasts the keyer thread's lag, update() makes at
\* most six transitions a tick and ends because a state asks to stay: the code's cap
\* of sixteen is never what ends it.
THEOREM CapUnused == CapHigh /\ Spec /\ []Unhurried => DrainCapUnused
<1>1. Init => ThreadInv /\ CapInv
  <2>1. Init => /\ playing \in Seq(Element) /\ drained = 0 /\ last_send_time = 0
                /\ clock \in Nat /\ mtx = "free" /\ state = "idle"
    BY KeyerAssumption DEF Init, KeyerInit
  <2> QED
    BY <2>1, ThreadInit DEF CapInv
<1>2. CapHigh /\ ThreadInv /\ CapInv /\ Unhurried /\ [Next]_vars 
        => (CapHigh /\ ThreadInv /\ CapInv)'
  BY ThreadNext, CapNext DEF CapHigh
<1>3. CapHigh /\ ThreadInv /\ CapInv /\ Unhurried /\ [Next]_vars =>
        [mtx = "keyer" /\ mtx' = "free" => state' = state]_vars
  BY CapStep
<1> QED
  BY <1>1, <1>2, <1>3, PTL DEF Spec, DrainCapUnused

-----------------------------------------------------------------------------
(* Spaces keep their lengths.                                                *)

Dit == Impulse \div InitialSpeed

\* The hypotheses: the speed and the weighting stay as configured, and the sums of
\* the timer are below what 32 bits and a float hold exactly.
Steady ==
  /\ winkeyer_speed = InitialSpeed /\ profile_speed = InitialSpeed /\ weighting = 50
  /\ clock + 6 * Dit < U32 /\ clock + 3 * Dit < Mantissa

\* n word spaces.
Words(n) == 6 * Dit * n

LEMMA DitType ==
  ASSUME InitialSpeed # 0
  PROVE  Dit \in Nat
<1>1. InitialSpeed \in Nat \ {0} /\ Impulse \in Nat
  BY DaemonAssumption, KeyerAssumption DEF Byte
<1> QED
  BY <1>1 DEF Dit

LEMMA WordsMore ==
  ASSUME InitialSpeed # 0, NEW n \in Nat
  PROVE  /\ Words(n) \in Nat /\ Words(0) = 0 /\ Words(n + 1) = Words(n) + 6 * Dit
<1>1. Dit \in Nat
  BY DitType
<1> HIDE DEF Dit
<1>2. 6 * Dit \in Nat
  BY <1>1
<1> DEFINE w == 6 * Dit
<1> HIDE DEF w
<1>3. w \in Nat
  BY <1>2 DEF w
<1>4. w * n \in Nat /\ w * 0 = 0 /\ w * (n + 1) = w * n + w
  BY <1>3
<1> QED
  BY <1>4 DEF Words, w

\* A float holds every integer below its mantissa.
LEMMA FloatExact ==
  ASSUME NEW n \in Nat, n < Mantissa
  PROVE  Float(n) = n
<1> DEFINE U == {1, 2, 4, 8, 16, 32, 64, 128, 256}
           Fits(u) == n < u * Mantissa /\ (u = 1 \/ n >= (u \div 2) * Mantissa)
           ulp == CHOOSE u \in U : Fits(u)
<1>0. Mantissa \in Nat \ {0}
  BY KeyerAssumption
<1>1. 1 \in U /\ Fits(1)
  BY <1>0
<1>2. \A u \in U : u # 1 => u \div 2 \in Nat /\ u \div 2 >= 1
  OBVIOUS
<1>3. \A u \in U : Fits(u) => u = 1
  <2> SUFFICES ASSUME NEW u \in U, Fits(u), u # 1 PROVE FALSE
    OBVIOUS
  <2> DEFINE h == u \div 2
  <2>1. h \in Nat /\ h >= 1 /\ n >= h * Mantissa
    BY <1>2
  <2> HIDE DEF h
  <2>2. h * Mantissa >= Mantissa
    <3>1. h - 1 \in Nat
      BY <2>1
    <3>2. (h - 1) * Mantissa \in Nat /\ h * Mantissa = (h - 1) * Mantissa + Mantissa
      BY <1>0, <2>1, <3>1
    <3> QED
      BY <1>0, <3>2
  <2>3. h * Mantissa \in Nat
    BY <1>0, <2>1
  <2> QED
    BY <1>0, <2>1, <2>2, <2>3
<1> HIDE DEF Fits, U
<1>4. ulp = 1
  BY <1>1, <1>3, Zenon
<1> DEFINE q(u) == n \div u
           r(u) == n % u
           x(u) == IF 2 * r(u) > u \/ (2 * r(u) = u /\ q(u) % 2 = 1) THEN (q(u) + 1) * u ELSE q(u) * u
<1>5. Float(n) = x(ulp)
  BY Zenon DEF Float, Fits, U
<1> HIDE DEF ulp
<1>6. Float(n) = x(1)
  BY <1>4, <1>5, Zenon
<1>7. r(1) = 0 /\ q(1) = n
  OBVIOUS
<1>8. 2 * r(1) = 0 /\ q(1) * 1 = n
  BY <1>7
<1> QED
  BY <1>6, <1>7, <1>8

LEMMA SteadyLengths ==
  ASSUME InitialSpeed # 0, Steady, clock \in Nat
  PROVE  /\ ms = clock /\ dit_ms = Dit /\ inter_element_space_length_ms = Dit
         /\ inter_word_space_length_ms = 6 * Dit /\ AutospaceDeadlines = {clock + 2 * Dit}
<1>0. U32 \in Nat \ {0} /\ Mantissa \in Nat \ {0} /\ Dit \in Nat
  BY KeyerAssumption, DitType
<1>1. dit_ms = Dit /\ profile_dit_ms = Dit
  BY DEF Steady, dit_ms, profile_dit_ms, Dit
<1>2. weighting = 50 /\ clock + 6 * Dit < U32 /\ clock + 3 * Dit < Mantissa
  BY DEF Steady
<1> HIDE DEF Dit
<1>3. inter_element_space_length_ms = Dit
  BY <1>0, <1>1, <1>2 DEF inter_element_space_length_ms
<1>4. inter_word_space_length_ms = 6 * Dit
  BY <1>0, <1>1 DEF inter_word_space_length_ms
<1>5. ms = clock
  BY <1>0, <1>2 DEF ms
<1>6. weighted_inter_element_space_ms = Dit /\ space_between_chars_ms = 3 * Dit
  BY <1>0, <1>1, <1>2 DEF weighted_inter_element_space_ms, space_between_chars_ms
<1>7. Float(clock) = clock
  BY <1>0, <1>2, FloatExact
<1>8. Float(clock + 3 * Dit) = clock + 3 * Dit
  <2>1. clock + 3 * Dit \in Nat
    BY <1>0
  <2> QED
    BY <1>2, <2>1, FloatExact
<1>9. Float((clock + 3 * Dit) - Dit) = clock + 2 * Dit
  <2>1. (clock + 3 * Dit) - Dit \in Nat /\ (clock + 3 * Dit) - Dit < Mantissa
    BY <1>0, <1>2
  <2>2. Float((clock + 3 * Dit) - Dit) = (clock + 3 * Dit) - Dit
    BY <2>1, FloatExact
  <2> QED
    BY <1>0, <2>2
<1>10. Float(Float(Float(ms) + space_between_chars_ms) - weighted_inter_element_space_ms)
         = clock + 2 * Dit
  BY <1>5, <1>6, <1>7, <1>8, <1>9, Zenon
<1>11. clock + 2 * Dit < U32
  BY <1>0, <1>2
<1>12. AutospaceDeadlines = {clock + 2 * Dit}
  BY <1>10, <1>11, Zenon DEF AutospaceDeadlines
<1> QED
  BY <1>1, <1>3, <1>4, <1>5, <1>12

\* The deadline is not before t.
NotBefore(t) == deadline \in Nat /\ deadline >= t

\* How long the key has been up, at the least, in each state after an element: the
\* element space, the character space and the word spaces so far.
UpFor ==
  /\ state # "inter_word_space" => last_send_time >= up_at + Words(spaces)
  /\ state = "inter_word_space" => spaces > 0 /\ NotBefore(up_at + Words(spaces))
  /\ state = "inter_element_space" => NotBefore(up_at + Dit)
  /\ spaces = 0 =>
       /\ state = "autospace" => NotBefore(up_at + 3 * Dit)
       /\ state \in {"winkeyer", "half_dot_gap"} =>
            /\ clock >= up_at + Dit
            /\ inter_char_space_played /\ playing = <<>> => clock >= up_at + 3 * Dit

SpaceInv ==
  /\ clock \in Nat /\ up_at \in Nat /\ spaces \in Nat
  /\ last_send_time \in Nat /\ last_send_time <= clock
  /\ playing # <<>> => ~inter_char_space_played
  /\ state = "idle" => sent = <<>>
  /\ state \in {"send_element", "inter_element_space"} =>
       spaces = 0 /\ ~inter_char_space_played
  /\ sent # <<>> /\ state # "send_element" => UpFor

\* The history a turn to another state leaves.
LEMMA SwitchHistory ==
  ASSUME NEW next, switch_to(next), next # state
  PROVE  /\ next = "send_element" => spaces' = 0 /\ up_at' = up_at
         /\ next # "send_element" =>
              /\ sent' = sent
              /\ up_at' = (IF state = "send_element" THEN clock ELSE up_at)
              /\ spaces' = (IF next = "inter_word_space" THEN spaces + 1 ELSE spaces)
         /\ deadline' \in EnterDeadlines(next)
BY DEF switch_to

LEMMA SpaceStay ==
  ASSUME SpaceInv, switch_to(state),
         UNCHANGED <<playing, inter_char_space_played, last_send_time>>
  PROVE  SpaceInv'
<1>1. UNCHANGED <<state, deadline, sent, up_at, spaces, clock>>
  BY DEF switch_to
<1>2. UpFor => UpFor'
  BY <1>1, Zenon DEF UpFor, NotBefore
<1> QED
  BY <1>1, <1>2 DEF SpaceInv

LEMMA SpaceElementEnd ==
  ASSUME InitialSpeed # 0, SpaceInv, Steady, ElementEnd
  PROVE  SpaceInv'
<1>0. /\ clock \in Nat /\ Dit \in Nat /\ U32 \in Nat \ {0} /\ ms = clock
      /\ inter_element_space_length_ms = Dit /\ Words(0) = 0 /\ clock + 6 * Dit < U32
  BY KeyerAssumption, DitType, SteadyLengths, WordsMore DEF SpaceInv, Steady
<1>1. /\ state = "send_element" /\ last_send_time' = clock /\ switch_to("inter_element_space")
      /\ UNCHANGED <<playing, inter_char_space_played>>
  BY <1>0 DEF ElementEnd
<1>2. spaces = 0 /\ ~inter_char_space_played
  BY <1>1 DEF SpaceInv
<1>3. /\ sent' = sent /\ up_at' = clock /\ spaces' = 0 /\ clock' = clock
      /\ state' = "inter_element_space" /\ deadline' \in EnterDeadlines("inter_element_space")
  BY <1>1, <1>2, SwitchHistory, SwitchThread
<1>4. deadline' = clock + Dit
  <2>1. deadline' = (clock + Dit) % U32
    BY <1>0, <1>3, SpaceDeadlines
  <2> HIDE DEF Dit
  <2>2. clock + Dit \in 0 .. U32 - 1
    BY <1>0
  <2> QED
    BY <1>0, <2>1, <2>2
<1> HIDE DEF Dit
<1>5. UpFor'
  BY <1>0, <1>1, <1>3, <1>4 DEF UpFor, NotBefore
<1> QED
  BY <1>0, <1>1, <1>2, <1>3, <1>5 DEF SpaceInv

LEMMA SpaceEnds ==
  ASSUME InitialSpeed # 0, SpaceInv, Steady, SpaceEnd \/ WordSpaceEnd
  PROVE  SpaceInv'
<1>0. clock \in Nat /\ Dit \in Nat /\ ms = clock
  BY DitType, SteadyLengths DEF SpaceInv
<1>1. /\ state \in {"inter_element_space", "autospace", "half_dot_gap", "inter_word_space"}
      /\ switch_to("winkeyer") /\ UNCHANGED <<playing, inter_char_space_played>>
      /\ clock >= deadline
      /\ last_send_time' = (IF state = "inter_word_space" THEN clock ELSE last_send_time)
  BY <1>0 DEF SpaceEnd, WordSpaceEnd
<1>2. /\ UNCHANGED <<sent, up_at, spaces>> /\ clock' = clock /\ state' = "winkeyer"
  BY <1>1, SwitchHistory, SwitchThread
<1>3. /\ up_at \in Nat /\ spaces \in Nat /\ last_send_time \in Nat /\ last_send_time <= clock
  BY DEF SpaceInv
<1>4. Words(spaces) \in Nat
  BY <1>3, WordsMore
<1> HIDE DEF Dit
<1>5. ASSUME UpFor PROVE UpFor'
  <2>1. CASE state = "inter_element_space"
    <3>1. ~inter_char_space_played
      BY <2>1 DEF SpaceInv
    <3> QED
      BY <1>0, <1>1, <1>2, <1>3, <1>4, <1>5, <2>1, <3>1 DEF UpFor, NotBefore
  <2>2. CASE state = "autospace"
    BY <1>0, <1>1, <1>2, <1>3, <1>4, <1>5, <2>2 DEF UpFor, NotBefore
  <2>3. CASE state = "half_dot_gap"
    BY <1>0, <1>1, <1>2, <1>3, <1>4, <1>5, <2>3 DEF UpFor, NotBefore
  <2>4. CASE state = "inter_word_space"
    BY <1>0, <1>1, <1>2, <1>3, <1>4, <1>5, <2>4 DEF UpFor, NotBefore
  <2> QED
    BY <1>1, <2>1, <2>2, <2>3, <2>4
<1> QED
  BY <1>0, <1>1, <1>2, <1>3, <1>5 DEF SpaceInv

LEMMA SpaceCharSpace ==
  ASSUME InitialSpeed # 0, SpaceInv, Steady, CharSpace
  PROVE  SpaceInv'
<1>0. clock \in Nat /\ Dit \in Nat /\ AutospaceDeadlines = {clock + 2 * Dit}
  BY DitType, SteadyLengths DEF SpaceInv
<1>1. /\ state = "winkeyer" /\ playing = <<>> /\ switch_to("autospace")
      /\ UNCHANGED <<playing, last_send_time>>
  BY DEF CharSpace
<1>2. /\ UNCHANGED <<sent, up_at, spaces>> /\ clock' = clock /\ state' = "autospace"
      /\ deadline' \in EnterDeadlines("autospace")
  BY <1>1, SwitchHistory, SwitchThread
<1>3. deadline' = clock + 2 * Dit
  BY <1>0, <1>2, SpaceDeadlines
<1>4. /\ up_at \in Nat /\ spaces \in Nat /\ last_send_time \in Nat /\ last_send_time <= clock
  BY DEF SpaceInv
<1> HIDE DEF Dit
<1>5. UpFor => UpFor'
  BY <1>0, <1>1, <1>2, <1>3, <1>4 DEF UpFor, NotBefore
<1> QED
  BY <1>0, <1>1, <1>2, <1>4, <1>5 DEF SpaceInv

LEMMA SpaceBegin ==
  ASSUME SpaceInv, NextElement \/ NextCharacter, state' = "send_element",
         playing \in Seq(Element)
  PROVE  SpaceInv'
<1>1. switch_to("send_element") /\ state = "winkeyer"
  BY ElementBegun
<1>2. spaces' = 0 /\ up_at' = up_at /\ clock' = clock
  BY <1>1, SwitchHistory, SwitchThread
<1>3. last_send_time' = last_send_time
  BY DEF NextElement, NextCharacter
<1>4. ~inter_char_space_played'
  <2>1. CASE NextElement
    BY <2>1 DEF NextElement, SpaceInv
  <2>2. CASE NextCharacter
    <3>1. ASSUME switch_to("half_dot_gap") \/ switch_to("inter_word_space") PROVE FALSE
      BY <3>1, SwitchThread
    <3> QED
      BY <2>2, <3>1 DEF NextCharacter
  <2> QED
    BY <2>1, <2>2
<1> QED
  BY <1>1, <1>2, <1>3, <1>4 DEF SpaceInv

LEMMA SpaceGap ==
  ASSUME InitialSpeed # 0, SpaceInv, Steady, NextCharacter, state' # "send_element"
  PROVE  SpaceInv'
<1>0. /\ clock \in Nat /\ Dit \in Nat /\ U32 \in Nat \ {0} /\ clock + 6 * Dit < U32
      /\ inter_word_space_length_ms = 6 * Dit
  BY KeyerAssumption, DitType, SteadyLengths DEF SpaceInv, Steady
<1>1. /\ UNCHANGED <<playing, inter_char_space_played, last_send_time>>
      /\ switch_to("half_dot_gap") \/ switch_to("inter_word_space")
      /\ state = "winkeyer"
  <2>1. ASSUME switch_to("send_element") PROVE FALSE
    BY <2>1, SwitchThread, Zenon
  <2> QED
    BY <2>1 DEF NextCharacter, Between
<1>2. /\ up_at \in Nat /\ spaces \in Nat /\ last_send_time \in Nat /\ last_send_time <= clock
  BY DEF SpaceInv
<1>3. Words(spaces) \in Nat /\ Words(spaces + 1) = Words(spaces) + 6 * Dit
  BY <1>2, WordsMore
<1>4. CASE switch_to("half_dot_gap")
  <2>1. UNCHANGED <<sent, up_at, spaces>> /\ clock' = clock /\ state' = "half_dot_gap"
    BY <1>1, <1>4, SwitchHistory, SwitchThread
  <2> HIDE DEF Dit
  <2>2. UpFor => UpFor'
    BY <1>1, <2>1 DEF UpFor
  <2> QED
    BY <1>1, <2>1, <2>2 DEF SpaceInv
<1>5. CASE switch_to("inter_word_space")
  <2>1. /\ UNCHANGED <<sent, up_at>> /\ clock' = clock /\ state' = "inter_word_space"
        /\ spaces' = spaces + 1 /\ deadline' \in EnterDeadlines("inter_word_space")
    BY <1>1, <1>5, SwitchHistory, SwitchThread
  <2>2. deadline' = (last_send_time + 6 * Dit) % U32
    BY <1>0, <1>1, <2>1, SpaceDeadlines
  <2> HIDE DEF Dit
  <2>3. deadline' = last_send_time + 6 * Dit
    <3>1. last_send_time + 6 * Dit \in 0 .. U32 - 1
      BY <1>0, <1>2
    <3> QED
      BY <1>0, <2>2, <3>1
  <2>4. UpFor => UpFor'
    BY <1>0, <1>1, <1>2, <1>3, <2>1, <2>3 DEF UpFor, NotBefore
  <2> QED
    BY <1>1, <1>2, <2>1, <2>4 DEF SpaceInv
<1> QED
  BY <1>1, <1>4, <1>5

LEMMA SpaceNext ==
  InitialSpeed # 0 /\ playing \in Seq(Element) /\ SpaceInv /\ Steady /\ [Next]_vars => SpaceInv'
<1> SUFFICES ASSUME InitialSpeed # 0, playing \in Seq(Element), SpaceInv, Steady, [Next]_vars
             PROVE  SpaceInv'
  OBVIOUS
<1>1. CASE KeyerTick
  <2>1. update
    BY <1>1 DEF KeyerTick
  <2>2. CASE state = "idle" /\ Idle /\ switch_to("winkeyer")
    <3>1. UNCHANGED <<playing, inter_char_space_played, last_send_time>> /\ sent = <<>>
      BY <2>2 DEF Idle, SpaceInv
    <3>2. UNCHANGED <<sent, up_at, spaces>> /\ clock' = clock /\ state' = "winkeyer"
      BY <2>2, SwitchHistory, SwitchThread
    <3> QED
      BY <3>1, <3>2 DEF SpaceInv
  <2>3. CASE NextElement
    <3>1. state' = "send_element"
      BY <2>3, SwitchThread DEF NextElement
    <3> QED
      BY <2>3, <3>1, SpaceBegin
  <2>4. CASE NextCharacter
    BY <2>4, SpaceBegin, SpaceGap
  <2> QED
    BY <2>1, <2>2, <2>3, <2>4, TurnCases, SpaceStay, SpaceElementEnd, SpaceEnds, SpaceCharSpace
<1>2. CASE ~KeyerTick
  <2>1. /\ UNCHANGED <<state, deadline, playing, inter_char_space_played, last_send_time>>
        /\ UNCHANGED <<sent, up_at, spaces>> /\ (clock' = clock \/ clock' = clock + 1)
    BY <1>2, OtherSteps DEF sending, history
  <2>2. clock \in Nat /\ up_at \in Nat /\ Dit \in Nat
    BY DitType DEF SpaceInv
  <2> HIDE DEF Dit
  <2>3. UpFor => UpFor'
    BY <2>1, <2>2 DEF UpFor, NotBefore
  <2> QED
    BY <2>1, <2>2, <2>3 DEF SpaceInv
<1> QED
  BY <1>1, <1>2

Spaced ==
  state # "send_element" /\ state' = "send_element" /\ sent # <<>>
    => clock - up_at >=
         IF spaces > 0 THEN 6 * dit_ms * spaces
         ELSE IF playing = <<>> THEN 3 * dit_ms
         ELSE inter_element_space_length_ms

LEMMA SpaceStep ==
  ASSUME InitialSpeed # 0, playing \in Seq(Element), SpaceInv, Steady, [Next]_vars
  PROVE  Spaced
<1> SUFFICES ASSUME state # "send_element", state' = "send_element", sent # <<>>
             PROVE  clock - up_at >=
                      IF spaces > 0 THEN 6 * dit_ms * spaces
                      ELSE IF playing = <<>> THEN 3 * dit_ms
                      ELSE inter_element_space_length_ms
  BY DEF Spaced
<1>0. /\ clock \in Nat /\ Dit \in Nat /\ dit_ms = Dit /\ inter_element_space_length_ms = Dit
  BY DitType, SteadyLengths DEF SpaceInv
<1>1. /\ up_at \in Nat /\ spaces \in Nat /\ last_send_time \in Nat /\ last_send_time <= clock
      /\ UpFor
  BY DEF SpaceInv
<1>2. KeyerTick
  BY OtherSteps DEF sending
<1>3. update
  BY <1>2 DEF KeyerTick
<1>4. NextElement \/ NextCharacter
  <2>1. ASSUME switch_to("winkeyer") \/ switch_to("inter_element_space")
                 \/ switch_to("autospace") \/ switch_to(state) PROVE FALSE
    BY <2>1, SwitchThread
  <2> QED
    BY <1>3, <2>1, TurnCases DEF ElementEnd, SpaceEnd, WordSpaceEnd, CharSpace
<1>5. state = "winkeyer" /\ (playing = <<>> => inter_char_space_played)
  BY <1>4 DEF NextElement, NextCharacter, Between
<1>6. CASE spaces > 0
  <2>1. Words(spaces) \in Nat
    BY <1>1, WordsMore, Zenon
  <2>2. Words(spaces) = 6 * dit_ms * spaces
    BY <1>0 DEF Words
  <2> HIDE DEF Dit
  <2>3. clock - up_at >= Words(spaces)
    <3>1. last_send_time >= up_at + Words(spaces)
      BY <1>1, <1>5 DEF UpFor
    <3> QED
      BY <1>0, <1>1, <2>1, <3>1
  <2> QED
    BY <1>6, <2>2, <2>3
<1>7. CASE ~(spaces > 0)
  <2>1. spaces = 0
    BY <1>1, <1>7
  <2> HIDE DEF Dit
  <2>2. clock >= up_at + Dit /\ (playing = <<>> => clock >= up_at + 3 * Dit)
    BY <1>1, <1>5, <2>1 DEF UpFor
  <2> QED
    BY <1>0, <1>1, <1>7, <2>2
<1> QED
  BY <1>6, <1>7

\* As long as speed and weighting stay as configured and the timer below the mantissa
\* of a float, the key is up for at least the element space within a character, three
\* dits between characters and six for every space character, whatever the threads'
\* interleaving and wherever the keyer is between two of its own spaces.
THEOREM SpacesKept == InitialSpeed # 0 /\ Spec /\ []Steady => SpacingKept
<1> DEFINE Inv == InitialSpeed # 0 /\ playing \in Seq(Element) /\ SpaceInv
<1>1. InitialSpeed # 0 /\ Init => Inv
  <2>1. Init => /\ playing = <<>> /\ sent = <<>> /\ state = "idle" /\ clock \in Nat
                /\ up_at = 0 /\ spaces = 0 /\ last_send_time = 0
    BY KeyerAssumption DEF Init, KeyerInit
  <2>2. Init => SpaceInv
    BY <2>1 DEF SpaceInv
  <2> QED
    BY <2>1, <2>2
<1>2. Inv /\ Steady /\ [Next]_vars => Inv'
  <2> SUFFICES ASSUME Inv, Steady, [Next]_vars PROVE Inv'
    OBVIOUS
  <2>1. playing' \in Seq(Element)
    <3>1. CASE KeyerTick
      <4>1. update
        BY <3>1 DEF KeyerTick
      <4> QED
        BY <4>1, PlayingKept
    <3>2. CASE ~KeyerTick
      <4>1. playing' = playing
        BY <3>2, OtherSteps DEF sending
      <4> QED
        BY <4>1
    <3> QED
      BY <3>1, <3>2
  <2> QED
    BY <2>1, SpaceNext
<1>3. Inv /\ Steady /\ [Next]_vars => [Spaced]_vars
  BY SpaceStep
<1>4. [][Spaced]_vars => SpacingKept
  BY PTL DEF SpacingKept, Spaced
<1> HIDE DEF Inv
<1>5. InitialSpeed # 0 /\ Spec /\ []Steady => [][Spaced]_vars
  BY <1>1, <1>2, <1>3, PTL DEF Spec
<1> QED
  BY <1>4, <1>5, PTL
=============================================================================
