---------------------------- MODULE RigctldProofs ----------------------------
(***************************************************************************)
(* What TLAPS proves of the rigctld server, for any number of connections, *)
(* any commands, any window and any number of faults.                      *)
(***************************************************************************)
EXTENDS Rigctld, SequenceLemmas, FiniteSetTheorems

USE RigctldAssumption

LEMMA NextSteps ==
  ASSUME [Next]_vars
  PROVE  \/ Start \/ Top \/ Poll \/ ServeError \/ Read \/ Write \/ Sweep \/ Exit
         \/ \E c \in Conns : Accept(c)
         \/ \E junk \in Junk : Interpret(junk)
         \/ Unplug \/ Plug \/ Sleep \/ Stop \/ Joined
         \/ \E c \in Conns : Connect(c) \/ Finish(c) \/ Reset(c) \/ Drain(c)
         \/ \E c \in Conns, cmd \in Commands : Send(c, cmd)
         \/ UNCHANGED vars
BY Zenon DEF Next, Worker, Environment

-----------------------------------------------------------------------------
(* The rig's handle.                                                       *)

\* The rig is called connected only with a handle; a handle that is held while
\* it is called lost, or the device is gone, was bad since it was opened.
HandleInv ==
  /\ handle \in {"none", "open", "stale"}
  /\ rig_disconnected \in BOOLEAN /\ present \in BOOLEAN /\ absent \in BOOLEAN
  /\ ~rig_disconnected => handle # "none"
  /\ wk_pc = "lines" => handle # "none"
  /\ handle # "none" /\ (rig_disconnected \/ ~present) => absent

LEMMA HandleUnchanged ==
  ASSUME HandleInv, UNCHANGED <<handle, rig_disconnected, present, absent>>,
         wk_pc' # "lines" \/ wk_pc' = wk_pc
  PROVE  HandleInv'
BY Zenon DEF HandleInv

LEMMA HandleStep ==
  ASSUME HandleInv, [Next]_vars
  PROVE  HandleInv'
<1> USE DEF worker, outside
<1>1. CASE Start \/ Poll \/ ServeError \/ Write \/ Sweep \/ Exit \/ \E c \in Conns : Accept(c)
  <2>1. UNCHANGED <<handle, rig_disconnected, present, absent>>
    BY <1>1, Zenon DEF Start, Poll, ServeError, Write, Sweep, Exit, Accept
  <2>2. wk_pc' # "lines" \/ wk_pc' = wk_pc
    BY <1>1 DEF Start, Poll, ServeError, Write, Sweep, Exit, Accept
  <2> QED
    BY <2>1, <2>2, HandleUnchanged, Zenon
<1>2. CASE Top
  BY <1>2 DEF Top, OpenRig, open_rig, HandleInv
<1>3. CASE Read
  BY <1>3 DEF Read, AfterRecv, HandleInv
<1>4. ASSUME NEW junk \in Junk, Interpret(junk) PROVE HandleInv'
  <2>1. /\ \E failed : rig_disconnected' = Lost(failed)
        /\ UNCHANGED <<handle, present, absent>> /\ wk_pc = "lines"
    BY <1>4, Zenon DEF Interpret
  <2> QED
    BY <2>1, Zenon DEF HandleInv, Lost
<1>5. CASE Unplug
  BY <1>5 DEF Unplug, HandleInv
<1>6. CASE Plug
  BY <1>6 DEF Plug, HandleInv
<1>7. CASE Sleep \/ Stop \/ Joined
  BY <1>7, HandleUnchanged, Zenon DEF Sleep, Stop, Joined
<1>8. ASSUME NEW c \in Conns,
             Connect(c) \/ Finish(c) \/ Reset(c) \/ Drain(c) \/ \E cmd \in Commands : Send(c, cmd)
      PROVE  HandleInv'
  BY <1>8, HandleUnchanged, Zenon DEF Connect, Finish, Reset, Drain, Send, Client
<1>9. CASE UNCHANGED vars
  BY <1>9, HandleUnchanged, Zenon DEF vars
<1> QED
  BY <1>1, <1>2, <1>3, <1>4, <1>5, <1>6, <1>7, <1>8, <1>9, NextSteps, Zenon

LEMMA HandleInvariant == Spec => []HandleInv
<1>1. Init => HandleInv
  BY DEF Init, HandleInv
<1>2. HandleInv /\ [Next]_vars => HandleInv'
  BY HandleStep
<1> QED
  BY <1>1, <1>2, PTL DEF Spec

(* interpret_command never meets a rig that was not opened: what is read   *)
(* while the rig is disconnected is not interpreted, and on_rig_disconnect *)
(* in the middle of a buffer leaves the handle to the lines that follow.   *)
THEOREM RigIsOpen == Spec => []NeverWithoutRig
<1>1. HandleInv => NeverWithoutRig
  BY DEF HandleInv, NeverWithoutRig
<1> QED
  BY <1>1, HandleInvariant, PTL

-----------------------------------------------------------------------------
(* The types of the connections and of the clients.                        *)

Pieces == Commands \union {NL}

\* A connection and a client whose replies are from R.
ConnRec(R) ==
  [stage : {"none", "queued", "open", "closed"}, sending : Seq(Pieces),
   fin : BOOLEAN, rst : BOOLEAN, unread : 0 .. Window, sent : Nat, done : Nat,
   answers : Seq(R), got : Seq(R), full : BOOLEAN, deferred : BOOLEAN,
   ended : {"no", "rig", "error", "eof", "quit"}]

ClientRec(R) == [conn : Conns, read_buffer : Seq(Pieces), write_buffer : Seq(R)]

Typed(R) ==
  /\ conn \in [Conns -> ConnRec(R)]
  /\ DOMAIN clients \subseteq Conns
  /\ clients \in [DOMAIN clients -> ClientRec(R)]

Serving == {"accept", "serve", "lines", "write"}

Event == [fd : Conns, err : BOOLEAN, in : BOOLEAN, out : BOOLEAN]
Entry == [fd : Conns, out : BOOLEAN]

\* What poll() reported is of clients, each at most once, and what is marked is a
\* client.
ServeInv ==
  /\ wk_pc \in Serving \union {"init", "top", "poll", "done"}
  /\ revents \in Seq(Event)
  /\ wk_pc \notin Serving => revents = <<>>
  /\ wk_pc \in {"lines", "write"} => revents # <<>>
  /\ \A i \in 1 .. Len(revents) : revents[i].fd \in DOMAIN clients
  /\ \A i, j \in 1 .. Len(revents) : i # j => revents[i].fd # revents[j].fd
  /\ wk_pc \in Serving => fds_to_remove \subseteq DOMAIN clients

LEMMA MinOfTwo ==
  ASSUME NEW a \in Int, NEW b \in Int
  PROVE  /\ Min({a, b}) \in {a, b} /\ Min({a, b}) <= a /\ Min({a, b}) <= b
<1>1. \E x \in {a, b} : \A y \in {a, b} : x =< y
  BY SMT
<1> QED
  BY <1>1 DEF Min

\* What writing leaves of a connection.
SameEnd(k, e) ==
  /\ e.stage = k.stage /\ e.sending = k.sending /\ e.fin = k.fin /\ e.rst = k.rst
  /\ e.sent = k.sent /\ e.deferred = k.deferred /\ (k.full => e.full)

\* A socket that was never full has room.
Room(k) == ~k.full => k.unread < Window

\* The first of the replies have gone out to connection k and the rest is left.
Gone(R, k, replies, w) ==
  /\ w.conn \in ConnRec(R) /\ w.left \in Seq(R)
  /\ w.conn.got \o w.left = k.got \o replies
  /\ SameEnd(k, w.conn) /\ w.conn.done = k.done /\ w.conn.answers = k.answers
  /\ w.conn.ended = k.ended /\ (Room(k) => Room(w.conn))

\* The socket takes the first replies, and the rest waits.
LEMMA WrittenType ==
  ASSUME NEW R, NEW k \in ConnRec(R), NEW replies \in Seq(R)
  PROVE  /\ Gone(R, k, replies, Written(k, replies))
         /\ ~Written(k, replies).conn.full => Written(k, replies).left = <<>>
<1> DEFINE n == Min({Len(replies), Window - k.unread})
           front == SubSeq(replies, 1, n)
           rest == SubSeq(replies, n + 1, Len(replies))
           after == [k EXCEPT !.unread = @ + n, !.got = @ \o front,
                              !.full = @ \/ k.unread + n = Window]
<1>1. k.unread \in 0 .. Window /\ Len(replies) \in Nat /\ k.got \in Seq(R) /\ k.full \in BOOLEAN
  BY DEF ConnRec
<1>2. n \in Nat /\ n <= Len(replies) /\ k.unread + n \in 0 .. Window /\ Len(replies) \in Nat
      /\ (k.unread + n # Window => n = Len(replies))
  <2>1. Len(replies) \in Int /\ Window - k.unread \in Int
    BY <1>1
  <2>2. n \in {Len(replies), Window - k.unread} /\ n <= Len(replies) /\ n <= Window - k.unread
    BY <2>1, MinOfTwo, Zenon
  <2> HIDE DEF n
  <2> QED
    BY <1>1, <2>2
<1>a. Written(k, replies) = [conn |-> after, left |-> rest]
  BY Zenon DEF Written
<1> HIDE DEF n
<1>3. front \in Seq(R) /\ rest \in Seq(R) /\ front \o rest = replies /\ (n = Len(replies) => rest = <<>>)
  <2>1. \A i \in 1 .. Len(replies) : replies[i] \in R
    OBVIOUS
  <2>2. front \in Seq(R) /\ rest \in Seq(R)
    BY <1>2, <2>1, SubSeqProperties
  <2>3. n = Len(replies) => rest = <<>>
    BY <1>2, SubSeqEmpty
  <2>4. front \o rest = SubSeq(replies, 1, Len(replies))
    <3>1. 1 \in 1 .. Len(replies) + 1 /\ n \in 1 - 1 .. Len(replies) /\ Len(replies) \in n .. Len(replies)
      BY <1>2
    <3> QED
      BY <3>1, ConcatAdjacentSubSeq, Zenon
  <2>5. SubSeq(replies, 1, Len(replies)) = replies
    BY SubSeqFull
  <2> QED
    BY <2>2, <2>3, <2>4, <2>5, Zenon
<1> HIDE DEF front, rest
<1>4. k.got \o front \in Seq(R)
  BY <1>1, <1>3, ConcatProperties
<1>5. /\ after \in ConnRec(R) /\ after.got = k.got \o front
      /\ after.full = (k.full \/ k.unread + n = Window)
      /\ SameEnd(k, after) /\ after.done = k.done /\ after.answers = k.answers
      /\ after.ended = k.ended /\ after.unread = k.unread + n
  BY <1>1, <1>2, <1>4 DEF ConnRec, SameEnd
<1>6. (k.got \o front) \o rest = k.got \o replies
  <2>1. Regrouped(k.got, front, rest)
    BY <1>1, <1>3, Regroup, Zenon
  <2> QED
    BY <1>3, <2>1, Zenon DEF Regrouped
<1> HIDE DEF after
<1>7. Written(k, replies).conn = after /\ Written(k, replies).left = rest
  BY <1>a
<1>8. ~after.full => rest = <<>>
  BY <1>2, <1>3, <1>5
<1>9. Room(after)
  <2>1. after.unread = k.unread + n /\ (k.unread + n = Window => after.full)
    BY <1>1, <1>5, Zenon
  <2>2. k.unread + n # Window => k.unread + n < Window
    BY <1>2
  <2> QED
    BY <2>1, <2>2, Zenon DEF Room
<1> QED
  BY <1>3, <1>5, <1>6, <1>7, <1>8, <1>9, Zenon DEF Gone

\* What interpret_command returns is a reply, and whether the client quits.
Outcome(o) == (o.quit \in BOOLEAN) /\ \E X : o.reply \in Seq(X)

LEMMA OutcomeType ==
  ASSUME NEW cmd, NEW r, NEW reached \in BOOLEAN, NEW model, NEW junk
  PROVE  Outcome(interpret_command(cmd, r, reached, model, junk))
<1> DEFINE awake == reached /\ ~r.asleep
           local(lines) == [reply |-> lines, rig |-> r, quit |-> FALSE, failed |-> FALSE]
           says(lines)  == [local(lines) EXCEPT !.failed = ~awake]
<1>1. \A x : (\E X : <<x>> \in Seq(X)) /\ (\E X : <<>> \in Seq(X))
  <2> TAKE x
  <2>1. <<x>> \in Seq({x}) /\ <<>> \in Seq({x})
    OBVIOUS
  <2> QED
    BY <2>1, Zenon
<1>2. \A x, y : \E X : <<x, y>> \in Seq(X)
  <2> TAKE x, y
  <2>1. <<x, y>> \in Seq({x, y})
    OBVIOUS
  <2> QED
    BY <2>1, Zenon
<1>3. \A lines : (\E X : lines \in Seq(X)) =>
        /\ Outcome(local(lines)) /\ Outcome(says(lines))
        /\ \A q : Outcome([says(lines) EXCEPT !.rig = q])
        /\ \A q, f : Outcome([local(lines) EXCEPT !.rig = q, !.failed = f])
        /\ Outcome([local(lines) EXCEPT !.quit = TRUE])
        /\ \A q : Outcome([rig |-> q, quit |-> FALSE, failed |-> FALSE, reply |-> lines])
  BY DEF Outcome
<1> HIDE DEF awake, local, says
<1> QED
  BY <1>1, <1>2, <1>3, Zenon DEF interpret_command, Interpreted, awake, local, says

-----------------------------------------------------------------------------
(* Descriptors and connections.                                            *)

\* A connection is open exactly while one client holds it.
OwnInv ==
  /\ \A f, g \in DOMAIN clients : clients[f].conn = clients[g].conn => f = g
  /\ \A f \in DOMAIN clients : conn[clients[f].conn].stage = "open"
  /\ \A c \in Conns : conn[c].stage = "open" => \E f \in DOMAIN clients : clients[f].conn = c

\* While a connection waits there is a descriptor for it.
LEMMA FreeDescriptor ==
  ASSUME NEW R, Typed(R), OwnInv, NEW c \in Waiting
  PROVE  Min(Conns \ DOMAIN clients) \in Conns \ DOMAIN clients
<1>1. Conns \ DOMAIN clients # {}
  <2> SUFFICES ASSUME DOMAIN clients = Conns PROVE FALSE
    BY Zenon DEF Typed
  <2> DEFINE f == [fd \in Conns |-> clients[fd].conn]
  <2>1. c \in Conns /\ conn[c].stage = "queued"
    BY DEF Waiting
  <2>2. \A fd \in Conns : clients[fd].conn \in Conns /\ conn[clients[fd].conn].stage = "open"
    BY DEF Typed, ClientRec, OwnInv
  <2>3. \A fd \in Conns : clients[fd].conn # c
    BY <2>1, <2>2
  <2>4. f \in [Conns -> Conns \ {c}]
    BY <2>2, <2>3
  <2>5. \A x, y \in Conns : f[x] = f[y] => x = y
    BY DEF OwnInv
  <2>6. IsFiniteSet(Conns) /\ IsFiniteSet(Conns \ {c}) /\ Cardinality(Conns) \in Nat
        /\ Cardinality(Conns \ {c}) = Cardinality(Conns) - 1
    <3>1. IsFiniteSet(Conns)
      BY FS_Interval DEF Conns
    <3>2. Cardinality(Conns) \in Nat
      BY <3>1, FS_CardinalityType
    <3>3. IsFiniteSet(Conns \ {c}) /\ Cardinality(Conns \ {c}) = Cardinality(Conns) - 1
      BY <2>1, <3>1, FS_RemoveElement
    <3> QED
      BY <3>1, <3>2, <3>3
  <2>7. Cardinality(Conns \ {c}) < Cardinality(Conns)
    BY <2>6
  <2> HIDE DEF f
  <2>8. \E x, y \in Conns : x # y /\ f[x] = f[y]
    BY <2>4, <2>6, <2>7, FS_PigeonHole
  <2> QED
    BY <2>5, <2>8, Zenon
<1>2. \E n \in Conns \ DOMAIN clients : \A k \in Conns \ DOMAIN clients : n <= k
  <2>1. Conns \ DOMAIN clients \subseteq Nat
    BY DEF Conns
  <2> QED
    BY <1>1, <2>1, LeastNatural, Zenon
<1> QED
  BY <1>2, Zenon DEF Min

\* The client that is served, and its connection.
LEMMA ServedTyped ==
  ASSUME NEW R, Typed(R), ServeInv, revents # <<>>
  PROVE  /\ Served \in DOMAIN clients /\ Self \in Conns
         /\ conn[Self] \in ConnRec(R) /\ clients[Served] \in ClientRec(R)
         /\ Head(revents) \in Event
         /\ Tail(revents) \in Seq(Event)
         /\ Len(Tail(revents)) = Len(revents) - 1
         /\ \A i \in 1 .. Len(Tail(revents)) : Tail(revents)[i] = revents[i + 1]
<1>1. /\ Head(revents) = revents[1] /\ 1 \in 1 .. Len(revents) /\ revents[1] \in Event
      /\ Tail(revents) \in Seq(Event) /\ Len(Tail(revents)) = Len(revents) - 1
      /\ \A i \in 1 .. Len(Tail(revents)) : Tail(revents)[i] = revents[i + 1]
  BY HeadTailProperties DEF ServeInv
<1>2. Served \in DOMAIN clients
  BY <1>1, Zenon DEF Served, ServeInv
<1>3. clients[Served] \in ClientRec(R)
  BY <1>2, Zenon DEF Typed
<1>4. Self \in Conns
  BY <1>3 DEF Self, ClientRec
<1>5. conn[Self] \in ConnRec(R)
  BY <1>4, Zenon DEF Typed
<1> QED
  BY <1>1, <1>2, <1>3, <1>4, <1>5, Zenon

\* Types of steps that change one connection, or one client and its connection.
LEMMA ConnTyped ==
  ASSUME NEW R, conn \in [Conns -> ConnRec(R)], NEW c \in Conns, NEW k \in ConnRec(R),
         conn' = [conn EXCEPT ![c] = k]
  PROVE  conn' \in [Conns -> ConnRec(R)] /\ conn'[c] = k
         /\ \A d \in Conns : d # c => conn'[d] = conn[d]
BY Zenon

LEMMA ClientTyped ==
  ASSUME NEW R, clients \in [DOMAIN clients -> ClientRec(R)], NEW f \in DOMAIN clients,
         NEW k \in ClientRec(R), clients' = [clients EXCEPT ![f] = k]
  PROVE  clients' \in [DOMAIN clients -> ClientRec(R)] /\ DOMAIN clients' = DOMAIN clients
         /\ clients'[f] = k
         /\ \A g \in DOMAIN clients : g # f => clients'[g] = clients[g]
BY Zenon

LEMMA MoreReplies ==
  ASSUME NEW R, NEW Q, R \subseteq Q
  PROVE  Seq(R) \subseteq Seq(Q) /\ ConnRec(R) \subseteq ConnRec(Q) /\ ClientRec(R) \subseteq ClientRec(Q)
<1>1. Seq(R) \subseteq Seq(Q)
  OBVIOUS
<1> QED
  BY <1>1 DEF ConnRec, ClientRec

\* A command of the client is answered with lines, and it may be a quit.
Replied(k, p, lines, quit) ==
  IF quit /\ ~k.rst THEN Written(k, p.write_buffer \o lines)
                    ELSE [conn |-> k, left |-> p.write_buffer \o lines]

NewClient(k, p, lines, quit) ==
  [conn |-> p.conn,
   read_buffer |-> IF quit THEN p.read_buffer ELSE SubSeq(p.read_buffer, 3, Len(p.read_buffer)),
   write_buffer |-> Replied(k, p, lines, quit).left]

NewEnd(k, p, lines, quit) ==
  [Replied(k, p, lines, quit).conn EXCEPT
     !.done = @ + 1, !.answers = @ \o lines, !.ended = IF quit THEN "quit" ELSE @]

Replying(R, Q, lines, quit) ==
  /\ R \subseteq Q /\ lines \in Seq(Q) /\ quit \in BOOLEAN
  /\ clients' = [clients EXCEPT ![Served] = NewClient(conn[Self], clients[Served], lines, quit)]
  /\ conn' = [conn EXCEPT ![Self] = NewEnd(conn[Self], clients[Served], lines, quit)]
  /\ fds_to_remove' = fds_to_remove \union (IF quit THEN {Served} ELSE {})
  /\ wk_pc' = IF quit THEN "write" ELSE "lines"

LEMMA BothBuffers ==
  ASSUME NEW R, NEW p \in ClientRec(R), NEW left, NEW rest
  PROVE  [[p EXCEPT !.write_buffer = left] EXCEPT !.read_buffer = rest]
           = [conn |-> p.conn, read_buffer |-> rest, write_buffer |-> left]
<1> DEFINE q == [p EXCEPT !.write_buffer = left]
<1>1. q = [conn |-> p.conn, read_buffer |-> p.read_buffer, write_buffer |-> left]
  BY DEF ClientRec
<1> HIDE DEF q
<1>2. q \in [conn : {p.conn}, read_buffer : {p.read_buffer}, write_buffer : {left}]
  BY <1>1
<1>3. [q EXCEPT !.read_buffer = rest] = [conn |-> q.conn, read_buffer |-> rest, write_buffer |-> q.write_buffer]
  BY <1>2
<1>4. q.conn = p.conn /\ q.write_buffer = left
  BY <1>1
<1> QED
  BY <1>3, <1>4, Zenon DEF q

LEMMA InterpretReplies ==
  ASSUME NEW R, Typed(R), ServeInv, NEW junk \in Junk, Interpret(junk)
  PROVE  \E Q, lines, quit : Replying(R, Q, lines, quit)
<1> DEFINE o == interpret_command(clients[Served].read_buffer[1], rig, handle = "open", Model, junk)
           lines == Tagged(Self, conn[Self].done + 1, o.reply)
<1>1. Outcome(o)
  <2>1. (handle = "open") \in BOOLEAN
    OBVIOUS
  <2> QED
    BY <2>1, OutcomeType, Zenon
<1>2. revents # <<>> /\ clients[Served] \in ClientRec(R) /\ Served \in DOMAIN clients
  <2>1. revents # <<>>
    BY DEF Interpret, ServeInv
  <2> QED
    BY <2>1, ServedTyped, Zenon
<1> HIDE DEF o
<1>3. PICK X : o.reply \in Seq(X)
  BY <1>1, Zenon DEF Outcome
<1> DEFINE Q == R \union {[conn |-> Self, to |-> conn[Self].done + 1, line |-> x] : x \in X}
<1>4. lines \in Seq(Q)
  <2>1. Len(o.reply) \in Nat /\ \A i \in 1 .. Len(o.reply) : o.reply[i] \in X
    BY <1>3
  <2> HIDE DEF o
  <2> QED
    BY <2>1 DEF Tagged
<1>5. clients' = [clients EXCEPT ![Served] = NewClient(conn[Self], clients[Served], lines, o.quit)]
  <2> DEFINE w == Replied(conn[Self], clients[Served], lines, o.quit)
  <2>1. clients' = [clients EXCEPT
              ![Served].write_buffer = w.left,
              ![Served].read_buffer  = IF o.quit THEN @ ELSE SubSeq(@, 3, Len(@))]
    BY Zenon DEF Interpret, Replied, o
  <2> HIDE DEF w, lines
  <2>3. [[clients[Served] EXCEPT !.write_buffer = w.left] EXCEPT
           !.read_buffer = IF o.quit THEN clients[Served].read_buffer
                           ELSE SubSeq(clients[Served].read_buffer, 3, Len(clients[Served].read_buffer))]
          = NewClient(conn[Self], clients[Served], lines, o.quit)
    BY <1>2, BothBuffers, Zenon DEF NewClient, w
  <2> QED
    BY <1>2, <2>1, <2>3
<1>6. conn' = [conn EXCEPT ![Self] = NewEnd(conn[Self], clients[Served], lines, o.quit)]
  BY Zenon DEF Interpret, Replied, NewEnd, o
<1>7. /\ fds_to_remove' = fds_to_remove \union (IF o.quit THEN {Served} ELSE {})
      /\ wk_pc' = IF o.quit THEN "write" ELSE "lines"
  BY Zenon DEF Interpret, o
<1>8. R \subseteq Q /\ o.quit \in BOOLEAN
  BY <1>1, Zenon DEF Outcome
<1> HIDE DEF lines, Q
<1>9. Replying(R, Q, lines, o.quit)
  BY <1>4, <1>5, <1>6, <1>7, <1>8, Zenon DEF Replying
<1> QED
  BY <1>9, Zenon

LEMMA RepliedTypes ==
  ASSUME NEW R, NEW k \in ConnRec(R), NEW p \in ClientRec(R), NEW lines \in Seq(R),
         NEW quit \in BOOLEAN
  PROVE  /\ Gone(R, k, p.write_buffer \o lines, Replied(k, p, lines, quit))
         /\ quit /\ ~k.rst /\ ~Replied(k, p, lines, quit).conn.full
              => Replied(k, p, lines, quit).left = <<>>
<1> DEFINE queue == p.write_buffer \o lines
<1>1. queue \in Seq(R)
  BY ConcatProperties DEF ClientRec
<1> HIDE DEF queue
<1>2. CASE quit /\ ~k.rst
  <2>1. Replied(k, p, lines, quit) = Written(k, queue)
    BY <1>2, Zenon DEF Replied, queue
  <2> QED
    <3>1. /\ Gone(R, k, queue, Written(k, queue))
          /\ ~Written(k, queue).conn.full => Written(k, queue).left = <<>>
      BY <1>1, WrittenType, Zenon
    <3> QED
      BY <2>1, <3>1, Zenon DEF queue
<1>3. CASE ~(quit /\ ~k.rst)
  <2>1. Replied(k, p, lines, quit) = [conn |-> k, left |-> queue]
    BY <1>3, Zenon DEF Replied, queue
  <2>2. Replied(k, p, lines, quit).conn = k /\ Replied(k, p, lines, quit).left = queue
    BY <2>1
  <2>3. SameEnd(k, k)
    BY DEF SameEnd
  <2> QED
    BY <1>1, <1>3, <2>2, <2>3, Zenon DEF queue, Gone
<1> QED
  BY <1>2, <1>3

\* What a reply does to the client and its connection.
ReplyOK(R, k, p, lines, quit) ==
  LET c == NewClient(k, p, lines, quit)
      e == NewEnd(k, p, lines, quit)
  IN  /\ c \in ClientRec(R) /\ c.conn = p.conn
      /\ e \in ConnRec(R) /\ SameEnd(k, e) /\ e.done = k.done + 1
      /\ e.ended = IF quit THEN "quit" ELSE k.ended
      /\ k.got \o p.write_buffer = k.answers => e.got \o c.write_buffer = e.answers
      /\ quit /\ ~k.rst /\ ~e.full => c.write_buffer = <<>>
      /\ c.read_buffer = IF quit THEN p.read_buffer ELSE SubSeq(p.read_buffer, 3, Len(p.read_buffer))
      /\ Room(k) => Room(e)

LEMMA ReplyTypes ==
  ASSUME NEW R, NEW k \in ConnRec(R), NEW p \in ClientRec(R), NEW lines \in Seq(R),
         NEW quit \in BOOLEAN
  PROVE  ReplyOK(R, k, p, lines, quit)
<1> DEFINE w == Replied(k, p, lines, quit)
           e == NewEnd(k, p, lines, quit)
           c == NewClient(k, p, lines, quit)
<1>1. /\ w.conn \in ConnRec(R) /\ w.left \in Seq(R) /\ SameEnd(k, w.conn)
      /\ w.conn.got \o w.left = k.got \o (p.write_buffer \o lines)
      /\ w.conn.done = k.done /\ w.conn.answers = k.answers /\ w.conn.ended = k.ended
      /\ quit /\ ~k.rst /\ ~w.conn.full => w.left = <<>>
      /\ Room(k) => Room(w.conn)
  <2>1. /\ Gone(R, k, p.write_buffer \o lines, w)
        /\ quit /\ ~k.rst /\ ~w.conn.full => w.left = <<>>
    BY RepliedTypes, Zenon
  <2> QED
    BY <2>1, Zenon DEF Gone
<1>a. e = [w.conn EXCEPT !.done = @ + 1, !.answers = @ \o lines, !.ended = IF quit THEN "quit" ELSE @]
  BY Zenon DEF NewEnd
<1>b. c = [conn |-> p.conn,
           read_buffer |-> IF quit THEN p.read_buffer ELSE SubSeq(p.read_buffer, 3, Len(p.read_buffer)),
           write_buffer |-> w.left]
  BY Zenon DEF NewClient
<1> HIDE DEF w, e, c
<1>2. w.conn.answers \o lines \in Seq(R) /\ w.conn.done + 1 \in Nat
  <2>1. w.conn.answers \in Seq(R) /\ w.conn.done \in Nat
    BY <1>1 DEF ConnRec
  <2> QED
    BY <2>1, ConcatProperties
<1>3. /\ e \in ConnRec(R)
      /\ e.stage = w.conn.stage /\ e.sending = w.conn.sending /\ e.fin = w.conn.fin
      /\ e.rst = w.conn.rst /\ e.sent = w.conn.sent /\ e.deferred = w.conn.deferred
      /\ e.full = w.conn.full /\ e.got = w.conn.got /\ e.unread = w.conn.unread
      /\ e.done = w.conn.done + 1 /\ e.answers = w.conn.answers \o lines
      /\ e.ended = IF quit THEN "quit" ELSE w.conn.ended
  BY <1>1, <1>2, <1>a DEF ConnRec
<1>4. /\ c \in ClientRec(R) /\ c.conn = p.conn /\ c.write_buffer = w.left
      /\ c.read_buffer = IF quit THEN p.read_buffer ELSE SubSeq(p.read_buffer, 3, Len(p.read_buffer))
  <2>1. p.read_buffer \in Seq(Pieces) /\ p.conn \in Conns
    BY DEF ClientRec
  <2>2. SubSeq(p.read_buffer, 3, Len(p.read_buffer)) \in Seq(Pieces)
    <3>1. \A i \in 3 .. Len(p.read_buffer) : p.read_buffer[i] \in Pieces
      BY <2>1
    <3>2. Len(p.read_buffer) \in Int /\ 3 \in Int
      BY <2>1
    <3> QED
      BY <3>1, <3>2, SubSeqProperties, Zenon
  <2> QED
    BY <1>1, <1>b, <2>1, <2>2 DEF ClientRec
<1>5. SameEnd(k, e)
  BY <1>1, <1>3, Zenon DEF SameEnd
<1>6. k.got \o p.write_buffer = k.answers => e.got \o c.write_buffer = e.answers
  <2>1. k.got \in Seq(R) /\ p.write_buffer \in Seq(R)
    BY DEF ConnRec, ClientRec
  <2>2. Regrouped(k.got, p.write_buffer, lines)
    BY <2>1, Regroup, Zenon
  <2> QED
    BY <1>1, <1>3, <1>4, <2>2, Zenon DEF Regrouped
<1>7. quit /\ ~k.rst /\ ~e.full => c.write_buffer = <<>>
  BY <1>1, <1>3, <1>4, Zenon
<1>8. e.done = k.done + 1 /\ e.ended = IF quit THEN "quit" ELSE k.ended
  BY <1>1, <1>3, Zenon
<1> QED
  <2>1. Room(k) => Room(e)
    BY <1>1, <1>3, Zenon DEF Room
  <2> QED
    BY <1>3, <1>4, <1>5, <1>6, <1>7, <1>8, <2>1, Zenon DEF e, c, ReplyOK

\* What recv() took goes from the connection to the buffer of its client.
ReceivedClient(k, p, n) == [p EXCEPT !.read_buffer = @ \o SubSeq(k.sending, 1, n)]

ReceivedEnd(k, n, lost) ==
  [[k EXCEPT !.sending = SubSeq(@, n + 1, Len(@))] EXCEPT !.deferred = k.deferred \/ lost]

Received(k, p, n) ==
  /\ clients' = [clients EXCEPT ![Served] = ReceivedClient(k, p, n)]
  /\ conn' = [conn EXCEPT ![Self] = ReceivedEnd(k, n, rig_disconnected)]

\* The last case of Read, the first two being as they stand.
ReadSome ==
  /\ Head(revents).in /\ ~conn[Self].rst /\ wk_pc' = AfterRecv
  /\ \E n \in 1 .. Len(conn[Self].sending) : Received(conn[Self], clients[Served], n)
  /\ UNCHANGED fds_to_remove

ReadNothing ==
  /\ ~Head(revents).in /\ wk_pc' = "write" /\ UNCHANGED <<clients, conn, fds_to_remove>>

ReadEnd ==
  /\ Head(revents).in /\ (conn[Self].rst \/ conn[Self].sending = <<>>) /\ wk_pc' = "write"
  /\ fds_to_remove' = fds_to_remove \union {Served} /\ UNCHANGED clients
  /\ conn' = [conn EXCEPT ![Self] = [conn[Self] EXCEPT !.ended =
                IF conn[Self].rst THEN "error" ELSE "eof"]]

LEMMA ReadCases ==
  ASSUME NEW R, Typed(R), ServeInv, Read
  PROVE  ReadNothing \/ ReadEnd \/ ReadSome
<1>1. Served \in DOMAIN clients /\ Self \in DOMAIN conn
  <2>1. revents # <<>>
    BY Zenon DEF Read
  <2>2. Served \in DOMAIN clients /\ Self \in Conns
    BY <2>1, ServedTyped, Zenon
  <2> QED
    BY <2>2 DEF Typed
<1>2. ReadNothing \/ ReadEnd \/
        /\ Head(revents).in /\ ~conn[Self].rst /\ wk_pc' = AfterRecv /\ UNCHANGED fds_to_remove
        /\ \E n \in 1 .. Len(conn[Self].sending) :
             /\ clients' = [clients EXCEPT ![Served].read_buffer =
                              @ \o SubSeq(conn[Self].sending, 1, n)]
             /\ conn' = [conn EXCEPT ![Self].sending = SubSeq(@, n + 1, Len(@)),
                                     ![Self].deferred = @ \/ rig_disconnected]
  BY Zenon DEF Read, ReadNothing, ReadEnd
<1>3. ASSUME NEW n,
             conn' = [conn EXCEPT ![Self].sending = SubSeq(@, n + 1, Len(@)),
                                  ![Self].deferred = @ \/ rig_disconnected]
      PROVE  conn' = [conn EXCEPT ![Self] =
                       [[conn[Self] EXCEPT !.sending = SubSeq(@, n + 1, Len(@))] EXCEPT
                           !.deferred = conn[Self].deferred \/ rig_disconnected]]
  BY <1>1, <1>3
<1> QED
  BY <1>2, <1>3, Zenon DEF ReadSome, Received, ReceivedClient, ReceivedEnd

ReceivedOK(R, k, p, n, lost) ==
  LET q == ReceivedClient(k, p, n)
      e == ReceivedEnd(k, n, lost)
  IN  /\ q \in ClientRec(R) /\ e \in ConnRec(R)
      /\ q.conn = p.conn /\ q.write_buffer = p.write_buffer
      /\ q.read_buffer \o e.sending = p.read_buffer \o k.sending
      /\ e.stage = k.stage /\ e.fin = k.fin /\ e.rst = k.rst /\ e.unread = k.unread
      /\ e.sent = k.sent /\ e.done = k.done /\ e.answers = k.answers /\ e.got = k.got
      /\ e.full = k.full /\ e.ended = k.ended /\ e.deferred = (k.deferred \/ lost)

LEMMA ReceivedTypes ==
  ASSUME NEW R, NEW k \in ConnRec(R), NEW p \in ClientRec(R), NEW n \in 1 .. Len(k.sending),
         NEW lost \in BOOLEAN
  PROVE  ReceivedOK(R, k, p, n, lost)
<1> DEFINE front == SubSeq(k.sending, 1, n)
           rest == SubSeq(k.sending, n + 1, Len(k.sending))
           q == [p EXCEPT !.read_buffer = @ \o front]
           e == [[k EXCEPT !.sending = rest] EXCEPT !.deferred = k.deferred \/ lost]
<1>1. k.sending \in Seq(Pieces) /\ p.read_buffer \in Seq(Pieces) /\ Len(k.sending) \in Nat
  BY DEF ConnRec, ClientRec
<1>2. front \in Seq(Pieces) /\ rest \in Seq(Pieces)
  <2>1. \A i \in 1 .. Len(k.sending) : k.sending[i] \in Pieces
    BY <1>1
  <2> QED
    BY <1>1, <2>1, SubSeqProperties
<1>3. front \o rest = k.sending
  <2>1. 1 \in 1 .. Len(k.sending) + 1 /\ n \in 1 - 1 .. Len(k.sending)
        /\ Len(k.sending) \in n .. Len(k.sending)
    BY <1>1
  <2>2. front \o rest = SubSeq(k.sending, 1, Len(k.sending))
    BY <1>1, <2>1, ConcatAdjacentSubSeq, Zenon
  <2>3. SubSeq(k.sending, 1, Len(k.sending)) = k.sending
    BY <1>1, SubSeqFull, Zenon
  <2> QED
    BY <2>2, <2>3, Zenon
<1> HIDE DEF front, rest
<1>4. p.read_buffer \o front \in Seq(Pieces)
  BY <1>1, <1>2, ConcatProperties
<1>5. /\ q \in ClientRec(R) /\ q.conn = p.conn /\ q.write_buffer = p.write_buffer
      /\ q.read_buffer = p.read_buffer \o front
  BY <1>4 DEF ClientRec
<1>6. /\ e \in ConnRec(R) /\ e.sending = rest
      /\ e.stage = k.stage /\ e.fin = k.fin /\ e.rst = k.rst /\ e.unread = k.unread
      /\ e.sent = k.sent /\ e.done = k.done /\ e.answers = k.answers /\ e.got = k.got
      /\ e.full = k.full /\ e.ended = k.ended /\ e.deferred = (k.deferred \/ lost)
  BY <1>2 DEF ConnRec
<1>7. (p.read_buffer \o front) \o rest = p.read_buffer \o k.sending
  <2>1. Regrouped(p.read_buffer, front, rest)
    BY <1>1, <1>2, Regroup, Zenon
  <2> QED
    BY <1>3, <2>1, Zenon DEF Regrouped
<1>8. q = ReceivedClient(k, p, n) /\ e = ReceivedEnd(k, n, lost)
  BY Zenon DEF ReceivedClient, ReceivedEnd, front, rest
<1> HIDE DEF q, e
<1> QED
  BY <1>5, <1>6, <1>7, <1>8, Zenon DEF ReceivedOK

\* A step that serves one client changes its record and its connection only, and
\* loses and repeats no reply.
OneServed(Q, e, q) ==
  /\ e \in ConnRec(Q) /\ q \in ClientRec(Q) /\ q.conn = Self /\ e.stage = conn[Self].stage
  /\ conn' = [conn EXCEPT ![Self] = e] /\ clients' = [clients EXCEPT ![Served] = q]
  /\ conn[Self].got \o clients[Served].write_buffer = conn[Self].answers
       => e.got \o q.write_buffer = e.answers
  /\ e.ended = "rig" => conn[Self].ended = "rig"

ServeStep == ServeError \/ Read \/ Write \/ \E junk \in Junk : Interpret(junk)

LEMMA SameServed ==
  ASSUME NEW R, Typed(R), Served \in DOMAIN clients, Self \in Conns
  PROVE  /\ clients = [clients EXCEPT ![Served] = clients[Served]]
         /\ conn = [conn EXCEPT ![Self] = conn[Self]]
BY DEF Typed

\* Writing the waiting replies.
WriteOK(R, k, p, w) ==
  LET q == [p EXCEPT !.write_buffer = w.left]
  IN  /\ q \in ClientRec(R) /\ q.conn = p.conn /\ q.read_buffer = p.read_buffer
      /\ q.write_buffer = w.left
      /\ k.got \o p.write_buffer = k.answers => w.conn.got \o q.write_buffer = w.conn.answers

LEMMA WriteEffect ==
  ASSUME NEW R, NEW k \in ConnRec(R), NEW p \in ClientRec(R), NEW w,
         Gone(R, k, p.write_buffer, w)
  PROVE  WriteOK(R, k, p, w)
<1> DEFINE q == [p EXCEPT !.write_buffer = w.left]
<1>1. w.left \in Seq(R)
  BY DEF Gone
<1>2. q \in ClientRec(R) /\ q.conn = p.conn /\ q.read_buffer = p.read_buffer /\ q.write_buffer = w.left
  BY <1>1 DEF ClientRec
<1>3. k.got \o p.write_buffer = k.answers => w.conn.got \o w.left = w.conn.answers
  BY Zenon DEF Gone
<1> QED
  BY <1>2, <1>3, Zenon DEF WriteOK

LEMMA ServeEffect ==
  ASSUME NEW R, Typed(R), ServeInv, HandleInv, ServeStep
  PROVE  \E Q, e, q : R \subseteq Q /\ OneServed(Q, e, q)
<1> DEFINE k == conn[Self]
           p == clients[Served]
<1>1. revents # <<>>
  BY DEF ServeInv, ServeStep, ServeError, Read, Write, ReadDone, Interpret
<1>2. Served \in DOMAIN clients /\ Self \in Conns /\ k \in ConnRec(R) /\ p \in ClientRec(R)
  BY <1>1, ServedTyped, Zenon
<1>3. clients = [clients EXCEPT ![Served] = p] /\ conn = [conn EXCEPT ![Self] = k]
  BY <1>2, SameServed, Zenon
<1>4. p.conn = Self
  BY Zenon DEF Self
<1>5. ASSUME UNCHANGED clients, NEW why \in {"error", "eof"},
             conn' = [conn EXCEPT ![Self] = [k EXCEPT !.ended = why]]
      PROVE  \E Q, e, q : R \subseteq Q /\ OneServed(Q, e, q)
  <2>1. /\ [k EXCEPT !.ended = why] \in ConnRec(R) /\ [k EXCEPT !.ended = why].stage = k.stage
        /\ [k EXCEPT !.ended = why].got = k.got /\ [k EXCEPT !.ended = why].answers = k.answers
        /\ [k EXCEPT !.ended = why].ended # "rig"
    BY <1>2 DEF ConnRec
  <2>2. OneServed(R, [k EXCEPT !.ended = why], p)
    BY <1>2, <1>3, <1>4, <1>5, <2>1, Zenon DEF OneServed
  <2> QED
    BY <2>2, Zenon
<1>6. ASSUME UNCHANGED <<clients, conn>> PROVE \E Q, e, q : R \subseteq Q /\ OneServed(Q, e, q)
  <2>1. OneServed(R, k, p)
    BY <1>2, <1>3, <1>4, <1>6, Zenon DEF OneServed
  <2> QED
    BY <2>1, Zenon
<1>7. CASE ServeError
  <2>1. UNCHANGED clients /\ conn' = [conn EXCEPT ![Self] = [k EXCEPT !.ended = "error"]]
    BY <1>7, Zenon DEF ServeError
  <2> QED
    BY <1>5, <2>1, Zenon
<1>8. CASE Read
  <2>1. CASE ReadNothing
    BY <1>6, <2>1, Zenon DEF ReadNothing
  <2>2. CASE ReadEnd
    <3>1. PICK why \in {"error", "eof"} : conn' = [conn EXCEPT ![Self] = [k EXCEPT !.ended = why]]
      BY <2>2, Zenon DEF ReadEnd
    <3>2. UNCHANGED clients
      BY <2>2, Zenon DEF ReadEnd
    <3> QED
      BY <1>5, <3>1, <3>2, Zenon
  <2>3. CASE ReadSome
    <3>1. PICK n \in 1 .. Len(k.sending) : Received(k, p, n)
      BY <2>3, Zenon DEF ReadSome
    <3> DEFINE q == ReceivedClient(k, p, n)
               e == ReceivedEnd(k, n, rig_disconnected)
    <3>2. rig_disconnected \in BOOLEAN
      BY Zenon DEF HandleInv
    <3>3. /\ q \in ClientRec(R) /\ e \in ConnRec(R) /\ q.conn = p.conn
          /\ q.write_buffer = p.write_buffer /\ e.stage = k.stage
          /\ e.answers = k.answers /\ e.got = k.got /\ e.ended = k.ended
      <4>1. ReceivedOK(R, k, p, n, rig_disconnected)
        BY <1>2, <3>2, ReceivedTypes, Zenon
      <4> QED
        BY <4>1, Zenon DEF ReceivedOK
    <3>4. clients' = [clients EXCEPT ![Served] = q] /\ conn' = [conn EXCEPT ![Self] = e]
      BY <3>1, Zenon DEF Received
    <3> HIDE DEF q, e
    <3>5. OneServed(R, e, q)
      BY <1>4, <3>3, <3>4, Zenon DEF OneServed
    <3> QED
      BY <3>5, Zenon
  <2> QED
    BY <1>8, <2>1, <2>2, <2>3, ReadCases, Zenon
<1>9. CASE Write
  <2> DEFINE w == Written(k, p.write_buffer)
             q == [p EXCEPT !.write_buffer = w.left]
  <2>1. \/ UNCHANGED <<clients, conn>>
        \/ clients' = [clients EXCEPT ![Served] = q] /\ conn' = [conn EXCEPT ![Self] = w.conn]
    BY <1>9, Zenon DEF Write
  <2>2. Gone(R, k, p.write_buffer, w)
    <3>1. p.write_buffer \in Seq(R)
      BY <1>2 DEF ClientRec
    <3> QED
      BY <1>2, <3>1, WrittenType, Zenon
  <2> HIDE DEF w
  <2>3. /\ q \in ClientRec(R) /\ q.conn = p.conn
        /\ k.got \o p.write_buffer = k.answers => w.conn.got \o q.write_buffer = w.conn.answers
    <3>1. WriteOK(R, k, p, w)
      BY <1>2, <2>2, WriteEffect, Zenon
    <3> QED
      BY <3>1, Zenon DEF WriteOK
  <2>4. w.conn \in ConnRec(R) /\ w.conn.stage = k.stage /\ w.conn.ended = k.ended
    BY <2>2, Zenon DEF Gone, SameEnd
  <2> HIDE DEF q
  <2>5. clients' = [clients EXCEPT ![Served] = q] /\ conn' = [conn EXCEPT ![Self] = w.conn] => OneServed(R, w.conn, q)
    BY <1>4, <2>3, <2>4, Zenon DEF OneServed
  <2> QED
    BY <1>6, <2>1, <2>5, Zenon
<1>10. ASSUME NEW junk \in Junk, Interpret(junk) PROVE \E Q, e, q : R \subseteq Q /\ OneServed(Q, e, q)
  <2>1. PICK Q, lines, quit : Replying(R, Q, lines, quit)
    BY <1>10, InterpretReplies, Zenon
  <2>2. k \in ConnRec(Q) /\ p \in ClientRec(Q) /\ lines \in Seq(Q) /\ quit \in BOOLEAN /\ R \subseteq Q
    <3>1. R \subseteq Q
      BY <2>1, Zenon DEF Replying
    <3>2. ConnRec(R) \subseteq ConnRec(Q) /\ ClientRec(R) \subseteq ClientRec(Q)
      BY <3>1, MoreReplies, Zenon
    <3> QED
      BY <1>2, <2>1, <3>2, Zenon DEF Replying
  <2> DEFINE e == NewEnd(k, p, lines, quit)
             q == NewClient(k, p, lines, quit)
  <2>3. /\ q \in ClientRec(Q) /\ q.conn = p.conn /\ e \in ConnRec(Q) /\ SameEnd(k, e)
        /\ k.got \o p.write_buffer = k.answers => e.got \o q.write_buffer = e.answers
        /\ e.ended = IF quit THEN "quit" ELSE k.ended
    <3>1. ReplyOK(Q, k, p, lines, quit)
      BY <2>2, ReplyTypes, Zenon
    <3> QED
      BY <3>1, Zenon DEF ReplyOK
  <2>4. clients' = [clients EXCEPT ![Served] = q] /\ conn' = [conn EXCEPT ![Self] = e]
    BY <2>1, Zenon DEF Replying
  <2> HIDE DEF e, q
  <2>6. e.ended = "rig" => k.ended = "rig"
    BY <2>3
  <2>5. OneServed(Q, e, q)
    BY <1>4, <2>3, <2>4, <2>6, Zenon DEF OneServed, SameEnd
  <2> QED
    BY <2>2, <2>5, Zenon
<1> QED
  BY <1>7, <1>8, <1>9, <1>10, Zenon DEF ServeStep

-----------------------------------------------------------------------------
(* The array given to poll().                                              *)

\* s lists S from the least to the greatest.
Ordered(S, s) ==
  /\ Cardinality(S) \in Nat /\ s \in [1 .. Cardinality(S) -> S]
  /\ \A i, j \in 1 .. Cardinality(S) : i < j => s[i] < s[j]

LEMMA OrderExists ==
  ASSUME NEW n \in Nat, NEW S \in SUBSET (1 .. n)
  PROVE  \E s : Ordered(S, s)
<1> DEFINE T == {m \in Nat : \A X \in SUBSET (1 .. m) : \E s : Ordered(X, s)}
<1>1. 0 \in T
  <2>1. Cardinality({}) = 0
    BY FS_EmptySet
  <2>2. Ordered({}, <<>>)
    BY <2>1 DEF Ordered
  <2>3. \A X \in SUBSET (1 .. 0) : X = {}
    OBVIOUS
  <2> QED
    BY <2>2, <2>3
<1>2. ASSUME NEW m \in Nat, m \in T PROVE m + 1 \in T
  <2> SUFFICES ASSUME NEW X \in SUBSET (1 .. m + 1) PROVE \E s : Ordered(X, s)
    OBVIOUS
  <2>1. CASE m + 1 \notin X
    <3>1. X \in SUBSET (1 .. m)
      BY <2>1
    <3> QED
      BY <1>2, <3>1
  <2>2. CASE m + 1 \in X
    <3> DEFINE Y == X \ {m + 1}
    <3>1. Y \in SUBSET (1 .. m) /\ \A y \in Y : y < m + 1
      OBVIOUS
    <3>2. PICK s : Ordered(Y, s)
      BY <1>2, <3>1
    <3>3. Cardinality(Y) \in Nat /\ Cardinality(X) = Cardinality(Y) + 1
      <4>1. IsFiniteSet(X)
        <5>1. IsFiniteSet(1 .. m + 1)
          BY FS_Interval
        <5> QED
          BY <5>1, FS_Subset
      <4>2. Cardinality(Y) = Cardinality(X) - 1 /\ Cardinality(X) \in Nat
        BY <2>2, <4>1, FS_RemoveElement, FS_CardinalityType
      <4> QED
        BY <3>2, <4>2 DEF Ordered
    <3> HIDE DEF Y
    <3> DEFINE c == Cardinality(Y)
               t == [i \in 1 .. c + 1 |-> IF i <= c THEN s[i] ELSE m + 1]
    <3>4. s \in [1 .. c -> Y] /\ c \in Nat /\ \A i, j \in 1 .. c : i < j => s[i] < s[j]
      BY <3>2 DEF Ordered
    <3> HIDE DEF c
    <3>5. \A i \in 1 .. c : s[i] \in Y /\ s[i] \in X /\ s[i] < m + 1
      <4>1. Y \subseteq X
        BY DEF Y
      <4>2. \A i \in 1 .. c : s[i] \in Y
        BY <3>4, Zenon
      <4> QED
        BY <3>1, <4>1, <4>2, Zenon
    <3>6. t \in [1 .. c + 1 -> X]
      <4>1. ASSUME NEW i \in 1 .. c + 1 PROVE (IF i <= c THEN s[i] ELSE m + 1) \in X
        <5>1. i <= c => i \in 1 .. c
          BY <3>4
        <5> QED
          BY <2>2, <3>5, <5>1, Zenon
      <4> QED
        BY <4>1, Zenon
    <3>7. ASSUME NEW i \in 1 .. c + 1, NEW j \in 1 .. c + 1, i < j PROVE t[i] < t[j]
      <4>1. i \in 1 .. c /\ s[i] \in Y /\ s[i] < m + 1 /\ t[i] = s[i]
        <5>1. i \in 1 .. c /\ i <= c
          BY <3>4, <3>7
        <5>2. t[i] = s[i]
          BY <5>1, Zenon
        <5> QED
          BY <3>5, <5>1, <5>2, Zenon
      <4>2. CASE j = c + 1
        <5>1. ~(j <= c)
          BY <3>4, <4>2
        <5>2. t[j] = m + 1
          BY <5>1, Zenon
        <5> QED
          BY <4>1, <5>2, Zenon
      <4>3. CASE j # c + 1
        <5>1. j \in 1 .. c /\ j <= c
          BY <3>4, <4>3
        <5>2. t[j] = s[j]
          BY <5>1, Zenon
        <5> QED
          BY <3>4, <3>7, <4>1, <5>1, <5>2, Zenon
      <4> QED
        BY <4>2, <4>3
    <3>8. Ordered(X, t)
      <4> HIDE DEF t
      <4> QED
        BY <3>3, <3>4, <3>6, <3>7 DEF Ordered, c
    <3> QED
      BY <3>8
  <2> QED
    BY <2>1, <2>2
<1>3. n \in T
  <2> HIDE DEF T
  <2> QED
    BY <1>1, <1>2, NatInduct, Zenon
<1> QED
  BY <1>3

\* Ascending lists a set of descriptors or positions: in order, with nothing left
\* out and nothing twice.
LEMMA AscendingOrdered ==
  ASSUME NEW n \in Nat, NEW S \in SUBSET (1 .. n)
  PROVE  /\ Ordered(S, Ascending(S)) /\ Len(Ascending(S)) = Cardinality(S)
         /\ \A x \in S : \E i \in 1 .. Cardinality(S) : Ascending(S)[i] = x
<1> DEFINE c == Cardinality(S)
           f == Ascending(S)
<1>1. Ordered(S, f)
  <2>1. PICK s : Ordered(S, s)
    BY OrderExists, Zenon
  <2> QED
    BY <2>1 DEF Ascending, Ordered
<1> HIDE DEF f
<1>2. c \in Nat /\ f \in [1 .. c -> S] /\ \A i, j \in 1 .. c : i < j => f[i] < f[j]
  BY <1>1 DEF Ordered
<1>3. Len(f) = c
  BY <1>2, LenProperties
<1>4. \A x \in S : \E i \in 1 .. c : f[i] = x
  <2>1. IsFiniteSet(S) /\ IsFiniteSet(1 .. c) /\ Cardinality(1 .. c) = c
    <3>1. IsFiniteSet(1 .. n) /\ IsFiniteSet(1 .. c) /\ Cardinality(1 .. c) = c
      BY <1>2, FS_Interval
    <3> QED
      BY <3>1, FS_Subset
  <2>2. \A i, j \in 1 .. c : i # j => f[i] # f[j]
    <3> SUFFICES ASSUME NEW i \in 1 .. c, NEW j \in 1 .. c, i # j PROVE f[i] # f[j]
      OBVIOUS
    <3>1. f[i] \in Nat /\ f[j] \in Nat /\ (i < j \/ j < i)
      <4>1. f[i] \in S /\ f[j] \in S
        BY <1>2, Zenon
      <4>2. S \subseteq Nat
        OBVIOUS
      <4>3. i < j \/ j < i
        OBVIOUS
      <4> QED
        BY <4>1, <4>2, <4>3, Zenon
    <3>2. f[i] < f[j] \/ f[j] < f[i]
      BY <1>2, <3>1
    <3> QED
      BY <3>1, <3>2
  <2>3. f \in Injection(1 .. c, S)
    <3>1. IsInjective(f)
      BY <1>2, <2>2, Zenon DEF IsInjective
    <3> QED
      BY <1>2, <3>1, Zenon DEF Injection
  <2>4. f \in Surjection(1 .. c, S)
    <3> HIDE DEF c
    <3> QED
      BY <2>1, <2>3, FS_Injection DEF c
  <2> QED
    BY <2>4 DEF Surjection
<1> QED
  BY <1>1, <1>3, <1>4 DEF f

\* An array with an entry for every client, in the order of the map.
Listed(entries, cs) ==
  /\ entries \in Seq(Entry) /\ Len(entries) = Cardinality(DOMAIN cs)
  /\ \A i \in 1 .. Len(entries) : entries[i].fd = Ascending(DOMAIN cs)[i]

\* The array is up to date between two turns; while clients are served it still
\* lists them, unless one was accepted.
PfdsInv ==
  /\ wk_pc \notin Serving => pfds = update_poll_descriptors(clients)
  /\ wk_pc \in Serving /\ ~fd_added => Listed(pfds, clients)

LEMMA DescriptorsOrdered ==
  ASSUME NEW S, S \subseteq Conns
  PROVE  /\ Cardinality(S) \in Nat /\ Len(Ascending(S)) = Cardinality(S)
         /\ \A i \in 1 .. Cardinality(S) : Ascending(S)[i] \in S
         /\ \A i, j \in 1 .. Cardinality(S) : i < j => Ascending(S)[i] < Ascending(S)[j]
<1>1. NConns \in Nat /\ S \in SUBSET (1 .. NConns)
  BY DEF Conns
<1>2. Ordered(S, Ascending(S)) /\ Len(Ascending(S)) = Cardinality(S)
  BY <1>1, AscendingOrdered, Zenon
<1> QED
  BY <1>2, Zenon DEF Ordered

LEMMA DescriptorsListed ==
  ASSUME NEW cs, DOMAIN cs \subseteq Conns
  PROVE  Listed(update_poll_descriptors(cs), cs)
<1> DEFINE fds == Ascending(DOMAIN cs)
           n == Cardinality(DOMAIN cs)
<1>1. n \in Nat /\ Len(fds) = n /\ \A i \in 1 .. n : fds[i] \in DOMAIN cs
  BY DescriptorsOrdered, Zenon
<1>2. update_poll_descriptors(cs) = [i \in 1 .. n |-> [fd |-> fds[i], out |-> cs[fds[i]].write_buffer # <<>>]]
  BY <1>1, Zenon DEF update_poll_descriptors
<1> HIDE DEF fds, n
<1>3. \A i \in 1 .. n : fds[i] \in Conns
  BY <1>1, Zenon
<1>4. /\ update_poll_descriptors(cs) \in [1 .. n -> Entry]
      /\ \A i \in 1 .. n : update_poll_descriptors(cs)[i].fd = fds[i]
  BY <1>2, <1>3 DEF Entry
<1>5. update_poll_descriptors(cs) \in Seq(Entry) /\ Len(update_poll_descriptors(cs)) = n
  <2> DEFINE s == update_poll_descriptors(cs)
  <2> HIDE DEF s
  <2>1. s \in [1 .. n -> Entry]
    BY <1>4 DEF s
  <2>2. s \in Seq(Entry) /\ Len(s) = n
    BY <1>1, <2>1
  <2> QED
    BY <2>2 DEF s
<1> QED
  BY <1>4, <1>5, Zenon DEF Listed, fds, n

\* Renewing the flags of an array that lists the clients does as much as renewing
\* the array.
LEMMA FlagsSuffice ==
  ASSUME NEW cs, DOMAIN cs \subseteq Conns, NEW entries, Listed(entries, cs)
  PROVE  update_poll_flags(entries, cs) = update_poll_descriptors(cs)
<1> DEFINE fds == Ascending(DOMAIN cs)
           n == Cardinality(DOMAIN cs)
           flag(i) == cs[fds[i]].write_buffer # <<>>
<1>1. n \in Nat /\ Len(fds) = n
  BY DescriptorsOrdered, Zenon
<1>2. Len(entries) = n /\ \A i \in 1 .. n : entries[i] \in Entry /\ entries[i].fd = fds[i]
  <2>1. entries \in Seq(Entry) /\ Len(entries) = n /\ \A i \in 1 .. Len(entries) : entries[i].fd = fds[i]
    BY Zenon DEF Listed
  <2> HIDE DEF fds, n
  <2> QED
    BY <2>1
<1>3. update_poll_descriptors(cs) = [i \in 1 .. n |-> [fd |-> fds[i], out |-> flag(i)]]
  BY <1>1, Zenon DEF update_poll_descriptors
<1>4. update_poll_flags(entries, cs) = [i \in 1 .. n |->
        IF i <= n THEN [entries[i] EXCEPT !.out = flag(i)] ELSE entries[i]]
  BY <1>1, <1>2, Zenon DEF update_poll_flags
<1> HIDE DEF fds, n, flag
<1>5. ASSUME NEW i \in 1 .. n
      PROVE  (IF i <= n THEN [entries[i] EXCEPT !.out = flag(i)] ELSE entries[i])
               = [fd |-> fds[i], out |-> flag(i)]
  <2>1. i <= n
    BY <1>1
  <2>2. [entries[i] EXCEPT !.out = flag(i)] = [fd |-> fds[i], out |-> flag(i)]
    BY <1>2 DEF Entry
  <2> QED
    BY <2>1, <2>2, Zenon
<1> QED
  BY <1>3, <1>4, <1>5, Zenon

\* What poll() says of a client.
FreshEvent(e) ==
  LET p == clients[e.fd]
      k == conn[p.conn]
  IN  /\ e.fd \in DOMAIN clients /\ e.err = k.rst /\ e.in = (k.sending # <<>> \/ k.fin)
      /\ e.out = (p.write_buffer # <<>> /\ k.unread < Window)

ReportOK ==
  /\ Reported \in Seq(Event)
  /\ \A i \in 1 .. Len(Reported) : FreshEvent(Reported[i])
  /\ \A i, j \in 1 .. Len(Reported) : i # j => Reported[i].fd # Reported[j].fd

LEMMA ReportedEvents ==
  ASSUME NEW R, Typed(R), pfds = update_poll_descriptors(clients)
  PROVE  ReportOK
<1> DEFINE fds == Ascending(DOMAIN clients)
           n == Cardinality(DOMAIN clients)
           some == {i \in 1 .. Len(pfds) : LET e == Events(pfds[i]) IN e.err \/ e.in \/ e.out}
           order == Ascending(some)
           m == Cardinality(some)
<1>1. /\ n \in Nat /\ Len(fds) = n /\ \A i \in 1 .. n : fds[i] \in DOMAIN clients
      /\ \A i, j \in 1 .. n : i < j => fds[i] < fds[j]
  BY DescriptorsOrdered, Zenon DEF Typed
<1>2. Len(pfds) = n
  BY DescriptorsListed, Zenon DEF Listed, Typed
<1>3. \A i \in 1 .. n : pfds[i] = [fd |-> fds[i], out |-> clients[fds[i]].write_buffer # <<>>]
  <2>1. pfds = [i \in 1 .. n |-> [fd |-> fds[i], out |-> clients[fds[i]].write_buffer # <<>>]]
    BY <1>1, Zenon DEF update_poll_descriptors
  <2> QED
    BY <2>1, Zenon
<1> HIDE DEF fds, n
<1>4. ASSUME NEW i \in 1 .. n
      PROVE  Events(pfds[i]) \in Event /\ FreshEvent(Events(pfds[i])) /\ Events(pfds[i]).fd = fds[i]
  <2>1. pfds[i].fd = fds[i] /\ pfds[i].out = (clients[fds[i]].write_buffer # <<>>)
    <3> DEFINE b == clients[fds[i]].write_buffer # <<>>
    <3>1. pfds[i] = [fd |-> fds[i], out |-> b]
      BY <1>3, Zenon
    <3> HIDE DEF b
    <3>2. pfds[i].fd = fds[i] /\ pfds[i].out = b
      BY <3>1
    <3> QED
      BY <3>2 DEF b
  <2> DEFINE k == conn[clients[fds[i]].conn]
             e == [fd |-> fds[i], err |-> k.rst, in |-> k.sending # <<>> \/ k.fin,
                   out |-> clients[fds[i]].write_buffer # <<>> /\ k.unread < Window]
  <2>2. Events(pfds[i]) = e
    BY <2>1, Zenon DEF Events
  <2>3. fds[i] \in DOMAIN clients /\ fds[i] \in Conns
    BY <1>1, Zenon DEF Typed
  <2>4. k.rst \in BOOLEAN /\ k.fin \in BOOLEAN
    <3>1. clients[fds[i]] \in ClientRec(R)
      BY <2>3, Zenon DEF Typed
    <3>2. clients[fds[i]].conn \in Conns
      BY <3>1 DEF ClientRec
    <3>3. k \in ConnRec(R)
      BY <3>2, Zenon DEF Typed
    <3> QED
      BY <3>3 DEF ConnRec
  <2> HIDE DEF k
  <2>5. e \in Event /\ e.fd = fds[i] /\ e.err = k.rst /\ e.in = (k.sending # <<>> \/ k.fin)
        /\ e.out = (clients[fds[i]].write_buffer # <<>> /\ k.unread < Window)
    BY <2>3, <2>4 DEF Event
  <2> HIDE DEF e
  <2> QED
    BY <2>2, <2>3, <2>5, Zenon DEF FreshEvent, k
<1>5. /\ m \in Nat /\ \A j \in 1 .. m : order[j] \in some
      /\ \A i, j \in 1 .. m : i < j => order[i] < order[j]
  <2>1. some \in SUBSET (1 .. n)
    BY <1>2
  <2> HIDE DEF some
  <2>2. Ordered(some, Ascending(some))
    BY <1>1, <2>1, AscendingOrdered, Zenon
  <2> QED
    BY <2>2, Zenon DEF Ordered
<1>6. Reported = [j \in 1 .. m |-> Events(pfds[order[j]])]
  BY Zenon DEF Reported
<1>7. some \subseteq 1 .. n
  BY <1>2
<1> HIDE DEF some, order, m
<1>8. \A j \in 1 .. m : order[j] \in 1 .. n
  BY <1>5, <1>7, Zenon
<1>9. Reported \in [1 .. m -> Event] /\ \A j \in 1 .. m : Reported[j] = Events(pfds[order[j]])
  BY <1>4, <1>6, <1>8, Zenon
<1>10. Reported \in Seq(Event) /\ Len(Reported) = m
  <2> DEFINE s == Reported
  <2> HIDE DEF s
  <2>1. s \in [1 .. m -> Event]
    BY <1>9 DEF s
  <2>2. s \in Seq(Event) /\ Len(s) = m
    BY <1>5, <2>1
  <2> QED
    BY <2>2 DEF s
<1>11. \A i \in 1 .. m : FreshEvent(Reported[i]) /\ Reported[i].fd = fds[order[i]]
  BY <1>4, <1>8, <1>9, Zenon
<1>12. ASSUME NEW i \in 1 .. m, NEW j \in 1 .. m, i # j PROVE Reported[i].fd # Reported[j].fd
  <2>1. order[i] < order[j] \/ order[j] < order[i]
    <3>1. i < j \/ j < i
      BY <1>5, <1>12
    <3> QED
      BY <1>5, <3>1, Zenon
  <2>2. fds[order[i]] < fds[order[j]] \/ fds[order[j]] < fds[order[i]]
    BY <1>1, <1>8, <2>1, Zenon
  <2>3. fds[order[i]] \in Nat /\ fds[order[j]] \in Nat
    <3>1. DOMAIN clients \subseteq Nat
      BY DEF Typed, Conns
    <3> QED
      BY <1>1, <1>8, <3>1, Zenon
  <2>4. \A a, b \in Nat : a < b \/ b < a => a # b
    OBVIOUS
  <2> QED
    BY <1>11, <2>2, <2>3, <2>4, Zenon
<1> QED
  BY <1>10, <1>11, <1>12, Zenon DEF ReportOK

-----------------------------------------------------------------------------
(* The steps, by what they change.                                         *)

\* A connection that was not yet accepted.
Fresh(k) ==
  /\ k.sending = <<>> /\ k.fin = FALSE /\ k.rst = FALSE /\ k.unread = 0 /\ k.sent = 0
  /\ k.done = 0 /\ k.answers = <<>> /\ k.got = <<>> /\ k.full = FALSE
  /\ k.deferred = FALSE /\ k.ended = "no"

\* What is sent and what waits are the answers, in order.
RepliesInv ==
  /\ \A f \in DOMAIN clients :
       conn[clients[f].conn].got \o clients[f].write_buffer = conn[clients[f].conn].answers
  /\ \A c \in Conns : conn[c].stage \in {"none", "queued"} => Fresh(conn[c])
  /\ \A c \in Conns : IsPrefix(conn[c].got, conn[c].answers)

LEMMA PrefixOfConcat ==
  ASSUME NEW R, NEW s \in Seq(R), NEW t \in Seq(R)
  PROVE  IsPrefix(s, s \o t)
<1>1. Len(s) \in Nat /\ Len(t) \in Nat /\ s \o t \in Seq(R) /\ Len(s \o t) = Len(s) + Len(t)
  BY ConcatProperties
<1>2. SubSeq(s \o t, 1, Len(s)) = SubSeq(s, 1, Len(s))
  BY <1>1, ConcatProperties
<1> QED
  BY <1>1, <1>2 DEF IsPrefix

LEMMA OwnFrame ==
  ASSUME OwnInv, DOMAIN clients' = DOMAIN clients,
         \A f \in DOMAIN clients : clients'[f].conn = clients[f].conn /\ clients[f].conn \in Conns,
         \A c \in Conns : conn'[c].stage = "open" <=> conn[c].stage = "open"
  PROVE  OwnInv'
<1>1. \A f, g \in DOMAIN clients' : clients'[f].conn = clients'[g].conn => f = g
  BY Zenon DEF OwnInv
<1>2. \A f \in DOMAIN clients' : conn'[clients'[f].conn].stage = "open"
  BY Zenon DEF OwnInv
<1>3. \A c \in Conns : conn'[c].stage = "open" => \E f \in DOMAIN clients' : clients'[f].conn = c
  BY Zenon DEF OwnInv
<1> QED
  BY <1>1, <1>2, <1>3, Zenon DEF OwnInv

\* One client is served.
LEMMA ServedStep ==
  ASSUME NEW R, NEW Q, NEW e, NEW q, Typed(R), OwnInv, RepliesInv, R \subseteq Q,
         Served \in DOMAIN clients, OneServed(Q, e, q)
  PROVE  Typed(Q)' /\ OwnInv' /\ RepliesInv' /\ DOMAIN clients' = DOMAIN clients
<1>0. Self \in Conns /\ clients[Served].conn = Self
  <2>1. clients[Served] \in ClientRec(R)
    BY Zenon DEF Typed
  <2> QED
    BY <2>1 DEF ClientRec, Self
<1>1. /\ conn \in [Conns -> ConnRec(Q)] /\ clients \in [DOMAIN clients -> ClientRec(Q)]
      /\ DOMAIN clients \subseteq Conns
  <2>1. ConnRec(R) \subseteq ConnRec(Q) /\ ClientRec(R) \subseteq ClientRec(Q)
    BY MoreReplies, Zenon
  <2> QED
    BY <2>1 DEF Typed
<1>2. /\ conn' \in [Conns -> ConnRec(Q)] /\ conn'[Self] = e
      /\ \A d \in Conns : d # Self => conn'[d] = conn[d]
  BY <1>0, <1>1, Zenon DEF OneServed
<1>3. /\ clients' \in [DOMAIN clients -> ClientRec(Q)] /\ DOMAIN clients' = DOMAIN clients
      /\ clients'[Served] = q /\ \A g \in DOMAIN clients : g # Served => clients'[g] = clients[g]
  BY <1>1, Zenon DEF OneServed
<1>4. Typed(Q)'
  BY <1>1, <1>2, <1>3, Zenon DEF Typed
<1>5. \A f \in DOMAIN clients : clients'[f].conn = clients[f].conn /\ clients[f].conn \in Conns
  <2>1. q.conn = Self
    BY Zenon DEF OneServed
  <2>2. \A f \in DOMAIN clients : clients[f].conn \in Conns
    BY <1>1 DEF ClientRec
  <2> QED
    BY <1>0, <1>3, <2>1, <2>2, Zenon
<1>6. \A c \in Conns : conn'[c].stage = conn[c].stage
  BY <1>2, Zenon DEF OneServed
<1>7. OwnInv'
  BY <1>3, <1>5, <1>6, OwnFrame, Zenon
<1>8. ASSUME NEW f \in DOMAIN clients'
      PROVE  conn'[clients'[f].conn].got \o clients'[f].write_buffer = conn'[clients'[f].conn].answers
  <2>1. CASE f = Served
    BY <1>0, <1>2, <1>3, <2>1, Zenon DEF OneServed, RepliesInv
  <2>2. CASE f # Served
    <3>1. f \in DOMAIN clients /\ clients[f].conn # Self /\ clients[f].conn \in Conns
      BY <1>0, <1>3, <1>5, <2>2, Zenon DEF OwnInv
    <3> QED
      BY <1>2, <1>3, <2>2, <3>1, Zenon DEF RepliesInv
  <2> QED
    BY <2>1, <2>2
<1>9. \A c \in Conns : conn'[c].stage \in {"none", "queued"} => Fresh(conn'[c])
  <2>1. conn[Self].stage = "open"
    BY <1>0, Zenon DEF OwnInv
  <2>2. e.stage = "open"
    BY <2>1, Zenon DEF OneServed
  <2>3. ~(e.stage \in {"none", "queued"})
    BY <2>2
  <2> QED
    BY <1>2, <2>3, Zenon DEF RepliesInv
<1>10. ASSUME NEW c \in Conns PROVE IsPrefix(conn'[c].got, conn'[c].answers)
  <2>1. CASE c = Self
    <3>1. e.got \o q.write_buffer = e.answers
      BY <1>0, Zenon DEF OneServed, RepliesInv
    <3>2. e.got \in Seq(Q) /\ q.write_buffer \in Seq(Q)
      <4>1. e \in ConnRec(Q) /\ q \in ClientRec(Q)
        BY Zenon DEF OneServed
      <4> QED
        BY <4>1 DEF ConnRec, ClientRec
    <3>3. IsPrefix(e.got, e.got \o q.write_buffer)
      BY <3>2, PrefixOfConcat, Zenon
    <3> QED
      BY <1>2, <2>1, <3>1, <3>3, Zenon
  <2>2. CASE c # Self
    BY <1>2, <2>2, Zenon DEF RepliesInv
  <2> QED
    BY <2>1, <2>2
<1> QED
  BY <1>3, <1>4, <1>7, <1>8, <1>9, <1>10, Zenon DEF RepliesInv

\* How the worker moves while it serves.
ServeMoves ==
  /\ wk_pc \in {"serve", "lines", "write"} /\ revents # <<>> /\ UNCHANGED <<pfds, fd_added>>
  /\ fds_to_remove' \in {fds_to_remove, fds_to_remove \union {Served}}
  /\ \/ wk_pc' = "serve" /\ revents' = Tail(revents)
     \/ wk_pc' \in {"lines", "write"} /\ revents' = revents

LEMMA ServeStepMoves ==
  ASSUME ServeInv, ServeStep
  PROVE  ServeMoves
<1>1. CASE ServeError
  BY <1>1 DEF ServeError, ServeMoves
<1>2. CASE Read
  BY <1>2 DEF Read, AfterRecv, ServeMoves
<1>3. CASE Write
  <2>1. fds_to_remove' \in {fds_to_remove, fds_to_remove \union {Served}}
    BY <1>3, Zenon DEF Write
  <2>2. wk_pc \in {"lines", "write"} /\ UNCHANGED <<pfds, fd_added>> /\ wk_pc' = "serve"
        /\ revents' = Tail(revents)
    BY <1>3 DEF Write, ReadDone
  <2> QED
    BY <2>1, <2>2 DEF ServeMoves, ServeInv
<1>4. ASSUME NEW junk \in Junk, Interpret(junk) PROVE ServeMoves
  <2>1. \E quit : /\ fds_to_remove' = fds_to_remove \cup (IF quit THEN {Served} ELSE {})
                  /\ wk_pc' = IF quit THEN "write" ELSE "lines"
    BY <1>4, Zenon DEF Interpret
  <2>2. wk_pc = "lines" /\ UNCHANGED <<pfds, revents, fd_added>>
    BY <1>4, Zenon DEF Interpret
  <2>3. fds_to_remove \union {} = fds_to_remove
    OBVIOUS
  <2>4. wk_pc' \in {"lines", "write"} /\ fds_to_remove' \in {fds_to_remove, fds_to_remove \union {Served}}
    BY <2>1, <2>3, Zenon
  <2> QED
    BY <2>2, <2>4 DEF ServeMoves, ServeInv
<1> QED
  BY <1>1, <1>2, <1>3, <1>4, Zenon DEF ServeStep

LEMMA ServedTables ==
  ASSUME NEW R, Typed(R), ServeInv, PfdsInv, ServeMoves, DOMAIN clients' = DOMAIN clients
  PROVE  ServeInv' /\ PfdsInv'
<1>1. /\ Served \in DOMAIN clients /\ Tail(revents) \in Seq(Event)
      /\ Len(Tail(revents)) = Len(revents) - 1
      /\ \A i \in 1 .. Len(Tail(revents)) : Tail(revents)[i] = revents[i + 1]
  BY ServedTyped, Zenon DEF ServeMoves
<1>2. wk_pc' \in Serving /\ wk_pc \in Serving /\ (wk_pc' \in {"lines", "write"} => revents' # <<>>)
  BY DEF ServeMoves, Serving
<1>3. fds_to_remove' \subseteq DOMAIN clients'
  <2>1. fds_to_remove \subseteq DOMAIN clients
    BY <1>2, Zenon DEF ServeInv
  <2> QED
    BY <1>1, <2>1, Zenon DEF ServeMoves
<1>4. /\ revents' \in Seq(Event) /\ \A i \in 1 .. Len(revents') : revents'[i].fd \in DOMAIN clients'
      /\ \A i, j \in 1 .. Len(revents') : i # j => revents'[i].fd # revents'[j].fd
  <2>0. /\ revents \in Seq(Event) /\ \A i \in 1 .. Len(revents) : revents[i].fd \in DOMAIN clients'
        /\ \A i, j \in 1 .. Len(revents) : i # j => revents[i].fd # revents[j].fd
    BY Zenon DEF ServeInv
  <2>1. CASE revents' = revents
    BY <2>0, <2>1
  <2>2. CASE revents' = Tail(revents)
    <3> DEFINE t == Tail(revents)
    <3>1. Len(revents) \in Nat /\ \A i \in 1 .. Len(t) : i + 1 \in 1 .. Len(revents)
      BY <1>1, <2>0
    <3>2. \A i, j \in 1 .. Len(t) : i # j => i + 1 # j + 1
      OBVIOUS
    <3>3. t \in Seq(Event) /\ \A i \in 1 .. Len(t) : t[i] = revents[i + 1]
      BY <1>1, Zenon
    <3> HIDE DEF t
    <3>4. \A i \in 1 .. Len(t) : t[i].fd \in DOMAIN clients'
      BY <2>0, <3>1, <3>3, Zenon
    <3>5. \A i, j \in 1 .. Len(t) : i # j => t[i].fd # t[j].fd
      BY <2>0, <3>1, <3>2, <3>3, Zenon
    <3> QED
      BY <2>2, <3>3, <3>4, <3>5, Zenon DEF t
  <2> QED
    BY <2>1, <2>2, Zenon DEF ServeMoves
<1>5. ServeInv'
  <2>1. wk_pc' \in Serving \union {"init", "top", "poll", "done"}
    BY <1>2, Zenon
  <2> QED
    BY <1>2, <1>3, <1>4, <2>1, Zenon DEF ServeInv
<1>6. Listed(pfds, clients) => Listed(pfds, clients)'
  BY Zenon DEF Listed, ServeMoves
<1> QED
  BY <1>2, <1>5, <1>6, Zenon DEF PfdsInv, ServeMoves

\* A client's step changes its end of a connection only.
OneEnd(R, c, k) ==
  /\ k \in ConnRec(R) /\ conn' = [conn EXCEPT ![c] = k] /\ UNCHANGED clients
  /\ k.got = conn[c].got /\ k.answers = conn[c].answers /\ k.ended = conn[c].ended
  /\ k.stage = conn[c].stage \/ (conn[c].stage = "none" /\ k.stage = "queued")
  /\ k.stage \in {"none", "queued"} => (Fresh(conn[c]) => Fresh(k))

EndSteps(c) == Connect(c) \/ Finish(c) \/ Reset(c) \/ Drain(c) \/ \E cmd \in Commands : Send(c, cmd)

Connected(k) == [k EXCEPT !.stage = "queued"]
Finished(k)  == [k EXCEPT !.fin = TRUE]
ResetEnd(k)  == [[k EXCEPT !.rst = TRUE] EXCEPT !.sending = <<>>]
Drained(k)   == [k EXCEPT !.unread = 0]
Sent(k, cmd) == [[k EXCEPT !.sending = k.sending \o <<cmd, NL>>] EXCEPT !.sent = k.sent + 1]

LEMMA SentType ==
  ASSUME NEW R, NEW k \in ConnRec(R), NEW cmd \in Commands
  PROVE  /\ Sent(k, cmd) \in ConnRec(R)
         /\ Sent(k, cmd).stage = k.stage /\ Sent(k, cmd).got = k.got
         /\ Sent(k, cmd).answers = k.answers /\ Sent(k, cmd).ended = k.ended
<1>1. k.sending \o <<cmd, NL>> \in Seq(Pieces) /\ k.sent + 1 \in Nat
  <2>1. k.sending \in Seq(Pieces) /\ <<cmd, NL>> \in Seq(Pieces) /\ k.sent \in Nat
    BY DEF ConnRec, Pieces
  <2>2. k.sending \o <<cmd, NL>> \in Seq(Pieces)
    BY <2>1, ConcatProperties
  <2> QED
    BY <2>1, <2>2
<1> DEFINE s == k.sending \o <<cmd, NL>>
           n == k.sent + 1
<1> HIDE DEF s, n
<1>2. LET z == [[k EXCEPT !.sending = s] EXCEPT !.sent = n]
      IN  /\ z \in ConnRec(R) /\ z.stage = k.stage /\ z.got = k.got /\ z.answers = k.answers
          /\ z.ended = k.ended
  BY <1>1 DEF ConnRec, s, n
<1> QED
  BY <1>2, Zenon DEF Sent, s, n

LEMMA EndTypes ==
  ASSUME NEW R, NEW k \in ConnRec(R)
  PROVE  /\ Finished(k) \in ConnRec(R) /\ Finished(k).stage = k.stage
         /\ Finished(k).got = k.got /\ Finished(k).answers = k.answers /\ Finished(k).ended = k.ended
         /\ ResetEnd(k) \in ConnRec(R) /\ ResetEnd(k).stage = k.stage
         /\ ResetEnd(k).got = k.got /\ ResetEnd(k).answers = k.answers /\ ResetEnd(k).ended = k.ended
         /\ Drained(k) \in ConnRec(R) /\ Drained(k).stage = k.stage
         /\ Drained(k).got = k.got /\ Drained(k).answers = k.answers /\ Drained(k).ended = k.ended
<1>1. <<>> \in Seq(Pieces) /\ 0 \in 0 .. Window
  OBVIOUS
<1>2. /\ Finished(k) \in ConnRec(R) /\ Finished(k).stage = k.stage
      /\ Finished(k).got = k.got /\ Finished(k).answers = k.answers /\ Finished(k).ended = k.ended
  BY DEF Finished, ConnRec
<1>3. /\ ResetEnd(k) \in ConnRec(R) /\ ResetEnd(k).stage = k.stage
      /\ ResetEnd(k).got = k.got /\ ResetEnd(k).answers = k.answers /\ ResetEnd(k).ended = k.ended
  BY <1>1 DEF ResetEnd, ConnRec
<1>4. /\ Drained(k) \in ConnRec(R) /\ Drained(k).stage = k.stage
      /\ Drained(k).got = k.got /\ Drained(k).answers = k.answers /\ Drained(k).ended = k.ended
  BY <1>1 DEF Drained, ConnRec
<1> QED
  BY <1>2, <1>3, <1>4

LEMMA EndCases ==
  ASSUME NEW R, Typed(R), NEW c \in Conns, EndSteps(c)
  PROVE  /\ UNCHANGED clients
         /\ \/ conn[c].stage = "none" /\ conn' = [conn EXCEPT ![c] = Connected(conn[c])]
            \/ CanSend(c) /\ conn' = [conn EXCEPT ![c] = Finished(conn[c])]
            \/ conn[c].stage = "open" /\ conn' = [conn EXCEPT ![c] = ResetEnd(conn[c])]
            \/ conn[c].stage = "open" /\ conn' = [conn EXCEPT ![c] = Drained(conn[c])]
            \/ \E cmd \in Commands : CanSend(c) /\ conn' = [conn EXCEPT ![c] = Sent(conn[c], cmd)]
<1>0. c \in DOMAIN conn /\ conn[c] \in ConnRec(R)
  BY DEF Typed
<1>1. UNCHANGED clients
  BY Zenon DEF EndSteps, Connect, Finish, Reset, Drain, Send, Client, worker
<1>2. CASE Connect(c)
  BY <1>1, <1>2, Zenon DEF Connect, Client, Connected
<1>3. CASE Finish(c)
  BY <1>1, <1>3, Zenon DEF Finish, Client, Finished
<1>4. CASE Reset(c)
  <2>1. conn[c].stage = "open" /\ conn' = [conn EXCEPT ![c].rst = TRUE, ![c].sending = <<>>]
    BY <1>4, Zenon DEF Reset
  <2>2. conn' = [conn EXCEPT ![c] = [[conn[c] EXCEPT !.rst = TRUE] EXCEPT !.sending = <<>>]]
    BY <1>0, <2>1
  <2> QED
    BY <1>1, <2>1, <2>2, Zenon DEF ResetEnd
<1>5. CASE Drain(c)
  BY <1>1, <1>5, Zenon DEF Drain, Client, Drained
<1>6. ASSUME NEW cmd \in Commands, Send(c, cmd)
      PROVE  CanSend(c) /\ conn' = [conn EXCEPT ![c] = Sent(conn[c], cmd)]
  <2>1. conn' = [conn EXCEPT ![c] = [conn[c] EXCEPT !.sending = @ \o <<cmd, NL>>, !.sent = @ + 1]]
    BY <1>6, Zenon DEF Send, Client
  <2>2. [conn[c] EXCEPT !.sending = @ \o <<cmd, NL>>, !.sent = @ + 1] = Sent(conn[c], cmd)
    BY <1>0 DEF Sent, ConnRec
  <2>3. CanSend(c)
    BY <1>6, Zenon DEF Send
  <2> QED
    BY <2>1, <2>2, <2>3, Zenon
<1> QED
  BY <1>1, <1>2, <1>3, <1>4, <1>5, <1>6, Zenon DEF EndSteps

LEMMA EndEffect ==
  ASSUME NEW R, Typed(R), NEW c \in Conns, EndSteps(c)
  PROVE  \E k : OneEnd(R, c, k)
<1> DEFINE k == conn[c]
<1>0. k \in ConnRec(R)
  BY Zenon DEF Typed
<1>u. UNCHANGED clients
  BY EndCases, Zenon
<1>1. ASSUME k.stage = "none", conn' = [conn EXCEPT ![c] = Connected(k)] PROVE OneEnd(R, c, Connected(k))
  <2>1. /\ Connected(k) \in ConnRec(R) /\ Connected(k).got = k.got /\ Connected(k).answers = k.answers
        /\ Connected(k).stage = "queued" /\ (Fresh(k) => Fresh(Connected(k)))
        /\ Connected(k).ended = k.ended
    BY <1>0 DEF Connected, ConnRec, Fresh
  <2> QED
    BY <1>u, <1>1, <2>1, Zenon DEF OneEnd
<1>2. ASSUME NEW e \in ConnRec(R), k.stage = "open", e.stage = k.stage, e.got = k.got, e.answers = k.answers,
             e.ended = k.ended,
             conn' = [conn EXCEPT ![c] = e]
      PROVE  OneEnd(R, c, e)
  <2>1. ~(e.stage \in {"none", "queued"})
    BY <1>2
  <2> QED
    BY <1>u, <1>2, <2>1, Zenon DEF OneEnd
<1>3. /\ Finished(k) \in ConnRec(R) /\ Finished(k).stage = k.stage /\ Finished(k).got = k.got
      /\ Finished(k).answers = k.answers /\ Finished(k).ended = k.ended
      /\ ResetEnd(k) \in ConnRec(R) /\ ResetEnd(k).stage = k.stage /\ ResetEnd(k).got = k.got
      /\ ResetEnd(k).answers = k.answers /\ ResetEnd(k).ended = k.ended
      /\ Drained(k) \in ConnRec(R) /\ Drained(k).stage = k.stage /\ Drained(k).got = k.got
      /\ Drained(k).answers = k.answers /\ Drained(k).ended = k.ended
  BY <1>0, EndTypes, Zenon
<1>6. \A cmd \in Commands : /\ Sent(k, cmd) \in ConnRec(R) /\ Sent(k, cmd).stage = k.stage
                            /\ Sent(k, cmd).got = k.got /\ Sent(k, cmd).answers = k.answers
                            /\ Sent(k, cmd).ended = k.ended
  BY <1>0, SentType, Zenon
<1>7. CanSend(c) => k.stage = "open"
  BY Zenon DEF CanSend
<1>8. \/ k.stage = "none" /\ conn' = [conn EXCEPT ![c] = Connected(k)]
      \/ CanSend(c) /\ conn' = [conn EXCEPT ![c] = Finished(k)]
      \/ k.stage = "open" /\ conn' = [conn EXCEPT ![c] = ResetEnd(k)]
      \/ k.stage = "open" /\ conn' = [conn EXCEPT ![c] = Drained(k)]
      \/ \E cmd \in Commands : CanSend(c) /\ conn' = [conn EXCEPT ![c] = Sent(k, cmd)]
  BY EndCases, Zenon
<1> QED
  BY <1>1, <1>2, <1>3, <1>6, <1>7, <1>8, Zenon

LEMMA EndStep ==
  ASSUME NEW R, Typed(R), OwnInv, RepliesInv, NEW c \in Conns, NEW k, OneEnd(R, c, k)
  PROVE  Typed(R)' /\ OwnInv' /\ RepliesInv'
<1>1. /\ conn \in [Conns -> ConnRec(R)] /\ clients' = clients
      /\ \A f \in DOMAIN clients : clients[f].conn \in Conns
  <2>1. \A f \in DOMAIN clients : clients[f] \in ClientRec(R)
    BY Zenon DEF Typed
  <2>2. \A f \in DOMAIN clients : clients[f].conn \in Conns
    BY <2>1 DEF ClientRec
  <2> QED
    BY <2>2, Zenon DEF Typed, OneEnd
<1>2. /\ conn' \in [Conns -> ConnRec(R)] /\ conn'[c] = k
      /\ \A d \in Conns : d # c => conn'[d] = conn[d]
  BY <1>1, Zenon DEF OneEnd
<1>3. Typed(R)'
  BY <1>1, <1>2, Zenon DEF Typed
<1>4. \A d \in Conns : conn'[d].stage = "open" <=> conn[d].stage = "open"
  <2>1. k.stage = "open" <=> conn[c].stage = "open"
    BY DEF OneEnd
  <2> QED
    BY <1>2, <2>1, Zenon
<1>5. OwnInv'
  BY <1>1, <1>4, OwnFrame, Zenon
<1>6. \A d \in Conns : conn'[d].got = conn[d].got /\ conn'[d].answers = conn[d].answers
  BY <1>2, Zenon DEF OneEnd
<1>7. \A d \in Conns : conn'[d].stage \in {"none", "queued"} => Fresh(conn'[d])
  <2>1. k.stage \in {"none", "queued"} => Fresh(k)
    <3>1. k.stage \in {"none", "queued"} => conn[c].stage \in {"none", "queued"}
      BY DEF OneEnd
    <3> QED
      BY <3>1, Zenon DEF OneEnd, RepliesInv
  <2> QED
    BY <1>2, <2>1, Zenon DEF RepliesInv
<1>8. RepliesInv'
  BY <1>1, <1>6, <1>7, Zenon DEF RepliesInv
<1> QED
  BY <1>3, <1>5, <1>8

\* Clients are closed.
Closing(R, X) ==
  /\ X \subseteq DOMAIN clients /\ DOMAIN clients' = DOMAIN clients \ X
  /\ clients' \in [DOMAIN clients \ X -> ClientRec(R)]
  /\ \A f \in DOMAIN clients \ X : clients'[f] = clients[f]
  /\ conn' \in [Conns -> ConnRec(R)]
  /\ \A c \in Conns : c \notin ConnsOf(X) => conn'[c] = conn[c]
  /\ \A c \in ConnsOf(X) : /\ conn'[c].stage = "closed" /\ conn'[c].got = conn[c].got
                           /\ conn'[c].answers = conn[c].answers

LEMMA CloseStep ==
  ASSUME NEW R, Typed(R), OwnInv, RepliesInv, NEW X, Closing(R, X)
  PROVE  Typed(R)' /\ OwnInv' /\ RepliesInv'
<1>1. Typed(R)'
  <2>1. DOMAIN clients' \subseteq Conns
    BY Zenon DEF Typed, Closing
  <2> QED
    BY <2>1, Zenon DEF Typed, Closing
<1>2. \A f \in DOMAIN clients : clients[f].conn \in Conns
  <2>1. \A f \in DOMAIN clients : clients[f] \in ClientRec(R)
    BY Zenon DEF Typed
  <2> QED
    BY <2>1 DEF ClientRec
<1>3. \A f \in DOMAIN clients' : /\ f \in DOMAIN clients /\ clients'[f] = clients[f]
                                 /\ clients[f].conn \notin ConnsOf(X)
                                 /\ conn'[clients[f].conn] = conn[clients[f].conn]
  <2> SUFFICES ASSUME NEW f \in DOMAIN clients'
               PROVE  /\ f \in DOMAIN clients /\ clients'[f] = clients[f]
                      /\ clients[f].conn \notin ConnsOf(X)
                      /\ conn'[clients[f].conn] = conn[clients[f].conn]
    OBVIOUS
  <2>1. f \in DOMAIN clients /\ f \notin X /\ clients'[f] = clients[f]
    BY Zenon DEF Closing
  <2>2. clients[f].conn \notin ConnsOf(X)
    <3> SUFFICES ASSUME NEW g \in X, clients[g].conn = clients[f].conn PROVE FALSE
      BY Zenon DEF ConnsOf
    <3>1. g \in DOMAIN clients
      BY Zenon DEF Closing
    <3> QED
      BY <2>1, <3>1, Zenon DEF OwnInv
  <2> QED
    BY <1>2, <2>1, <2>2, Zenon DEF Closing
<1>4. OwnInv'
  <2>1. ASSUME NEW f \in DOMAIN clients', NEW g \in DOMAIN clients', clients'[f].conn = clients'[g].conn
        PROVE  f = g
    <3>1. f \in DOMAIN clients /\ g \in DOMAIN clients /\ clients[f].conn = clients[g].conn
      BY <1>3, <2>1, Zenon
    <3> QED
      BY <3>1, Zenon DEF OwnInv
  <2>2. ASSUME NEW f \in DOMAIN clients' PROVE conn'[clients'[f].conn].stage = "open"
    <3>1. f \in DOMAIN clients /\ conn'[clients'[f].conn] = conn[clients[f].conn]
      BY <1>3, Zenon
    <3> QED
      BY <3>1, Zenon DEF OwnInv
  <2>3. ASSUME NEW c \in Conns, conn'[c].stage = "open" PROVE \E f \in DOMAIN clients' : clients'[f].conn = c
    <3>1. c \notin ConnsOf(X)
      <4>1. "closed" # "open"
        OBVIOUS
      <4> QED
        BY <2>3, <4>1, Zenon DEF Closing
    <3>2. conn[c].stage = "open"
      BY <2>3, <3>1, Zenon DEF Closing
    <3>3. PICK f \in DOMAIN clients : clients[f].conn = c
      BY <3>2, Zenon DEF OwnInv
    <3>4. f \in DOMAIN clients \ X
      BY <3>1, <3>3, Zenon DEF ConnsOf
    <3> QED
      BY <3>3, <3>4, Zenon DEF Closing
  <2> QED
    BY <2>1, <2>2, <2>3, Zenon DEF OwnInv
<1>5. \A c \in Conns : IsPrefix(conn'[c].got, conn'[c].answers)
  BY Zenon DEF Closing, RepliesInv
<1>6. \A c \in Conns : conn'[c].stage \in {"none", "queued"} => Fresh(conn'[c])
  <2>1. "closed" \notin {"none", "queued"}
    OBVIOUS
  <2> QED
    BY <2>1, Zenon DEF Closing, RepliesInv
<1>7. RepliesInv'
  BY <1>3, <1>5, <1>6, Zenon DEF RepliesInv
<1> QED
  BY <1>1, <1>4, <1>7

\* A client is accepted on a free descriptor.
Accepted(R, c, fd) ==
  /\ c \in Conns /\ conn[c].stage = "queued" /\ fd \in Conns \ DOMAIN clients
  /\ clients' \in [DOMAIN clients \union {fd} -> ClientRec(R)]
  /\ DOMAIN clients' = DOMAIN clients \union {fd}
  /\ clients'[fd] = [conn |-> c, read_buffer |-> <<>>, write_buffer |-> <<>>]
  /\ \A f \in DOMAIN clients : clients'[f] = clients[f]
  /\ conn' \in [Conns -> ConnRec(R)] /\ conn'[c] = [conn[c] EXCEPT !.stage = "open"]
  /\ \A d \in Conns : d # c => conn'[d] = conn[d]

LEMMA AcceptEffect ==
  ASSUME NEW R, Typed(R), OwnInv, NEW c \in Conns, Accept(c)
  PROVE  \E fd : Accepted(R, c, fd)
<1> DEFINE fd == Min(Conns \ DOMAIN clients)
           new == [conn |-> c, read_buffer |-> <<>>, write_buffer |-> <<>>]
<1>1. c \in Waiting /\ conn[c].stage = "queued"
  BY DEF Accept, Waiting
<1>2. fd \in Conns \ DOMAIN clients
  BY <1>1, FreeDescriptor, Zenon
<1>3. /\ clients' = [f \in DOMAIN clients \union {fd} |-> IF f = fd THEN new ELSE clients[f]]
      /\ conn' = [conn EXCEPT ![c] = [conn[c] EXCEPT !.stage = "open"]]
  BY Zenon DEF Accept, Conns
<1> HIDE DEF fd
<1>4. new \in ClientRec(R)
  BY DEF ClientRec
<1> HIDE DEF new
<1>5. /\ clients' \in [DOMAIN clients \union {fd} -> ClientRec(R)]
      /\ DOMAIN clients' = DOMAIN clients \union {fd} /\ clients'[fd] = new
      /\ \A f \in DOMAIN clients : clients'[f] = clients[f]
  <2>1. \A f \in DOMAIN clients : clients[f] \in ClientRec(R) /\ f # fd
    BY <1>2, Zenon DEF Typed
  <2> QED
    BY <1>3, <1>4, <2>1, Zenon
<1>6. conn[c] \in ConnRec(R) /\ conn \in [Conns -> ConnRec(R)]
  BY Zenon DEF Typed
<1>7. [conn[c] EXCEPT !.stage = "open"] \in ConnRec(R)
  BY <1>6 DEF ConnRec
<1>8. /\ conn' \in [Conns -> ConnRec(R)] /\ conn'[c] = [conn[c] EXCEPT !.stage = "open"]
      /\ \A d \in Conns : d # c => conn'[d] = conn[d]
  BY <1>3, <1>6, <1>7, Zenon
<1>9. Accepted(R, c, fd)
  BY <1>1, <1>2, <1>5, <1>8, Zenon DEF Accepted, new
<1> QED
  BY <1>9, Zenon

LEMMA AcceptStep ==
  ASSUME NEW R, Typed(R), OwnInv, RepliesInv, NEW c, NEW fd, Accepted(R, c, fd)
  PROVE  Typed(R)' /\ OwnInv' /\ RepliesInv'
<1>0. c \in Conns /\ conn[c] \in ConnRec(R)
  BY Zenon DEF Accepted, Typed
<1>1. Typed(R)'
  <2>1. DOMAIN clients' \subseteq Conns
    BY Zenon DEF Typed, Accepted
  <2> QED
    BY <2>1, Zenon DEF Typed, Accepted
<1>2. \A f \in DOMAIN clients : clients[f].conn \in Conns /\ clients[f].conn # c
  <2>1. \A f \in DOMAIN clients : clients[f] \in ClientRec(R)
    BY Zenon DEF Typed
  <2>2. \A f \in DOMAIN clients : clients[f].conn \in Conns
    BY <2>1 DEF ClientRec
  <2>3. "open" # "queued"
    OBVIOUS
  <2> QED
    BY <2>2, <2>3, Zenon DEF OwnInv, Accepted
<1>3. \A f \in DOMAIN clients : /\ clients'[f] = clients[f]
                                /\ conn'[clients[f].conn] = conn[clients[f].conn]
  BY <1>2, Zenon DEF Accepted
<1>4. clients'[fd].conn = c /\ clients'[fd].write_buffer = <<>>
  <2>1. clients'[fd] = [conn |-> c, read_buffer |-> <<>>, write_buffer |-> <<>>]
    BY Zenon DEF Accepted
  <2> QED
    BY <2>1
<1>5. /\ conn'[c].stage = "open" /\ conn'[c].got = conn[c].got /\ conn'[c].answers = conn[c].answers
  <2>1. conn'[c] = [conn[c] EXCEPT !.stage = "open"]
    BY Zenon DEF Accepted
  <2> QED
    BY <1>0, <2>1 DEF ConnRec
<1>6. \A f \in DOMAIN clients' : f = fd \/ f \in DOMAIN clients
  BY Zenon DEF Accepted
<1>7. OwnInv'
  <2>1. ASSUME NEW f \in DOMAIN clients', NEW g \in DOMAIN clients', clients'[f].conn = clients'[g].conn
        PROVE  f = g
    <3>1. CASE f \in DOMAIN clients /\ g \in DOMAIN clients
      <4>1. clients[f].conn = clients[g].conn
        BY <1>3, <2>1, <3>1, Zenon
      <4> QED
        BY <3>1, <4>1, Zenon DEF OwnInv
    <3>2. CASE ~(f \in DOMAIN clients /\ g \in DOMAIN clients)
      BY <1>2, <1>3, <1>4, <1>6, <2>1, <3>2, Zenon
    <3> QED
      BY <3>1, <3>2
  <2>2. ASSUME NEW f \in DOMAIN clients' PROVE conn'[clients'[f].conn].stage = "open"
    <3>1. CASE f = fd
      BY <1>4, <1>5, <3>1, Zenon
    <3>2. CASE f \in DOMAIN clients
      <4>1. conn[clients[f].conn].stage = "open"
        BY <3>2, Zenon DEF OwnInv
      <4>2. clients'[f] = clients[f] /\ conn'[clients[f].conn] = conn[clients[f].conn]
        BY <1>3, <3>2, Zenon
      <4> QED
        BY <4>1, <4>2, Zenon
    <3> QED
      BY <1>6, <3>1, <3>2, Zenon
  <2>3. ASSUME NEW d \in Conns, conn'[d].stage = "open" PROVE \E f \in DOMAIN clients' : clients'[f].conn = d
    <3>0. fd \in DOMAIN clients' /\ \A f \in DOMAIN clients : f \in DOMAIN clients'
      BY Zenon DEF Accepted
    <3>1. CASE d = c
      BY <1>4, <3>0, <3>1, Zenon
    <3>2. CASE d # c
      <4>1. conn[d].stage = "open"
        BY <2>3, <3>2, Zenon DEF Accepted
      <4>2. PICK f \in DOMAIN clients : clients[f].conn = d
        BY <4>1, Zenon DEF OwnInv
      <4> QED
        BY <1>3, <3>0, <4>2, Zenon
    <3> QED
      BY <3>1, <3>2
  <2> QED
    BY <2>1, <2>2, <2>3, Zenon DEF OwnInv
<1>8. conn[c].got = <<>> /\ conn[c].answers = <<>>
  <2>1. conn[c].stage \in {"none", "queued"}
    BY DEF Accepted
  <2> QED
    BY <1>0, <2>1, Zenon DEF RepliesInv, Fresh
<1>9. ASSUME NEW f \in DOMAIN clients'
      PROVE  conn'[clients'[f].conn].got \o clients'[f].write_buffer = conn'[clients'[f].conn].answers
  <2>1. CASE f = fd
    <3>1. <<>> \o <<>> = <<>>
      OBVIOUS
    <3> QED
      BY <1>4, <1>5, <1>8, <2>1, <3>1, Zenon
  <2>2. CASE f \in DOMAIN clients
    BY <1>3, <2>2, Zenon DEF RepliesInv
  <2> QED
    BY <1>6, <2>1, <2>2, Zenon
<1>10. \A d \in Conns : IsPrefix(conn'[d].got, conn'[d].answers)
  BY <1>0, <1>5, Zenon DEF Accepted, RepliesInv
<1>11. \A d \in Conns : conn'[d].stage \in {"none", "queued"} => Fresh(conn'[d])
  <2>1. "open" \notin {"none", "queued"}
    OBVIOUS
  <2> QED
    BY <1>5, <2>1, Zenon DEF Accepted, RepliesInv
<1> QED
  BY <1>1, <1>7, <1>9, <1>10, <1>11, Zenon DEF RepliesInv

\* Steps that leave the clients and their connections alone.
LEMMA QuietStep ==
  ASSUME NEW R, Typed(R), OwnInv, RepliesInv, UNCHANGED <<clients, conn>>
  PROVE  Typed(R)' /\ OwnInv' /\ RepliesInv'
<1>1. clients' = clients /\ conn' = conn
  OBVIOUS
<1>2. Typed(R)'
  BY <1>1, Zenon DEF Typed
<1>3. OwnInv'
  BY <1>1, Zenon DEF OwnInv
<1>4. RepliesInv'
  BY <1>1, Zenon DEF RepliesInv
<1> QED
  BY <1>2, <1>3, <1>4

LEMMA QuietTables ==
  ASSUME ServeInv, PfdsInv, UNCHANGED <<clients, pfds, revents, fds_to_remove, fd_added>>,
         wk_pc' = wk_pc \/ (wk_pc \notin Serving /\ wk_pc' \in {"init", "top", "poll", "done"})
  PROVE  ServeInv' /\ PfdsInv'
<1>0. /\ clients' = clients /\ pfds' = pfds /\ revents' = revents
      /\ fds_to_remove' = fds_to_remove /\ fd_added' = fd_added
  OBVIOUS
<1>1. CASE wk_pc' = wk_pc
  <2>1. ServeInv'
    BY <1>0, <1>1, Zenon DEF ServeInv
  <2>2. PfdsInv'
    BY <1>0, <1>1 DEF PfdsInv
  <2> QED
    BY <2>1, <2>2
<1>2. CASE wk_pc \notin Serving /\ wk_pc' \in {"init", "top", "poll", "done"}
  <2>0. /\ wk_pc' \notin Serving /\ wk_pc' \notin {"lines", "write"}
        /\ wk_pc' \in Serving \union {"init", "top", "poll", "done"}
    BY <1>2 DEF Serving
  <2>3. revents = <<>>
    BY <1>2, Zenon DEF ServeInv
  <2>4. /\ revents' \in Seq(Event) /\ \A i \in 1 .. Len(revents') : revents'[i].fd \in DOMAIN clients'
        /\ \A i, j \in 1 .. Len(revents') : i # j => revents'[i].fd # revents'[j].fd
    BY <1>0, Zenon DEF ServeInv
  <2>1. ServeInv'
    BY <1>0, <2>0, <2>3, <2>4, Zenon DEF ServeInv
  <2>2. PfdsInv'
    BY <1>0, <1>2, <2>0, Zenon DEF PfdsInv
  <2> QED
    BY <2>1, <2>2
<1> QED
  BY <1>1, <1>2, Zenon

\* poll() reports what the array asks for.
LEMMA PollTables ==
  ASSUME NEW R, Typed(R), ServeInv, PfdsInv, Poll
  PROVE  ServeInv' /\ PfdsInv' /\ ReportOK
<1>1. /\ wk_pc = "poll" /\ revents' = Reported /\ fds_to_remove' = {} /\ fd_added' = FALSE
      /\ clients' = clients /\ pfds' = pfds
      /\ wk_pc' = IF Waiting # {} THEN "accept" ELSE IF Reported # <<>> THEN "serve" ELSE "top"
  BY Zenon DEF Poll, NoMarks
<1>2. pfds = update_poll_descriptors(clients)
  <2>1. wk_pc \notin Serving
    BY <1>1 DEF Serving
  <2> QED
    BY <2>1, Zenon DEF PfdsInv
<1>3. ReportOK
  BY <1>2, ReportedEvents, Zenon
<1>4. /\ revents' \in Seq(Event) /\ \A i \in 1 .. Len(revents') : revents'[i].fd \in DOMAIN clients'
      /\ \A i, j \in 1 .. Len(revents') : i # j => revents'[i].fd # revents'[j].fd
  BY <1>1, <1>3, Zenon DEF ReportOK, FreshEvent
<1>5. /\ wk_pc' \in Serving \union {"init", "top", "poll", "done"} /\ wk_pc' \notin {"lines", "write"}
      /\ (wk_pc' \notin Serving => wk_pc' = "top")
  BY <1>1 DEF Serving
<1>6. wk_pc' = "top" => revents' = <<>>
  BY <1>1
<1>7. ServeInv'
  BY <1>1, <1>4, <1>5, <1>6, Zenon DEF ServeInv
<1>8. Listed(pfds', clients')
  BY <1>1, <1>2, DescriptorsListed, Zenon DEF Typed
<1>9. PfdsInv'
  BY <1>1, <1>2, <1>8, Zenon DEF PfdsInv
<1> QED
  BY <1>3, <1>7, <1>9

LEMMA AcceptTables ==
  ASSUME NEW R, ServeInv, NEW c, NEW fd, Accept(c), Accepted(R, c, fd)
  PROVE  ServeInv' /\ PfdsInv'
<1>1. wk_pc = "accept" /\ wk_pc' = "serve" /\ fd_added' = TRUE /\ revents' = revents /\ fds_to_remove' = fds_to_remove
  BY Zenon DEF Accept
<1>2. /\ wk_pc' \in Serving /\ wk_pc \in Serving /\ wk_pc' \notin {"lines", "write"}
      /\ wk_pc' \in Serving \union {"init", "top", "poll", "done"}
  BY <1>1 DEF Serving
<1>3. DOMAIN clients \subseteq DOMAIN clients'
  BY Zenon DEF Accepted
<1>4. /\ revents' \in Seq(Event) /\ \A i \in 1 .. Len(revents') : revents'[i].fd \in DOMAIN clients'
      /\ \A i, j \in 1 .. Len(revents') : i # j => revents'[i].fd # revents'[j].fd
  <2>1. /\ revents \in Seq(Event) /\ \A i \in 1 .. Len(revents) : revents[i].fd \in DOMAIN clients
        /\ \A i, j \in 1 .. Len(revents) : i # j => revents[i].fd # revents[j].fd
    BY Zenon DEF ServeInv
  <2>2. \A i \in 1 .. Len(revents) : revents[i].fd \in DOMAIN clients'
    BY <1>3, <2>1, Zenon
  <2>3. revents' = revents
    BY <1>1, Zenon
  <2> QED
    BY <2>1, <2>2, <2>3
<1>5. fds_to_remove' \subseteq DOMAIN clients'
  BY <1>1, <1>2, <1>3, Zenon DEF ServeInv
<1>6. ServeInv'
  BY <1>2, <1>4, <1>5, Zenon DEF ServeInv
<1>7. PfdsInv'
  BY <1>1, <1>2, Zenon DEF PfdsInv
<1> QED
  BY <1>6, <1>7

\* The array of no clients.
LEMMA NoDescriptors ==
  ASSUME NEW cs, DOMAIN cs = {}
  PROVE  update_poll_descriptors(cs) = <<>>
<1>1. {} \subseteq Conns
  OBVIOUS
<1>2. Len(Ascending({})) = Cardinality({}) /\ Cardinality({}) = 0
  BY <1>1, DescriptorsOrdered, FS_EmptySet, Zenon
<1>3. update_poll_descriptors(cs) = [i \in 1 .. 0 |->
         [fd |-> Ascending({})[i], out |-> cs[Ascending({})[i]].write_buffer # <<>>]]
  BY <1>2, Zenon DEF update_poll_descriptors
<1>4. \A t : t = [i \in 1 .. 0 |-> t[i]] => t = <<>>
  OBVIOUS
<1> DEFINE t == update_poll_descriptors(cs)
<1>5. t = [i \in 1 .. 0 |-> t[i]]
  BY <1>3, Zenon
<1> QED
  BY <1>4, <1>5, Zenon

\* A turn that finds the rig lost closes every client.
LEMMA TopEffect ==
  ASSUME NEW R, Typed(R), Top
  PROVE  \/ UNCHANGED <<clients, conn, pfds>>
         \/ /\ Closing(R, DOMAIN clients) /\ DOMAIN clients' = {} /\ pfds' = <<>>
            /\ rig_disconnected /\ handle # "none"
            /\ \A c \in ConnsOf(DOMAIN clients) :
                 conn'[c] = [conn[c] EXCEPT !.stage = "closed", !.ended = "rig"]
<1> SUFFICES ASSUME clients' = <<>>, pfds' = <<>>,
                    conn' = close_client(ConnsOf(DOMAIN clients), "rig"),
                    rig_disconnected, handle # "none"
             PROVE  /\ Closing(R, DOMAIN clients) /\ DOMAIN clients' = {}
                    /\ \A c \in ConnsOf(DOMAIN clients) :
                         conn'[c] = [conn[c] EXCEPT !.stage = "closed", !.ended = "rig"]
  BY Zenon DEF Top
<1> DEFINE X == ConnsOf(DOMAIN clients)
<1>1. DOMAIN clients' = {} /\ DOMAIN clients \ DOMAIN clients = {}
  BY SMT
<1>2. clients' \in [{} -> ClientRec(R)]
  BY <1>1
<1>3. conn' = [c \in Conns |-> IF c \in X THEN [conn[c] EXCEPT !.stage = "closed", !.ended = "rig"] ELSE conn[c]]
  BY Zenon DEF close_client
<1>4. X \subseteq Conns
  <2>1. \A f \in DOMAIN clients : clients[f] \in ClientRec(R)
    BY Zenon DEF Typed
  <2>2. \A f \in DOMAIN clients : clients[f].conn \in Conns
    BY <2>1 DEF ClientRec
  <2> QED
    BY <2>2, Zenon DEF ConnsOf
<1> HIDE DEF X
<1>5. \A k \in ConnRec(R) : LET e == [k EXCEPT !.stage = "closed", !.ended = "rig"]
                            IN  /\ e \in ConnRec(R) /\ e.stage = "closed" /\ e.got = k.got
                                /\ e.answers = k.answers /\ e.ended = "rig"
  BY DEF ConnRec
<1>6. \A c \in Conns : conn[c] \in ConnRec(R)
  BY Zenon DEF Typed
<1>7. conn' \in [Conns -> ConnRec(R)]
  BY <1>3, <1>5, <1>6, Zenon
<1>8. \A c \in Conns : c \notin X => conn'[c] = conn[c]
  BY <1>3, Zenon
<1>9. \A c \in X : /\ conn'[c].stage = "closed" /\ conn'[c].got = conn[c].got
                   /\ conn'[c].answers = conn[c].answers /\ conn'[c].ended = "rig"
  <2> SUFFICES ASSUME NEW c \in X
               PROVE  /\ conn'[c].stage = "closed" /\ conn'[c].got = conn[c].got
                      /\ conn'[c].answers = conn[c].answers /\ conn'[c].ended = "rig"
    OBVIOUS
  <2>1. conn'[c] = [conn[c] EXCEPT !.stage = "closed", !.ended = "rig"] /\ conn[c] \in ConnRec(R)
    BY <1>3, <1>4, <1>6, Zenon
  <2> QED
    BY <1>5, <2>1, Zenon
<1>10. Closing(R, DOMAIN clients)
  BY <1>1, <1>2, <1>7, <1>8, <1>9, Zenon DEF Closing, X
<1>11. \A c \in X : conn'[c] = [conn[c] EXCEPT !.stage = "closed", !.ended = "rig"]
  BY <1>3, <1>4, Zenon
<1> QED
  BY <1>1, <1>10, <1>11, Zenon DEF X

LEMMA TopTables ==
  ASSUME NEW R, Typed(R), ServeInv, PfdsInv, Top
  PROVE  ServeInv' /\ PfdsInv'
<1>1. /\ wk_pc = "top" /\ wk_pc' = "poll" /\ revents' = revents
      /\ fds_to_remove' = fds_to_remove /\ fd_added' = fd_added
  BY Zenon DEF Top
<1>2. /\ wk_pc \notin Serving /\ wk_pc' \in {"init", "top", "poll", "done"} /\ wk_pc' \notin Serving
      /\ wk_pc' \notin {"lines", "write"}
      /\ wk_pc' \in Serving \union {"init", "top", "poll", "done"}
  BY <1>1 DEF Serving
<1>3. CASE UNCHANGED <<clients, conn, pfds>>
  BY <1>1, <1>2, <1>3, QuietTables, Zenon
<1>4. CASE DOMAIN clients' = {} /\ pfds' = <<>>
  <2>1. revents' = <<>> /\ \A i \in 1 .. Len(<<>>) : FALSE
    <3>1. revents' = <<>>
      BY <1>1, <1>2, Zenon DEF ServeInv
    <3> QED
      BY <3>1
  <2>2. <<>> \in Seq(Event)
    OBVIOUS
  <2>3. ServeInv'
    BY <1>2, <2>1, <2>2, Zenon DEF ServeInv
  <2>4. PfdsInv'
    <3>1. pfds' = update_poll_descriptors(clients')
      BY <1>4, NoDescriptors, Zenon
    <3> QED
      BY <1>2, <3>1, Zenon DEF PfdsInv
  <2> QED
    BY <2>3, <2>4
<1> QED
  BY <1>3, <1>4, TopEffect, Zenon

\* The end of a turn closes the clients that are marked.
LEMMA SweepEffect ==
  ASSUME NEW R, Typed(R), ServeInv, Sweep
  PROVE  /\ Closing(R, fds_to_remove)
         /\ \A c \in ConnsOf(fds_to_remove) : conn'[c] = [conn[c] EXCEPT !.stage = "closed"]
<1> DEFINE X == fds_to_remove
           C == ConnsOf(X)
<1>1. /\ clients' = [f \in DOMAIN clients \ X |-> clients[f]]
      /\ conn' = [c \in Conns |-> IF c \in C THEN [conn[c] EXCEPT !.stage = "closed"] ELSE conn[c]]
  BY Zenon DEF Sweep
<1>2. X \subseteq DOMAIN clients
  <2>1. wk_pc \in Serving
    BY DEF Sweep, Serving
  <2> QED
    BY <2>1, Zenon DEF ServeInv
<1>3. C \subseteq Conns
  <2>1. \A f \in DOMAIN clients : clients[f] \in ClientRec(R)
    BY Zenon DEF Typed
  <2>2. \A f \in DOMAIN clients : clients[f].conn \in Conns
    BY <2>1 DEF ClientRec
  <2> QED
    BY <1>2, <2>2, Zenon DEF ConnsOf
<1>4. /\ DOMAIN clients' = DOMAIN clients \ X /\ clients' \in [DOMAIN clients \ X -> ClientRec(R)]
      /\ \A f \in DOMAIN clients \ X : clients'[f] = clients[f]
  <2>1. \A f \in DOMAIN clients : clients[f] \in ClientRec(R)
    BY Zenon DEF Typed
  <2> QED
    BY <1>1, <2>1, Zenon
<1> HIDE DEF C
<1>5. \A k \in ConnRec(R) : LET e == [k EXCEPT !.stage = "closed"]
                            IN  /\ e \in ConnRec(R) /\ e.stage = "closed" /\ e.got = k.got
                                /\ e.answers = k.answers
  BY DEF ConnRec
<1>6. \A c \in Conns : conn[c] \in ConnRec(R)
  BY Zenon DEF Typed
<1>7. conn' \in [Conns -> ConnRec(R)]
  BY <1>1, <1>5, <1>6, Zenon
<1>8. \A c \in Conns : c \notin C => conn'[c] = conn[c]
  BY <1>1, Zenon
<1>9. \A c \in C : conn'[c] = [conn[c] EXCEPT !.stage = "closed"] /\ conn[c] \in ConnRec(R)
  BY <1>1, <1>3, <1>6, Zenon
<1>11. ASSUME NEW c \in C
       PROVE  /\ conn'[c].stage = "closed" /\ conn'[c].got = conn[c].got
              /\ conn'[c].answers = conn[c].answers
  <2>1. conn'[c] = [conn[c] EXCEPT !.stage = "closed"] /\ conn[c] \in ConnRec(R)
    BY <1>9, Zenon
  <2> QED
    BY <1>5, <2>1, Zenon
<1>10. Closing(R, X)
  BY <1>2, <1>4, <1>7, <1>8, <1>11, Zenon DEF Closing, C
<1> QED
  BY <1>9, <1>10, Zenon DEF C

LEMMA SweepTables ==
  ASSUME NEW R, Typed(R), ServeInv, PfdsInv, Sweep
  PROVE  ServeInv' /\ PfdsInv'
<1>1. wk_pc = "serve" /\ wk_pc' = "top" /\ revents = <<>> /\ revents' = revents /\ pfds' = Renewed(clients')
  BY Zenon DEF Sweep
<1>2. /\ wk_pc \in Serving /\ wk_pc' \notin Serving /\ wk_pc' \notin {"lines", "write"}
      /\ wk_pc' \in Serving \union {"init", "top", "poll", "done"}
  BY <1>1 DEF Serving
<1>3. revents' = <<>> /\ <<>> \in Seq(Event) /\ \A i \in 1 .. Len(<<>>) : FALSE
  BY <1>1
<1>4. ServeInv'
  BY <1>2, <1>3, Zenon DEF ServeInv
<1>5. pfds' = update_poll_descriptors(clients')
  <2>1. CASE fd_added \/ fds_to_remove # {}
    BY <1>1, <2>1, Zenon DEF Renewed
  <2>2. CASE ~(fd_added \/ fds_to_remove # {})
    <3>1. pfds' = update_poll_flags(pfds, clients')
      BY <1>1, <2>2, Zenon DEF Renewed
    <3>2. Listed(pfds, clients)
      BY <1>2, <2>2, Zenon DEF PfdsInv
    <3>3. DOMAIN clients' = DOMAIN clients
      <4>1. DOMAIN clients' = DOMAIN clients \ fds_to_remove
        BY SweepEffect, Zenon DEF Closing
      <4> QED
        BY <2>2, <4>1
    <3>4. Listed(pfds, clients') /\ DOMAIN clients' \subseteq Conns
      BY <3>2, <3>3, Zenon DEF Listed, Typed
    <3> QED
      BY <3>1, <3>4, FlagsSuffice, Zenon
  <2> QED
    BY <2>1, <2>2
<1>6. PfdsInv'
  BY <1>2, <1>5, Zenon DEF PfdsInv
<1> QED
  BY <1>4, <1>6

-----------------------------------------------------------------------------
(* The inductive invariant, and what follows from it.                      *)

SomeReplies == \E R : Typed(R)

TableInv == HandleInv /\ SomeReplies /\ OwnInv /\ ServeInv /\ PfdsInv /\ RepliesInv

LEMMA TableInit ==
  ASSUME Init
  PROVE  TableInv
<1>1. DOMAIN clients = {}
  BY DEF Init
<1>2. HandleInv
  BY DEF Init, HandleInv
<1>3. \A c \in Conns : conn[c] = NewConn
  BY Zenon DEF Init
<1>4. NewConn \in ConnRec({}) /\ NewConn.stage = "none" /\ Fresh(NewConn) /\ IsPrefix(NewConn.got, NewConn.answers)
  <2>1. /\ <<>> \in Seq(Pieces) /\ <<>> \in Seq({}) /\ 0 \in 0 .. Window
        /\ 0 \in Nat
    OBVIOUS
  <2>2. NewConn \in ConnRec({}) /\ NewConn.stage = "none" /\ Fresh(NewConn)
    BY <2>1 DEF NewConn, ConnRec, Fresh
  <2>3. NewConn.got = <<>> /\ NewConn.answers = <<>>
    BY DEF NewConn
  <2>4. IsPrefix(<<>>, <<>>)
    BY DEF IsPrefix
  <2> QED
    BY <2>2, <2>3, <2>4, Zenon
<1>5. Typed({})
  <2>1. conn \in [Conns -> ConnRec({})]
    BY <1>4, Zenon DEF Init
  <2>2. clients \in [DOMAIN clients -> ClientRec({})]
    <3>1. clients = <<>>
      BY Zenon DEF Init
    <3> QED
      BY <3>1
  <2> QED
    BY <1>1, <2>1, <2>2, Zenon DEF Typed
<1>6. OwnInv
  <2>1. "none" # "open"
    OBVIOUS
  <2> QED
    BY <1>1, <1>3, <1>4, <2>1, Zenon DEF OwnInv
<1>7. ServeInv
  <2>1. wk_pc = "init" /\ revents = <<>>
    BY Zenon DEF Init
  <2> QED
    BY <2>1 DEF ServeInv, Serving
<1>8. PfdsInv
  <2>1. pfds = <<>> /\ wk_pc \notin Serving
    BY DEF Init, Serving
  <2>2. update_poll_descriptors(clients) = <<>>
    BY <1>1, NoDescriptors, Zenon
  <2> QED
    BY <2>1, <2>2, Zenon DEF PfdsInv
<1>9. RepliesInv
  BY <1>1, <1>3, <1>4, Zenon DEF RepliesInv
<1> QED
  BY <1>2, <1>5, <1>6, <1>7, <1>8, <1>9, Zenon DEF TableInv, SomeReplies

\* Steps that leave the clients, their connections and the tables alone.
Quiet ==
  /\ UNCHANGED <<clients, conn, pfds, revents, fds_to_remove, fd_added>>
  /\ wk_pc' = wk_pc \/ (wk_pc \notin Serving /\ wk_pc' \in {"init", "top", "poll", "done"})

LEMMA StepKinds ==
  ASSUME [Next]_vars
  PROVE  \/ Quiet
         \/ Top \/ Poll \/ ServeStep \/ Sweep
         \/ \E c \in Conns : Accept(c)
         \/ \E c \in Conns : EndSteps(c) /\ UNCHANGED worker
<1>1. CASE Start \/ Exit
  BY <1>1 DEF Start, Exit, outside, Quiet, Serving
<1>2. CASE Unplug \/ Plug \/ Sleep \/ Stop \/ Joined
  BY <1>2, Zenon DEF Unplug, Plug, Sleep, Stop, Joined, outside, worker, Quiet
<1>3. CASE UNCHANGED vars
  BY <1>3, Zenon DEF vars, worker, outside, Quiet
<1>4. ASSUME NEW c \in Conns, Connect(c) \/ Finish(c) \/ Reset(c) \/ Drain(c)
      PROVE  EndSteps(c) /\ UNCHANGED worker
  BY <1>4, Zenon DEF EndSteps, Connect, Finish, Reset, Drain, Client
<1>5. ASSUME NEW c \in Conns, NEW cmd \in Commands, Send(c, cmd)
      PROVE  EndSteps(c) /\ UNCHANGED worker
  BY <1>5, Zenon DEF EndSteps, Send, Client
<1>6. CASE ServeError \/ Read \/ Write \/ \E junk \in Junk : Interpret(junk)
  BY <1>6, Zenon DEF ServeStep
<1> QED
  BY <1>1, <1>2, <1>3, <1>4, <1>5, <1>6, NextSteps, Zenon

LEMMA TableStep ==
  ASSUME TableInv, [Next]_vars
  PROVE  TableInv'
<1>0. HandleInv'
  BY HandleStep, Zenon DEF TableInv
<1> SUFFICES SomeReplies' /\ OwnInv' /\ ServeInv' /\ PfdsInv' /\ RepliesInv'
  BY <1>0, Zenon DEF TableInv
<1>1. PICK R : Typed(R)
  BY Zenon DEF TableInv, SomeReplies
<1>2. HandleInv /\ OwnInv /\ ServeInv /\ PfdsInv /\ RepliesInv
  BY Zenon DEF TableInv
<1>3. ASSUME NEW Q, Typed(Q)' PROVE SomeReplies'
  BY <1>3, Zenon DEF SomeReplies
<1>4. CASE Quiet
  <2>1. Typed(R)' /\ OwnInv' /\ RepliesInv'
    <3>1. UNCHANGED <<clients, conn>>
      BY <1>4, Zenon DEF Quiet
    <3> QED
      BY <1>1, <1>2, <3>1, QuietStep, Zenon
  <2>2. ServeInv' /\ PfdsInv'
    BY <1>2, <1>4, QuietTables, Zenon DEF Quiet
  <2> QED
    BY <1>3, <2>1, <2>2, Zenon
<1>5. CASE Top
  <2>1. ServeInv' /\ PfdsInv'
    BY <1>1, <1>2, <1>5, TopTables, Zenon
  <2>2. CASE UNCHANGED <<clients, conn, pfds>>
    <3>1. Typed(R)' /\ OwnInv' /\ RepliesInv'
      BY <1>1, <1>2, <2>2, QuietStep, Zenon
    <3> QED
      BY <1>3, <2>1, <3>1, Zenon
  <2>3. CASE Closing(R, DOMAIN clients)
    <3>1. Typed(R)' /\ OwnInv' /\ RepliesInv'
      BY <1>1, <1>2, <2>3, CloseStep, Zenon
    <3> QED
      BY <1>3, <2>1, <3>1, Zenon
  <2> QED
    BY <1>1, <1>5, <2>2, <2>3, TopEffect, Zenon
<1>6. CASE Poll
  <2>1. ServeInv' /\ PfdsInv'
    BY <1>1, <1>2, <1>6, PollTables, Zenon
  <2>2. UNCHANGED <<clients, conn>>
    BY <1>6, Zenon DEF Poll, outside
  <2>3. Typed(R)' /\ OwnInv' /\ RepliesInv'
    BY <1>1, <1>2, <2>2, QuietStep, Zenon
  <2> QED
    BY <1>3, <2>1, <2>3, Zenon
<1>7. CASE ServeStep
  <2>1. ServeMoves
    BY <1>2, <1>7, ServeStepMoves, Zenon
  <2>2. Served \in DOMAIN clients
    BY <1>1, <1>2, <2>1, ServedTyped, Zenon DEF ServeMoves
  <2>3. PICK Q, e, q : R \subseteq Q /\ OneServed(Q, e, q)
    BY <1>1, <1>2, <1>7, ServeEffect, Zenon
  <2>4. Typed(Q)' /\ OwnInv' /\ RepliesInv' /\ DOMAIN clients' = DOMAIN clients
    BY <1>1, <1>2, <2>2, <2>3, ServedStep, Zenon
  <2>5. ServeInv' /\ PfdsInv'
    BY <1>1, <1>2, <2>1, <2>4, ServedTables, Zenon
  <2> QED
    BY <1>3, <2>4, <2>5, Zenon
<1>8. CASE Sweep
  <2>1. ServeInv' /\ PfdsInv'
    BY <1>1, <1>2, <1>8, SweepTables, Zenon
  <2>2. Closing(R, fds_to_remove)
    BY <1>1, <1>2, <1>8, SweepEffect, Zenon
  <2>3. Typed(R)' /\ OwnInv' /\ RepliesInv'
    BY <1>1, <1>2, <2>2, CloseStep, Zenon
  <2> QED
    BY <1>3, <2>1, <2>3, Zenon
<1>9. ASSUME NEW c \in Conns, Accept(c)
      PROVE  SomeReplies' /\ OwnInv' /\ ServeInv' /\ PfdsInv' /\ RepliesInv'
  <2>1. PICK fd : Accepted(R, c, fd)
    BY <1>1, <1>2, <1>9, AcceptEffect, Zenon
  <2>2. Typed(R)' /\ OwnInv' /\ RepliesInv'
    BY <1>1, <1>2, <2>1, AcceptStep, Zenon
  <2>3. ServeInv' /\ PfdsInv'
    BY <1>2, <1>9, <2>1, AcceptTables, Zenon
  <2> QED
    BY <1>3, <2>2, <2>3, Zenon
<1>10. ASSUME NEW c \in Conns, EndSteps(c), UNCHANGED worker
       PROVE  SomeReplies' /\ OwnInv' /\ ServeInv' /\ PfdsInv' /\ RepliesInv'
  <2>1. PICK k : OneEnd(R, c, k)
    BY <1>1, <1>10, EndEffect, Zenon
  <2>2. Typed(R)' /\ OwnInv' /\ RepliesInv'
    BY <1>1, <1>2, <1>10, <2>1, EndStep, Zenon
  <2>3. UNCHANGED <<clients, pfds, revents, fds_to_remove, fd_added>> /\ wk_pc' = wk_pc
    BY <1>10, Zenon DEF worker
  <2>4. ServeInv' /\ PfdsInv'
    BY <1>2, <2>3, QuietTables, Zenon
  <2> QED
    BY <1>3, <2>2, <2>4, Zenon
<1> QED
  BY <1>4, <1>5, <1>6, <1>7, <1>8, <1>9, <1>10, StepKinds, Zenon

LEMMA TableInvariant == Spec => []TableInv
<1>1. Init => TableInv
  BY TableInit
<1>2. TableInv /\ [Next]_vars => TableInv'
  BY TableStep
<1> QED
  BY <1>1, <1>2, PTL DEF Spec

\* One client record for every open connection.
LEMMA OneOwner ==
  ASSUME OwnInv
  PROVE  DescriptorsOwned
<1> SUFFICES ASSUME NEW c \in Conns
             PROVE  Cardinality({fd \in DOMAIN clients : clients[fd].conn = c})
                      = IF conn[c].stage = "open" THEN 1 ELSE 0
  BY Zenon DEF DescriptorsOwned
<1> DEFINE S == {fd \in DOMAIN clients : clients[fd].conn = c}
<1>1. CASE conn[c].stage = "open"
  <2>1. PICK f \in DOMAIN clients : clients[f].conn = c
    BY <1>1, Zenon DEF OwnInv
  <2>2. S = {f}
    <3>1. \A g \in DOMAIN clients : clients[g].conn = c => g = f
      BY <2>1, Zenon DEF OwnInv
    <3> QED
      BY <2>1, <3>1, Zenon
  <2>3. Cardinality({f}) = 1
    BY FS_Singleton, Zenon
  <2> QED
    BY <1>1, <2>2, <2>3, Zenon
<1>2. CASE conn[c].stage # "open"
  <2>1. S = {}
    <3>1. \A f \in DOMAIN clients : conn[clients[f].conn].stage = "open"
      BY Zenon DEF OwnInv
    <3> QED
      BY <1>2, <3>1
  <2>2. Cardinality({}) = 0
    BY FS_EmptySet, Zenon
  <2> QED
    BY <1>2, <2>1, <2>2, Zenon
<1> QED
  BY <1>1, <1>2

(* The descriptors, the map of clients and the array given to poll() agree *)
(* whatever comes and goes in one turn of work(): every open connection    *)
(* has one client record, the array that is polled is the one a full       *)
(* rebuild would give, and every event is of a client that is there.       *)
THEOREM TablesAgree == Spec => []ClientTablesAgree
<1>1. TableInv => ClientTablesAgree
  <2> SUFFICES ASSUME TableInv PROVE ClientTablesAgree
    OBVIOUS
  <2>1. DescriptorsOwned
    BY OneOwner, Zenon DEF TableInv
  <2>2. wk_pc = "poll" => pfds = update_poll_descriptors(clients)
    <3>1. wk_pc = "poll" => wk_pc \notin Serving
      BY DEF Serving
    <3> QED
      BY <3>1, Zenon DEF TableInv, PfdsInv
  <2>3. \A i \in 1 .. Len(revents) : revents[i].fd \in DOMAIN clients
    BY Zenon DEF TableInv, ServeInv
  <2> QED
    BY <2>1, <2>2, <2>3, Zenon DEF ClientTablesAgree
<1> QED
  BY <1>1, TableInvariant, PTL

(* What a client has been sent and what waits for it are the replies to    *)
(* its lines, in order, none lost and none repeated: through partial       *)
(* writes, the flush of a quit and the reuse of its descriptor.            *)
THEOREM RepliesAreOrdered == Spec => []RepliesInOrder
<1>1. TableInv => RepliesInOrder
  BY Zenon DEF TableInv, RepliesInv, RepliesInOrder
<1> QED
  BY <1>1, TableInvariant, PTL

\* Only a turn that finds the rig lost ends a client for the rig.
LEMMA EndedForRig ==
  ASSUME TableInv, [Next]_vars, NEW c \in Conns, conn'[c].ended = "rig", conn[c].ended # "rig"
  PROVE  absent
<1>1. PICK R : Typed(R)
  BY Zenon DEF TableInv, SomeReplies
<1>2. HandleInv /\ OwnInv /\ ServeInv /\ PfdsInv /\ RepliesInv
  BY Zenon DEF TableInv
<1>3. conn[c] \in ConnRec(R) /\ conn \in [Conns -> ConnRec(R)]
  BY <1>1, Zenon DEF Typed
<1>4. conn' # conn
  OBVIOUS
<1>5. CASE Quiet \/ Poll
  BY <1>4, <1>5, Zenon DEF Quiet, Poll, outside
<1>6. CASE Top
  <2>1. rig_disconnected /\ handle # "none"
    BY <1>1, <1>4, <1>6, TopEffect, Zenon
  <2> QED
    BY <1>2, <2>1, Zenon DEF HandleInv
<1>7. CASE ServeStep
  <2>1. ServeMoves
    BY <1>2, <1>7, ServeStepMoves, Zenon
  <2>2. Self \in Conns
    BY <1>1, <1>2, <2>1, ServedTyped, Zenon DEF ServeMoves
  <2>3. PICK Q, e, q : R \subseteq Q /\ OneServed(Q, e, q)
    BY <1>1, <1>2, <1>7, ServeEffect, Zenon
  <2>4. conn' = [conn EXCEPT ![Self] = e] /\ (e.ended = "rig" => conn[Self].ended = "rig")
    BY <2>3, Zenon DEF OneServed
  <2> QED
    BY <1>3, <2>2, <2>4
<1>8. CASE Sweep
  <2>1. CASE c \in ConnsOf(fds_to_remove)
    <3>1. conn'[c] = [conn[c] EXCEPT !.stage = "closed"]
      BY <1>1, <1>2, <1>8, <2>1, SweepEffect, Zenon
    <3> QED
      BY <1>3, <3>1 DEF ConnRec
  <2>2. CASE c \notin ConnsOf(fds_to_remove)
    <3>1. Closing(R, fds_to_remove)
      BY <1>1, <1>2, <1>8, SweepEffect, Zenon
    <3> QED
      BY <2>2, <3>1, Zenon DEF Closing
  <2> QED
    BY <2>1, <2>2
<1>9. ASSUME NEW d \in Conns, Accept(d) PROVE absent
  <2>1. PICK fd : Accepted(R, d, fd)
    BY <1>1, <1>2, <1>9, AcceptEffect, Zenon
  <2>2. conn'[d] = [conn[d] EXCEPT !.stage = "open"] /\ (c # d => conn'[c] = conn[c])
    BY <2>1, Zenon DEF Accepted
  <2> QED
    BY <1>3, <2>2 DEF ConnRec
<1>10. ASSUME NEW d \in Conns, EndSteps(d) PROVE absent
  <2>1. PICK k : OneEnd(R, d, k)
    BY <1>1, <1>10, EndEffect, Zenon
  <2>2. conn' = [conn EXCEPT ![d] = k] /\ k.ended = conn[d].ended
    BY <2>1, Zenon DEF OneEnd
  <2> QED
    BY <1>3, <2>2
<1> QED
  BY <1>5, <1>6, <1>7, <1>8, <1>9, <1>10, StepKinds, Zenon

(* No client loses its connection for the rig unless the device was gone   *)
(* since the rig was opened: a rig in standby, which fails every call,     *)
(* costs nobody a connection (on_rig_disconnect tests for the device).     *)
THEOREM StandbyIsHarmless == Spec => StandbyKeepsClients
<1>1. TableInv /\ [Next]_vars
        => [\A c \in Conns : (conn'[c].ended = "rig" /\ conn[c].ended # "rig") => absent]_vars
  BY EndedForRig, Zenon
<1> QED
  BY <1>1, TableInvariant, PTL DEF Spec, StandbyKeepsClients


-----------------------------------------------------------------------------
(* The worker as a service.                                                *)

\* How the main thread sees the worker.
Thread == CASE ~alive \/ wk_pc = "done" -> "ended"
            [] wk_pc = "init" -> "starting" [] OTHER -> "running"

Flag == alive /\ is_running

FlagInv == alive \in BOOLEAN /\ is_running \in BOOLEAN

\* Between two steps of its life the worker neither begins nor ends.
Running == {"top", "poll", "accept", "serve", "lines", "write"}

LEMMA FlagStep ==
  ASSUME FlagInv, [Next]_vars
  PROVE  FlagInv'
<1>1. CASE Write
  <2>1. alive' \in BOOLEAN
    <3>1. alive' = alive \/ \E k : Piped(k)
      BY <1>1, Zenon DEF Write
    <3> QED
      BY <3>1 DEF FlagInv, Piped
  <2>2. is_running' = is_running
    BY <1>1, Zenon DEF Write
  <2> QED
    BY <2>1, <2>2, Zenon DEF FlagInv
<1>2. ASSUME NEW junk \in Junk, Interpret(junk) PROVE FlagInv'
  <2>1. alive' \in BOOLEAN
    <3>1. alive' = alive \/ \E k : Piped(k)
      BY <1>2, Zenon DEF Interpret
    <3> QED
      BY <3>1 DEF FlagInv, Piped
  <2>2. is_running' = is_running
    BY <1>2, Zenon DEF Interpret
  <2> QED
    BY <2>1, <2>2, Zenon DEF FlagInv
<1>3. CASE Start \/ Stop
  BY <1>3 DEF Start, Stop, FlagInv
<1>4. CASE Top \/ Poll \/ ServeError \/ Read \/ Sweep \/ Exit \/ \E c \in Conns : Accept(c)
  <2>1. alive' = alive /\ is_running' = is_running
    BY <1>4, Zenon DEF Top, Poll, ServeError, Read, Sweep, Exit, Accept
  <2> QED
    BY <2>1, Zenon DEF FlagInv
<1>5. CASE \/ Unplug \/ Plug \/ Sleep \/ Joined \/ UNCHANGED vars
           \/ \E c \in Conns : Connect(c) \/ Finish(c) \/ Reset(c) \/ Drain(c)
           \/ \E c \in Conns, cmd \in Commands : Send(c, cmd)
  <2>1. alive' = alive /\ is_running' = is_running
    BY <1>5, Zenon DEF Unplug, Plug, Sleep, Joined, vars, worker, Connect, Finish, Reset,
                       Drain, Send, Client
  <2> QED
    BY <2>1, Zenon DEF FlagInv
<1> QED
  BY <1>1, <1>2, <1>3, <1>4, <1>5, NextSteps, Zenon

LEMMA FlagInvariant == Spec => []FlagInv
<1>1. Init => FlagInv
  BY DEF Init, FlagInv
<1>2. FlagInv /\ [Next]_vars => FlagInv'
  BY FlagStep
<1> QED
  BY <1>1, <1>2, PTL DEF Spec

\* A step of the server is a step of the service, or none it can see.
LEMMA ServiceStep ==
  ASSUME FlagInv, FlagInv', ServeInv, [Next]_vars
  PROVE  [Worker_as_Service!Next]_(Worker_as_Service!state)
<1> USE DEF FlagInv
<1>0. /\ Thread' = CASE ~alive' \/ wk_pc' = "done" -> "ended"
                     [] wk_pc' = "init" -> "starting" [] OTHER -> "running"
      /\ Flag' = (alive' /\ is_running')
  BY DEF Thread, Flag
<1>1. [Worker_as_Service!Next]_(Worker_as_Service!state) <=>
        \/ Thread = "starting" /\ Thread' = "running" /\ Flag' \in {Flag, TRUE}
        \/ Flag /\ Flag' = FALSE /\ Thread' = Thread
        \/ Thread = "running" /\ ~Flag /\ Thread' = "ended" /\ Flag' = Flag
        \/ Thread' = "ended" /\ Flag' = FALSE
        \/ Thread' = Thread /\ Flag' = Flag
  BY DEF Worker_as_Service!Next, Worker_as_Service!Begin, Worker_as_Service!Stop,
         Worker_as_Service!End, Worker_as_Service!Killed, Worker_as_Service!state, Thread, Flag
<1>2. CASE Start
  BY <1>0, <1>1, <1>2 DEF Start, Thread, Flag
<1>3. CASE Exit
  BY <1>0, <1>1, <1>3 DEF Exit, Thread, Flag
<1>4. CASE Stop
  BY <1>0, <1>1, <1>4 DEF Stop, Thread, Flag
<1>5. ASSUME wk_pc \in Running, wk_pc' \in Running, is_running' = is_running
      PROVE  [Worker_as_Service!Next]_(Worker_as_Service!state)
  <2>1. CASE alive' = alive
    BY <1>0, <1>1, <1>5, <2>1 DEF Running, Thread, Flag
  <2>2. CASE alive' = FALSE
    <3>1. ~alive'
      BY <2>2
    <3>2. Flag' = FALSE
      BY <1>0, <3>1
    <3>3. Thread' = "ended"
      BY <1>0, <1>5, <3>1 DEF Running
    <3> QED
      BY <1>1, <3>2, <3>3, Zenon
  <2>3. CASE alive' # alive /\ alive' # FALSE
    <3>1. ~alive
      BY <2>3
    <3>2. UNCHANGED vars
      BY <3>1, Zenon DEF Next
    <3> QED
      BY <2>3, <3>2, Zenon DEF vars
  <2> QED
    BY <2>1, <2>2, <2>3, Zenon
<1>6. CASE Top \/ Poll \/ Sweep \/ \E c \in Conns : Accept(c)
  <2>1. is_running' = is_running
    BY <1>6, Zenon DEF Top, Poll, Sweep, Accept
  <2>2. wk_pc \in Running /\ wk_pc' \in Running
    BY <1>6 DEF Top, Poll, Sweep, Accept, Running
  <2> QED
    BY <1>5, <2>1, <2>2, Zenon
<1>7. CASE ServeStep
  <2>1. is_running' = is_running
    BY <1>7, Zenon DEF ServeStep, ServeError, Read, Write, Interpret
  <2>2. wk_pc \in Running /\ wk_pc' \in Running
    <3>1. ServeMoves
      BY <1>7, ServeStepMoves, Zenon
    <3> QED
      BY <3>1 DEF ServeMoves, Running
  <2> QED
    BY <1>5, <2>1, <2>2, Zenon
<1>8. CASE \/ Unplug \/ Plug \/ Sleep \/ Joined \/ UNCHANGED vars
           \/ \E c \in Conns : Connect(c) \/ Finish(c) \/ Reset(c) \/ Drain(c)
           \/ \E c \in Conns, cmd \in Commands : Send(c, cmd)
  <2>1. alive' = alive /\ is_running' = is_running /\ wk_pc' = wk_pc
    BY <1>8, Zenon DEF Unplug, Plug, Sleep, Joined, vars, worker, Connect, Finish, Reset,
                       Drain, Send, Client
  <2>2. Thread' = Thread /\ Flag' = Flag
    BY <2>1, Zenon DEF Thread, Flag
  <2> QED
    BY <1>1, <2>2, Zenon
<1> QED
  BY <1>2, <1>3, <1>4, <1>6, <1>7, <1>8, NextSteps, Zenon DEF ServeStep

(* The safety of ImplementsService: seen from the main thread the server   *)
(* is a Service.  Its worker begins once, ends only after its flag was     *)
(* cleared, and never begins again; or the process is killed.              *)
THEOREM WorkerIsService ==
  Spec => Worker_as_Service!Init /\ [][Worker_as_Service!Next]_(Worker_as_Service!state)
<1>1. Init => Worker_as_Service!Init
  BY DEF Init, Worker_as_Service!Init
<1>2. FlagInv /\ FlagInv' /\ TableInv /\ [Next]_vars
        => [Worker_as_Service!Next]_(Worker_as_Service!state)
  BY ServiceStep, Zenon DEF TableInv
<1> QED
  BY <1>1, <1>2, FlagInvariant, TableInvariant, PTL DEF Spec

-----------------------------------------------------------------------------
(* Type correctness.                                                       *)

StopTyped == stopping \in {"no", "joining", "joined"}

LEMMA StopStep ==
  ASSUME StopTyped, [Next]_vars
  PROVE  StopTyped'
<1>1. CASE Stop \/ Joined
  <2>1. stopping' = "joining" \/ stopping' = "joined"
    BY <1>1, Zenon DEF Stop, Joined
  <2> QED
    BY <2>1 DEF StopTyped
<1>2. CASE \/ Start \/ Top \/ Poll \/ ServeError \/ Read \/ Write \/ Sweep \/ Exit
           \/ \E c \in Conns : Accept(c)
           \/ \E junk \in Junk : Interpret(junk)
  <2>1. stopping' = stopping
    BY <1>2, Zenon DEF Start, Top, Poll, ServeError, Read, Write, Sweep, Exit, Accept, Interpret
  <2> QED
    BY <2>1, Zenon DEF StopTyped
<1>3. CASE \/ Unplug \/ Plug \/ Sleep \/ UNCHANGED vars
           \/ \E c \in Conns : Connect(c) \/ Finish(c) \/ Reset(c) \/ Drain(c)
           \/ \E c \in Conns, cmd \in Commands : Send(c, cmd)
  <2>1. stopping' = stopping
    BY <1>3, Zenon DEF Unplug, Plug, Sleep, vars, Connect, Finish, Reset, Drain, Send, Client
  <2> QED
    BY <2>1, Zenon DEF StopTyped
<1> QED
  BY <1>1, <1>2, <1>3, NextSteps, Zenon

LEMMA TablesTyped ==
  ASSUME TableInv, FlagInv, StopTyped
  PROVE  TypeOK
<1>1. PICK R : Typed(R)
  BY Zenon DEF TableInv, SomeReplies
<1>2. HandleInv /\ ServeInv
  BY Zenon DEF TableInv
<1>3. wk_pc \in {"init", "top", "poll", "accept", "serve", "lines", "write", "done"}
  BY <1>2 DEF ServeInv, Serving
<1>4. DOMAIN clients \subseteq 1 .. NConns
  BY <1>1, Zenon DEF Typed, Conns
<1>5. wk_pc \in {"serve", "lines", "write"} => fds_to_remove \subseteq DOMAIN clients
  <2>1. wk_pc \in {"serve", "lines", "write"} => wk_pc \in Serving
    BY DEF Serving
  <2> QED
    BY <1>2, <2>1, Zenon DEF ServeInv
<1>6. \A c \in Conns : conn[c].unread \in 0 .. Window
  <2>1. \A c \in Conns : conn[c] \in ConnRec(R)
    BY <1>1, Zenon DEF Typed
  <2> QED
    BY <2>1 DEF ConnRec
<1> QED
  BY <1>2, <1>3, <1>4, <1>5, <1>6, Zenon DEF TypeOK, HandleInv, FlagInv, StopTyped

\* The variables have their types: a window never holds more than it takes, and what
\* is marked while clients are served is a client.
THEOREM TypeCorrect == Spec => []TypeOK
<1>1. Init => StopTyped
  BY DEF Init, StopTyped
<1>2. StopTyped /\ [Next]_vars => StopTyped'
  BY StopStep
<1>3. TableInv /\ FlagInv /\ StopTyped => TypeOK
  BY TablesTyped
<1> QED
  BY <1>1, <1>2, <1>3, TableInvariant, FlagInvariant, PTL DEF Spec

-----------------------------------------------------------------------------
(* Every line is answered before its client is closed.                     *)

\* n lines, each its text and its end.
Lines(s, n) ==
  Len(s) = 2 * n /\ \A j \in 1 .. n : s[2 * j - 1] # NL /\ s[2 * j] = NL

\* What a client sent and was not yet answered is on its way or in its buffer.
Stream(p, k) ==
  ~k.rst /\ k.ended # "quit" =>
    k.done <= k.sent /\ Lines(p.read_buffer \o k.sending, k.sent - k.done)

\* No line is left in the buffer.
Clean(p, k) == ~k.deferred /\ k.ended # "quit" => ~Contains(p.read_buffer, NL)

\* The connection ended by the client.
Over(k) == k.ended \in {"eof", "quit"}

Settled(k) == Over(k) /\ ~k.full /\ ~k.rst => k.got = k.answers

Heard(k) ==
  /\ Room(k)
  /\ k.ended = "eof" /\ ~k.deferred /\ ~k.rst => k.done = k.sent /\ k.fin

\* An event that is still to be served.
EventOK(e, p, k) ==
  /\ ~Over(k)
  /\ ~k.full => (e.out <=> p.write_buffer # <<>>)
  /\ e.in => k.sending # <<>> \/ k.fin \/ k.rst

StreamsKept(cs, cn) == \A f \in DOMAIN cs : Stream(cs[f], cn[cs[f].conn])

\* rv is what is still to be served; its head is being served.
LinesTaken(pc, cs, cn, rv) ==
  \A f \in DOMAIN cs : (pc = "lines" /\ f = Head(rv).fd) \/ Clean(cs[f], cn[cs[f].conn])

EndsMarked(pc, cs, cn, marks) ==
  \A f \in DOMAIN cs : Over(cn[cs[f].conn]) => pc \in Serving /\ f \in marks

AllHeard(cn) == \A c \in Conns : Heard(cn[c])

AllSettled(pc, cs, cn, rv) ==
  \A c \in Conns :
    (pc = "write" /\ c = cs[Head(rv).fd].conn /\ cn[c].ended = "eof") \/ Settled(cn[c])

EventsHold(pc, cs, cn, rv) ==
  \A i \in 1 .. Len(rv) :
    \/ i = 1 /\ pc \in {"lines", "write"}
    \/ EventOK(rv[i], cs[rv[i].fd], cn[cs[rv[i].fd].conn])

\* The client being served: a line is taken only of one that has not ended, and
\* one whose stream ended is written to if a reply waits for it.
HeadServed(pc, e, p, k) ==
  /\ pc = "lines" => ~Over(k)
  /\ pc = "write" /\ k.ended = "eof" /\ ~k.full => (e.out <=> p.write_buffer # <<>>)

AnswerOK(pc, cs, cn, rv, marks) ==
  /\ StreamsKept(cs, cn)
  /\ LinesTaken(pc, cs, cn, rv)
  /\ EndsMarked(pc, cs, cn, marks)
  /\ AllHeard(cn)
  /\ AllSettled(pc, cs, cn, rv)
  /\ EventsHold(pc, cs, cn, rv)
  /\ HeadServed(pc, Head(rv), cs[Head(rv).fd], cn[cs[Head(rv).fd].conn])

AnswerInv == AnswerOK(wk_pc, clients, conn, revents, fds_to_remove)

LEMMA NoLines == Lines(<<>> \o <<>>, 0)
<1>1. <<>> \o <<>> = <<>>
  OBVIOUS
<1>2. Lines(<<>>, 0)
  BY DEF Lines
<1> QED
  BY <1>1, <1>2, Zenon

\* A line is added at the end of the stream.
LEMMA OneMoreLine ==
  ASSUME NEW n \in Nat, NEW b \in Seq(Pieces), NEW t \in Seq(Pieces), Lines(b \o t, n),
         NEW cmd \in Commands
  PROVE  Lines(b \o (t \o <<cmd, NL>>), n + 1)
<1> DEFINE s == b \o t
           u == <<cmd, NL>>
           v == s \o u
<1>0. s \in Seq(Pieces) /\ u \in Seq(Pieces)
  BY ConcatProperties DEF Pieces
<1>1. b \o (t \o u) = v
  <2>1. Regrouped(b, t, u)
    BY <1>0, Regroup, Zenon
  <2> QED
    BY <2>1, Zenon DEF Regrouped
<1>2. Len(u) = 2 /\ u[1] = cmd /\ u[2] = NL /\ cmd # NL
  OBVIOUS
<1>3. Len(s) = 2 * n /\ \A j \in 1 .. n : s[2 * j - 1] # NL /\ s[2 * j] = NL
  BY Zenon DEF Lines
<1> HIDE DEF s, u
<1>4. Len(v) = 2 * n + 2 /\ \A i \in 1 .. 2 * n + 2 : v[i] = IF i <= 2 * n THEN s[i] ELSE u[i - 2 * n]
  <2>1. /\ Len(v) = Len(s) + Len(u)
        /\ \A i \in 1 .. Len(s) + Len(u) : v[i] = IF i <= Len(s) THEN s[i] ELSE u[i - Len(s)]
    BY <1>0, ConcatProperties, Zenon
  <2>2. Len(s) = 2 * n /\ Len(u) = 2
    BY <1>2, <1>3, Zenon
  <2> HIDE DEF v
  <2> QED
    BY <2>1, <2>2, Zenon
<1> HIDE DEF v
<1>5. ASSUME NEW j \in 1 .. n + 1 PROVE v[2 * j - 1] # NL /\ v[2 * j] = NL
  <2>1. CASE j <= n
    <3>1. j \in 1 .. n /\ 2 * j - 1 \in 1 .. 2 * n + 2 /\ 2 * j \in 1 .. 2 * n + 2
          /\ 2 * j - 1 <= 2 * n /\ 2 * j <= 2 * n
      BY <2>1
    <3>2. v[2 * j - 1] = s[2 * j - 1] /\ v[2 * j] = s[2 * j]
      BY <1>4, <3>1
    <3> QED
      BY <1>3, <3>1, <3>2
  <2>2. CASE ~(j <= n)
    <3>1. /\ 2 * j - 1 \in 1 .. 2 * n + 2 /\ 2 * j \in 1 .. 2 * n + 2
          /\ ~(2 * j - 1 <= 2 * n) /\ ~(2 * j <= 2 * n)
          /\ 2 * j - 1 - 2 * n = 1 /\ 2 * j - 2 * n = 2
      BY <2>2
    <3>2. v[2 * j - 1] = u[1] /\ v[2 * j] = u[2]
      BY <1>4, <3>1
    <3> QED
      BY <1>2, <3>2
  <2> QED
    BY <2>1, <2>2
<1>6. Lines(v, n + 1)
  BY <1>4, <1>5 DEF Lines
<1> QED
  BY <1>1, <1>6 DEF u

\* A buffer without its first line.
LEMMA WithoutLine ==
  ASSUME NEW b \in Seq(Pieces), Len(b) >= 2
  PROVE  LET r == SubSeq(b, 3, Len(b))
         IN  /\ r \in Seq(Pieces) /\ Len(r) = Len(b) - 2
             /\ \A j \in 1 .. Len(b) - 2 : r[j] = b[j + 2]
<1> DEFINE l == Len(b)
<1>1. l \in Nat /\ l >= 2 /\ \A i \in 3 .. l : b[i] \in Pieces
  OBVIOUS
<1>2. l \in Int /\ 3 \in Int
  BY <1>1
<1> HIDE DEF l
<1> DEFINE r == SubSeq(b, 3, l)
<1>3. r \in Seq(Pieces)
  BY <1>1, <1>2, SubSeqProperties, Zenon
<1>4. Len(r) = IF 3 <= l THEN l - 3 + 1 ELSE 0
  BY <1>1, <1>2, SubSeqProperties
<1>5. \A i \in 1 .. l - 3 + 1 : r[i] = b[3 + i - 1]
  BY <1>1, <1>2, SubSeqProperties
<1> HIDE DEF r
<1>6. Len(r) = l - 2
  BY <1>1, <1>4
<1>7. \A j \in 1 .. l - 2 : r[j] = b[j + 2]
  <2>1. l - 3 + 1 = l - 2 /\ \A j \in 1 .. l - 2 : 3 + j - 1 = j + 2
    BY <1>1
  <2> QED
    BY <1>5, <2>1, Zenon
<1> QED
  BY <1>3, <1>6, <1>7 DEF l, r

\* A buffer that holds the end of a line holds the whole line.
LEMMA OneLineLess ==
  ASSUME NEW n \in Nat, NEW b \in Seq(Pieces), NEW t \in Seq(Pieces), Lines(b \o t, n),
         Contains(b, NL)
  PROVE  n >= 1 /\ Lines(SubSeq(b, 3, Len(b)) \o t, n - 1)
<1> DEFINE s == b \o t
           r == SubSeq(b, 3, Len(b))
           v == r \o t
<1>1. /\ Len(b) \in Nat /\ Len(t) \in Nat /\ Len(s) = Len(b) + Len(t)
      /\ \A i \in 1 .. Len(b) + Len(t) : s[i] = IF i <= Len(b) THEN b[i] ELSE t[i - Len(b)]
  BY ConcatProperties
<1>2. Len(s) = 2 * n /\ \A j \in 1 .. n : s[2 * j - 1] # NL /\ s[2 * j] = NL
  BY Zenon DEF Lines
<1> HIDE DEF s
<1>3. PICK i \in 1 .. Len(b) : b[i] = NL
  BY Zenon DEF Contains
<1>4. n >= 1 /\ Len(b) >= 2
  <2>1. n >= 1
    BY <1>1, <1>2, <1>3
  <2>2. s[1] # NL
    <3>1. 1 \in 1 .. n /\ 2 * 1 - 1 = 1
      BY <2>1
    <3> QED
      BY <1>2, <3>1
  <2>3. i # 1
    <3>1. 1 \in 1 .. Len(b) + Len(t) /\ 1 <= Len(b)
      BY <1>1, <1>3
    <3>2. s[1] = b[1]
      BY <1>1, <3>1
    <3> QED
      BY <1>3, <2>2, <3>2
  <2> QED
    BY <1>1, <2>1, <2>3
<1>5. /\ r \in Seq(Pieces) /\ Len(r) = Len(b) - 2
      /\ \A j \in 1 .. Len(b) - 2 : r[j] = b[j + 2]
  BY <1>4, WithoutLine, Zenon
<1> HIDE DEF r
<1>6. /\ Len(v) = Len(r) + Len(t)
      /\ \A j \in 1 .. Len(r) + Len(t) : v[j] = IF j <= Len(r) THEN r[j] ELSE t[j - Len(r)]
  BY <1>5, ConcatProperties
<1> HIDE DEF v
<1>7. Len(v) = 2 * (n - 1)
  <2>1. Len(v) = Len(r) + Len(t) /\ Len(r) = Len(b) - 2 /\ Len(b) + Len(t) = 2 * n
    BY <1>1, <1>2, <1>5, <1>6, Zenon
  <2>2. Len(b) \in Nat /\ Len(t) \in Nat
    BY <1>1, Zenon
  <2> QED
    BY <2>1, <2>2
<1>8. ASSUME NEW j \in 1 .. 2 * (n - 1) PROVE v[j] = s[j + 2]
  <2>1. /\ j \in 1 .. Len(r) + Len(t) /\ j + 2 \in 1 .. Len(b) + Len(t)
        /\ (j <= Len(r) <=> j + 2 <= Len(b)) /\ j - Len(r) = j + 2 - Len(b)
        /\ (j <= Len(r) => j \in 1 .. Len(b) - 2)
    BY <1>1, <1>2, <1>5
  <2>2. CASE j <= Len(r)
    <3>1. v[j] = r[j]
      BY <1>6, <2>1, <2>2
    <3>2. s[j + 2] = b[j + 2]
      BY <1>1, <2>1, <2>2
    <3> QED
      BY <1>5, <2>1, <2>2, <3>1, <3>2, Zenon
  <2>3. CASE ~(j <= Len(r))
    <3>1. v[j] = t[j - Len(r)]
      BY <1>6, <2>1, <2>3
    <3>2. s[j + 2] = t[j + 2 - Len(b)]
      BY <1>1, <2>1, <2>3
    <3> QED
      BY <2>1, <3>1, <3>2, Zenon
  <2> QED
    BY <2>2, <2>3
<1>9. ASSUME NEW j \in 1 .. n - 1 PROVE v[2 * j - 1] # NL /\ v[2 * j] = NL
  <2>1. /\ 2 * j - 1 \in 1 .. 2 * (n - 1) /\ 2 * j \in 1 .. 2 * (n - 1) /\ j + 1 \in 1 .. n
        /\ 2 * j - 1 + 2 = 2 * (j + 1) - 1 /\ 2 * j + 2 = 2 * (j + 1)
    BY <1>4
  <2>2. v[2 * j - 1] = s[2 * j - 1 + 2] /\ v[2 * j] = s[2 * j + 2]
    BY <1>8, <2>1, Zenon
  <2>3. s[2 * (j + 1) - 1] # NL /\ s[2 * (j + 1)] = NL
    BY <1>2, <2>1, Zenon
  <2> QED
    BY <2>1, <2>2, <2>3, Zenon
<1>10. Lines(v, n - 1)
  BY <1>7, <1>9, Zenon DEF Lines
<1> QED
  BY <1>4, <1>10, Zenon DEF v, r

\* A stream without an end of line holds nothing.
LEMMA NothingLeft ==
  ASSUME NEW n \in Nat, NEW b \in Seq(Pieces), Lines(b \o <<>>, n), ~Contains(b, NL)
  PROVE  n = 0
<1>1. b \o <<>> = b
  OBVIOUS
<1>2. Len(b) = 2 * n /\ \A j \in 1 .. n : b[2 * j] = NL
  BY <1>1, Zenon DEF Lines
<1> SUFFICES ASSUME n # 0 PROVE FALSE
  OBVIOUS
<1>3. 1 \in 1 .. n /\ 2 \in 1 .. Len(b) /\ 2 * 1 = 2
  BY <1>2
<1>4. b[2] = NL
  BY <1>2, <1>3
<1> QED
  BY <1>3, <1>4, Zenon DEF Contains

\* What serving a client must leave behind, of its connection e and its record q.
ServedWell(pc, e, q, event, fd, marks) ==
  /\ Stream(q, e)
  /\ pc = "lines" \/ Clean(q, e)
  /\ Over(e) => fd \in marks
  /\ Heard(e)
  /\ (pc = "write" /\ e.ended = "eof") \/ Settled(e)
  /\ HeadServed(pc, event, q, e)

\* One entry of the map and one connection change.
OneChanged(cs, cn, f, c, q, e, cs2, cn2) ==
  /\ DOMAIN cs2 = DOMAIN cs /\ cs2[f] = q /\ cn2[c] = e
  /\ \A g \in DOMAIN cs : g # f => cs2[g] = cs[g]
  /\ \A d \in Conns : d # c => cn2[d] = cn[d]

\* The client f on connection c is the one served, and the next of those reported
\* follows unless it is to be served further.
ServedTurn(pc2, cs, rv, rv2, f, c) ==
  /\ f = Head(rv).fd /\ Head(rv).fd = rv[1].fd /\ cs[f].conn = c /\ Len(rv) \in Nat
  /\ \A g \in DOMAIN cs : cs[g].conn \in Conns /\ (g # f => cs[g].conn # c)
  /\ \A i \in 1 .. Len(rv) : rv[i].fd \in DOMAIN cs /\ (i # 1 => rv[i].fd # f)
  /\ \/ pc2 = "serve" /\ Len(rv2) = Len(rv) - 1 /\ \A i \in 1 .. Len(rv2) : rv2[i] = rv[i + 1]
     \/ pc2 \in {"lines", "write"} /\ rv2 = rv

LEMMA AnswerServed ==
  ASSUME NEW pc, NEW pc2 \in {"serve", "lines", "write"}, NEW cs, NEW cs2, NEW cn, NEW cn2,
         NEW rv, NEW rv2, NEW marks, NEW marks2, NEW f \in DOMAIN cs, NEW c \in Conns, NEW e, NEW q,
         AnswerOK(pc, cs, cn, rv, marks), OneChanged(cs, cn, f, c, q, e, cs2, cn2), q.conn = c,
         ServedTurn(pc2, cs, rv, rv2, f, c), marks \subseteq marks2,
         ServedWell(pc2, e, q, Head(rv), f, marks2)
  PROVE  AnswerOK(pc2, cs2, cn2, rv2, marks2)
<1> SUFFICES ASSUME f = Head(rv).fd, Head(rv).fd = rv[1].fd, cs[f].conn = c, Len(rv) \in Nat,
                    \A g \in DOMAIN cs : cs[g].conn \in Conns /\ (g # f => cs[g].conn # c),
                    \A i \in 1 .. Len(rv) : rv[i].fd \in DOMAIN cs /\ (i # 1 => rv[i].fd # f),
                    \/ pc2 = "serve" /\ Len(rv2) = Len(rv) - 1 /\ \A i \in 1 .. Len(rv2) : rv2[i] = rv[i + 1]
                    \/ pc2 \in {"lines", "write"} /\ rv2 = rv
             PROVE  AnswerOK(pc2, cs2, cn2, rv2, marks2)
  BY Zenon DEF ServedTurn
<1>1. /\ DOMAIN cs2 = DOMAIN cs /\ cs2[f] = q /\ cn2[cs2[f].conn] = e
      /\ \A g \in DOMAIN cs : g # f => cs2[g] = cs[g] /\ cn2[cs2[g].conn] = cn[cs[g].conn]
  <2>1. DOMAIN cs2 = DOMAIN cs /\ cs2[f] = q /\ cn2[cs2[f].conn] = e
    BY Zenon DEF OneChanged
  <2>2. ASSUME NEW g \in DOMAIN cs, g # f PROVE cs2[g] = cs[g] /\ cn2[cs2[g].conn] = cn[cs[g].conn]
    <3>1. cs2[g] = cs[g] /\ cs[g].conn \in Conns /\ cs[g].conn # c
      BY <2>2, Zenon DEF OneChanged
    <3>2. cn2[cs[g].conn] = cn[cs[g].conn]
      BY <3>1, Zenon DEF OneChanged
    <3> QED
      BY <3>1, <3>2, Zenon
  <2> QED
    BY <2>1, <2>2, Zenon
<1>2. cn2[c] = e /\ \A d \in Conns : d # c => cn2[d] = cn[d]
  BY Zenon DEF OneChanged
<1>3. pc2 \in {"lines", "write"} => rv2 = rv
  OBVIOUS
<1>4. pc2 = "lines" \/ pc2 = "write" => rv2 = rv
  BY <1>3
<1>5. StreamsKept(cs2, cn2)
  <2>1. \A g \in DOMAIN cs : Stream(cs[g], cn[cs[g].conn])
    BY Zenon DEF AnswerOK, StreamsKept
  <2>2. Stream(q, e)
    BY Zenon DEF ServedWell
  <2> QED
    BY <1>1, <2>1, <2>2, Zenon DEF StreamsKept
<1>6. LinesTaken(pc2, cs2, cn2, rv2)
  <2>1. \A g \in DOMAIN cs : g # f => Clean(cs[g], cn[cs[g].conn])
    BY Zenon DEF AnswerOK, LinesTaken
  <2>2. pc2 = "lines" \/ Clean(q, e)
    BY Zenon DEF ServedWell
  <2>3. pc2 = "lines" => f = Head(rv2).fd
    BY <1>4, Zenon
  <2> QED
    BY <1>1, <2>1, <2>2, <2>3, Zenon DEF LinesTaken
<1>7. EndsMarked(pc2, cs2, cn2, marks2)
  <2>1. \A g \in DOMAIN cs : g # f => (Over(cn[cs[g].conn]) => g \in marks)
    BY Zenon DEF AnswerOK, EndsMarked
  <2>2. Over(e) => f \in marks2
    BY Zenon DEF ServedWell
  <2>3. pc2 \in Serving
    BY DEF Serving
  <2>4. \A g \in DOMAIN cs : g # f => (Over(cn2[cs2[g].conn]) => g \in marks2)
    BY <1>1, <2>1, Zenon
  <2>5. \A g \in DOMAIN cs2 : Over(cn2[cs2[g].conn]) => g \in marks2
    BY <1>1, <2>2, <2>4, Zenon
  <2> QED
    BY <2>3, <2>5, Zenon DEF EndsMarked
<1>8. AllHeard(cn2)
  <2>1. \A d \in Conns : Heard(cn[d])
    BY Zenon DEF AnswerOK, AllHeard
  <2>2. Heard(e)
    BY Zenon DEF ServedWell
  <2> QED
    BY <1>2, <2>1, <2>2, Zenon DEF AllHeard
<1>9. AllSettled(pc2, cs2, cn2, rv2)
  <2>1. \A d \in Conns : d # c => Settled(cn[d])
    BY Zenon DEF AnswerOK, AllSettled
  <2>2. (pc2 = "write" /\ e.ended = "eof") \/ Settled(e)
    BY Zenon DEF ServedWell
  <2>3. pc2 = "write" => c = cs2[Head(rv2).fd].conn
    BY <1>1, <1>4, Zenon
  <2>4. \A d \in Conns : d # c => Settled(cn2[d])
    BY <1>2, <2>1, Zenon
  <2>5. (pc2 = "write" /\ c = cs2[Head(rv2).fd].conn /\ cn2[c].ended = "eof") \/ Settled(cn2[c])
    BY <1>2, <2>2, <2>3, Zenon
  <2> QED
    BY <2>4, <2>5, Zenon DEF AllSettled
<1>10. EventsHold(pc2, cs2, cn2, rv2)
  <2>1. \A i \in 1 .. Len(rv) : i # 1 => EventOK(rv[i], cs2[rv[i].fd], cn2[cs2[rv[i].fd].conn])
    <3>1. \A i \in 1 .. Len(rv) : i # 1 => EventOK(rv[i], cs[rv[i].fd], cn[cs[rv[i].fd].conn])
      BY Zenon DEF AnswerOK, EventsHold
    <3> QED
      BY <1>1, <3>1, Zenon
  <2>2. CASE rv2 = rv /\ pc2 \in {"lines", "write"}
    BY <2>1, <2>2, Zenon DEF EventsHold
  <2>3. CASE Len(rv2) = Len(rv) - 1 /\ \A i \in 1 .. Len(rv2) : rv2[i] = rv[i + 1]
    <3>1. \A i \in 1 .. Len(rv2) : i + 1 \in 1 .. Len(rv) /\ i + 1 # 1
      BY <2>3
    <3>2. \A i \in 1 .. Len(rv2) : EventOK(rv2[i], cs2[rv2[i].fd], cn2[cs2[rv2[i].fd].conn])
      BY <2>1, <2>3, <3>1, Zenon
    <3> QED
      BY <3>2, Zenon DEF EventsHold
  <2> QED
    BY <2>2, <2>3, Zenon
<1>11. HeadServed(pc2, Head(rv2), cs2[Head(rv2).fd], cn2[cs2[Head(rv2).fd].conn])
  <2>1. HeadServed(pc2, Head(rv), q, e)
    BY Zenon DEF ServedWell
  <2>2. CASE pc2 = "lines" \/ pc2 = "write"
    <3>1. rv2 = rv
      BY <1>4, <2>2, Zenon
    <3>2. cs2[Head(rv2).fd] = q /\ cn2[cs2[Head(rv2).fd].conn] = e /\ Head(rv2) = Head(rv)
      BY <1>1, <3>1, Zenon
    <3> QED
      BY <2>1, <3>2, Zenon
  <2>3. CASE ~(pc2 = "lines" \/ pc2 = "write")
    BY <2>3, Zenon DEF HeadServed
  <2> QED
    BY <2>2, <2>3
<1> QED
  BY <1>5, <1>6, <1>7, <1>8, <1>9, <1>10, <1>11, Zenon DEF AnswerOK

\* An ended connection differs in nothing else.
EndedAs(k, e, why) ==
  /\ e.sending = k.sending /\ e.fin = k.fin /\ e.rst = k.rst /\ e.unread = k.unread
  /\ e.sent = k.sent /\ e.done = k.done /\ e.answers = k.answers /\ e.got = k.got
  /\ e.full = k.full /\ e.deferred = k.deferred /\ e.ended = why

LEMMA EndedFields ==
  ASSUME NEW R, NEW k \in ConnRec(R), NEW why
  PROVE  EndedAs(k, [k EXCEPT !.ended = why], why)
BY DEF ConnRec, EndedAs

LEMMA NoReplyLeft ==
  ASSUME NEW R, NEW g \in Seq(R), NEW l, l = <<>>, NEW a, g \o l = a
  PROVE  g = a
<1>1. g \o <<>> = g
  OBVIOUS
<1> QED
  BY <1>1, Zenon

\* poll() reported an error, or recv() found one.
LEMMA ErrorWell ==
  ASSUME NEW p, NEW k, NEW e, NEW ev, NEW fd, NEW marks, NEW marks2, NEW pc \in {"serve", "write"},
         ServedWell("serve", k, p, ev, fd, marks), EventOK(ev, p, k), EndedAs(k, e, "error")
  PROVE  ServedWell(pc, e, p, ev, fd, marks2)
<1>1. /\ e.sending = k.sending /\ e.fin = k.fin /\ e.rst = k.rst /\ e.unread = k.unread
      /\ e.sent = k.sent /\ e.done = k.done /\ e.full = k.full /\ e.deferred = k.deferred
      /\ e.ended = "error"
  BY Zenon DEF EndedAs
<1>2. ~Over(e) /\ e.ended # "quit" /\ e.ended # "eof"
  BY <1>1 DEF Over
<1>3. ~Over(k) /\ k.ended # "quit" /\ k.ended # "eof"
  BY DEF EventOK, Over
<1>4. Stream(p, k) /\ Clean(p, k) /\ Room(k)
  <2>1. "serve" # "lines"
    OBVIOUS
  <2> QED
    BY <2>1, Zenon DEF ServedWell, Heard
<1>5. Stream(p, e)
  BY <1>1, <1>2, <1>3, <1>4, Zenon DEF Stream
<1>6. Clean(p, e)
  BY <1>1, <1>2, <1>3, <1>4, Zenon DEF Clean
<1>7. Heard(e)
  BY <1>1, <1>2, <1>4, Zenon DEF Heard, Room
<1>8. Settled(e)
  BY <1>2, Zenon DEF Settled
<1>9. HeadServed(pc, ev, p, e)
  BY <1>2, Zenon DEF HeadServed
<1> QED
  BY <1>2, <1>5, <1>6, <1>7, <1>8, <1>9, Zenon DEF ServedWell

\* Nothing was to be read.
LEMMA NothingWell ==
  ASSUME NEW p, NEW k, NEW ev, NEW fd, NEW marks,
         ServedWell("serve", k, p, ev, fd, marks), EventOK(ev, p, k)
  PROVE  ServedWell("write", k, p, ev, fd, marks)
<1>1. ~Over(k) /\ k.ended # "eof"
  BY DEF EventOK, Over
<1>2. Stream(p, k) /\ Clean(p, k) /\ Heard(k)
  <2>1. "serve" # "lines"
    OBVIOUS
  <2> QED
    BY <2>1, Zenon DEF ServedWell
<1>3. Settled(k)
  BY <1>1, Zenon DEF Settled
<1>4. HeadServed("write", ev, p, k)
  <2>1. "write" # "lines"
    OBVIOUS
  <2> QED
    BY <1>1, <2>1, Zenon DEF HeadServed
<1> QED
  BY <1>1, <1>2, <1>3, <1>4, Zenon DEF ServedWell

\* The stream has ended: every line that was sent has been answered.
LEMMA EndWell ==
  ASSUME NEW R, NEW p \in ClientRec(R), NEW k \in ConnRec(R), NEW e, NEW ev, NEW fd, NEW marks,
         NEW marks2, ServedWell("serve", k, p, ev, fd, marks), EventOK(ev, p, k),
         EndedAs(k, e, "eof"), ev.in, ~k.rst, k.sending = <<>>, fd \in marks2
  PROVE  ServedWell("write", e, p, ev, fd, marks2)
<1>1. /\ e.sending = k.sending /\ e.fin = k.fin /\ e.rst = k.rst /\ e.unread = k.unread
      /\ e.sent = k.sent /\ e.done = k.done /\ e.full = k.full /\ e.deferred = k.deferred
      /\ e.ended = "eof"
  BY Zenon DEF EndedAs
<1>2. "serve" # "lines" /\ "write" # "lines" /\ "eof" # "quit"
  OBVIOUS
<1>3. ~Over(k) /\ k.ended # "quit" /\ k.ended # "eof"
  BY DEF EventOK, Over
<1>4. Stream(p, k) /\ Clean(p, k) /\ Room(k)
  BY <1>2, Zenon DEF ServedWell, Heard
<1>5. Stream(p, e)
  BY <1>1, <1>2, <1>3, <1>4, Zenon DEF Stream
<1>6. Clean(p, e)
  BY <1>1, <1>2, <1>3, <1>4, Zenon DEF Clean
<1>7. Heard(e)
  <2>1. Room(e)
    BY <1>1, <1>4, Zenon DEF Room
  <2>2. k.fin
    BY Zenon DEF EventOK
  <2>3. ASSUME ~k.deferred PROVE k.done = k.sent
    <3>1. k.done \in Nat /\ k.sent \in Nat /\ p.read_buffer \in Seq(Pieces)
      BY DEF ConnRec, ClientRec
    <3>2. k.done <= k.sent /\ Lines(p.read_buffer \o <<>>, k.sent - k.done)
      BY <1>3, <1>4, Zenon DEF Stream
    <3>3. ~Contains(p.read_buffer, NL)
      BY <1>3, <1>4, <2>3, Zenon DEF Clean
    <3>4. k.sent - k.done \in Nat
      BY <3>1, <3>2
    <3>5. k.sent - k.done = 0
      BY <3>1, <3>2, <3>3, <3>4, NothingLeft, Zenon
    <3> QED
      BY <3>1, <3>5
  <2> QED
    BY <1>1, <2>1, <2>2, <2>3, Zenon DEF Heard
<1>8. HeadServed("write", ev, p, e)
  <2>1. ~k.full => (ev.out <=> p.write_buffer # <<>>)
    BY Zenon DEF EventOK
  <2> QED
    BY <1>1, <1>2, <2>1, Zenon DEF HeadServed
<1> QED
  BY <1>1, <1>2, <1>5, <1>6, <1>7, <1>8, Zenon DEF ServedWell

\* Something was read: it is interpreted, or the rig is gone and it is deferred.
LEMMA SomeWell ==
  ASSUME NEW R, NEW p, NEW k, NEW n, NEW lost \in BOOLEAN, NEW ev, NEW fd, NEW marks,
         ServedWell("serve", k, p, ev, fd, marks), EventOK(ev, p, k), ReceivedOK(R, k, p, n, lost)
  PROVE  ServedWell(IF lost THEN "write" ELSE "lines", ReceivedEnd(k, n, lost),
                    ReceivedClient(k, p, n), ev, fd, marks)
<1> DEFINE q == ReceivedClient(k, p, n)
           e == ReceivedEnd(k, n, lost)
           pc == IF lost THEN "write" ELSE "lines"
<1>1. /\ q.write_buffer = p.write_buffer /\ q.read_buffer \o e.sending = p.read_buffer \o k.sending
      /\ e.fin = k.fin /\ e.rst = k.rst /\ e.unread = k.unread
      /\ e.sent = k.sent /\ e.done = k.done /\ e.full = k.full /\ e.ended = k.ended
  BY Zenon DEF ReceivedOK
<1>2. e.deferred = (k.deferred \/ lost)
  BY Zenon DEF ReceivedOK
<1> HIDE DEF e, q
<1>3. ~Over(k) /\ k.ended # "eof"
  BY DEF EventOK, Over
<1>4. Stream(p, k) /\ Room(k)
  BY Zenon DEF ServedWell, Heard
<1>5. Stream(q, e)
  BY <1>1, <1>4, Zenon DEF Stream
<1>6. pc = "lines" \/ Clean(q, e)
  BY <1>2, Zenon DEF Clean
<1>7. Heard(e)
  BY <1>1, <1>3, <1>4, Zenon DEF Heard, Room
<1>8. ~Over(e) /\ Settled(e)
  BY <1>1, <1>3, Zenon DEF Settled, Over
<1>9. HeadServed(pc, ev, q, e)
  BY <1>1, <1>3, <1>8, Zenon DEF HeadServed
<1>10. ServedWell(pc, e, q, ev, fd, marks)
  <2> HIDE DEF pc
  <2> QED
    BY <1>5, <1>6, <1>7, <1>8, <1>9, Zenon DEF ServedWell
<1> QED
  BY <1>10, Zenon DEF q, e

\* No reply is lost or repeated between the connection and the buffer.
Answers(p, k) == k.got \o p.write_buffer = k.answers

\* A line is interpreted.
LEMMA LineWell ==
  ASSUME NEW R, NEW p \in ClientRec(R), NEW k \in ConnRec(R), NEW lines, NEW quit \in BOOLEAN,
         NEW ev, NEW fd, NEW marks, NEW marks2, ServedWell("lines", k, p, ev, fd, marks),
         Answers(p, k), Contains(p.read_buffer, NL), ReplyOK(R, k, p, lines, quit),
         quit => fd \in marks2
  PROVE  ServedWell(IF quit THEN "write" ELSE "lines", NewEnd(k, p, lines, quit),
                    NewClient(k, p, lines, quit), ev, fd, marks2)
<1> DEFINE q == NewClient(k, p, lines, quit)
           e == NewEnd(k, p, lines, quit)
           pc == IF quit THEN "write" ELSE "lines"
<1>1. /\ e \in ConnRec(R) /\ SameEnd(k, e) /\ e.done = k.done + 1
      /\ e.ended = IF quit THEN "quit" ELSE k.ended
      /\ e.got \o q.write_buffer = e.answers
      /\ quit /\ ~k.rst /\ ~e.full => q.write_buffer = <<>>
      /\ q.read_buffer = IF quit THEN p.read_buffer ELSE SubSeq(p.read_buffer, 3, Len(p.read_buffer))
      /\ Room(k) => Room(e)
  BY Zenon DEF ReplyOK, Answers
<1> HIDE DEF e, q
<1>2. e.sending = k.sending /\ e.fin = k.fin /\ e.rst = k.rst /\ e.sent = k.sent /\ e.deferred = k.deferred
  BY <1>1, Zenon DEF SameEnd
<1>3. ~Over(k)
  BY Zenon DEF ServedWell, HeadServed
<1>4. k.ended # "eof" /\ k.ended # "quit"
  BY <1>3 DEF Over
<1>5. Stream(p, k) /\ Room(k)
  BY Zenon DEF ServedWell, Heard
<1>6. Room(e)
  BY <1>1, <1>5, Zenon
<1>7. CASE quit
  <2>1. e.ended = "quit" /\ e.ended # "eof"
    BY <1>1, <1>7
  <2>2. Stream(q, e) /\ Clean(q, e)
    BY <2>1, Zenon DEF Stream, Clean
  <2>3. Heard(e)
    BY <1>6, <2>1, Zenon DEF Heard
  <2>4. Settled(e)
    <3> SUFFICES ASSUME ~e.full, ~e.rst PROVE e.got = e.answers
      BY Zenon DEF Settled
    <3>1. q.write_buffer = <<>>
      BY <1>1, <1>2, <1>7, Zenon
    <3>2. e.got \in Seq(R)
      BY <1>1 DEF ConnRec
    <3>3. e.got \o q.write_buffer = e.answers
      BY <1>1, Zenon
    <3> QED
      BY <3>1, <3>2, <3>3, NoReplyLeft, Zenon
  <2>5. HeadServed("write", ev, q, e)
    <3>1. "write" # "lines"
      OBVIOUS
    <3> QED
      BY <2>1, <3>1, Zenon DEF HeadServed
  <2>6. ServedWell("write", e, q, ev, fd, marks2)
    BY <1>7, <2>2, <2>3, <2>4, <2>5, Zenon DEF ServedWell
  <2> QED
    BY <1>7, <2>6, Zenon DEF e, q
<1>8. CASE ~quit
  <2>1. e.ended = k.ended /\ q.read_buffer = SubSeq(p.read_buffer, 3, Len(p.read_buffer))
    BY <1>1, <1>8, Zenon
  <2>2. ~Over(e)
    BY <1>3, <2>1, Zenon DEF Over
  <2>3. Stream(q, e)
    <3> SUFFICES ASSUME ~k.rst
                 PROVE  e.done <= e.sent /\ Lines(q.read_buffer \o e.sending, e.sent - e.done)
      BY <1>2, Zenon DEF Stream
    <3>1. /\ k.done \in Nat /\ k.sent \in Nat /\ p.read_buffer \in Seq(Pieces)
          /\ k.sending \in Seq(Pieces)
      BY DEF ConnRec, ClientRec
    <3>2. k.done <= k.sent /\ Lines(p.read_buffer \o k.sending, k.sent - k.done)
      BY <1>4, <1>5, Zenon DEF Stream
    <3>3. k.sent - k.done \in Nat
      BY <3>1, <3>2
    <3>4. /\ k.sent - k.done >= 1
          /\ Lines(SubSeq(p.read_buffer, 3, Len(p.read_buffer)) \o k.sending, k.sent - k.done - 1)
      BY <3>1, <3>2, <3>3, OneLineLess, Zenon
    <3>5. k.sent - k.done - 1 = e.sent - e.done /\ e.done <= e.sent
      BY <1>1, <1>2, <3>1, <3>4
    <3> QED
      BY <1>2, <2>1, <3>4, <3>5, Zenon
  <2>4. Heard(e)
    BY <1>4, <1>6, <2>1, Zenon DEF Heard
  <2>5. Settled(e)
    BY <2>2, Zenon DEF Settled
  <2>6. HeadServed("lines", ev, q, e)
    BY <1>4, <2>1, <2>2, Zenon DEF HeadServed
  <2>7. ServedWell("lines", e, q, ev, fd, marks2)
    BY <2>2, <2>3, <2>4, <2>5, <2>6, Zenon DEF ServedWell
  <2> QED
    BY <1>8, <2>7, Zenon DEF e, q
<1> QED
  BY <1>7, <1>8

\* The client is written to, or there is nothing to write or no room.
LEMMA ClientClean ==
  ASSUME NEW pc, NEW k, NEW p, NEW ev, NEW fd, NEW marks, ServedWell(pc, k, p, ev, fd, marks),
         pc = "lines" => ~Contains(p.read_buffer, NL)
  PROVE  Clean(p, k)
BY Zenon DEF ServedWell, Clean

LEMMA UnwrittenWell ==
  ASSUME NEW R, NEW p, NEW k \in ConnRec(R), NEW pc \in {"lines", "write"}, NEW ev, NEW fd,
         NEW marks, NEW marks2, ServedWell(pc, k, p, ev, fd, marks), Clean(p, k), Answers(p, k),
         k.rst \/ ~(ev.out /\ p.write_buffer # <<>>), marks \subseteq marks2
  PROVE  ServedWell("serve", k, p, ev, fd, marks2)
<1>1. Stream(p, k) /\ Heard(k) /\ (Over(k) => fd \in marks2)
  BY Zenon DEF ServedWell
<1>2. Settled(k)
  <2> SUFFICES ASSUME Over(k), ~k.full, ~k.rst PROVE k.got = k.answers
    BY Zenon DEF Settled
  <2>1. CASE Settled(k)
    BY <2>1, Zenon DEF Settled
  <2>2. CASE pc = "write" /\ k.ended = "eof"
    <3>1. ev.out <=> p.write_buffer # <<>>
      BY <2>2, Zenon DEF ServedWell, HeadServed
    <3>2. p.write_buffer = <<>>
      BY <3>1, Zenon
    <3>3. k.got \in Seq(R)
      BY DEF ConnRec
    <3> QED
      BY <3>2, <3>3, NoReplyLeft, Zenon DEF Answers
  <2> QED
    BY <2>1, <2>2, Zenon DEF ServedWell
<1>3. HeadServed("serve", ev, p, k)
  <2>1. "serve" # "lines" /\ "serve" # "write"
    OBVIOUS
  <2> QED
    BY <2>1, Zenon DEF HeadServed
<1> QED
  BY <1>1, <1>2, <1>3, Zenon DEF ServedWell

LEMMA WrittenWell ==
  ASSUME NEW R, NEW p \in ClientRec(R), NEW k \in ConnRec(R), NEW w, NEW pc \in {"lines", "write"},
         NEW ev, NEW fd, NEW marks, ServedWell(pc, k, p, ev, fd, marks), Clean(p, k), Answers(p, k),
         Gone(R, k, p.write_buffer, w), WriteOK(R, k, p, w), ~w.conn.full => w.left = <<>>
  PROVE  ServedWell("serve", w.conn, [p EXCEPT !.write_buffer = w.left], ev, fd, marks)
<1> DEFINE q == [p EXCEPT !.write_buffer = w.left]
           e == w.conn
<1>1. q.read_buffer = p.read_buffer /\ q.write_buffer = w.left /\ e.got \o q.write_buffer = e.answers
  BY Zenon DEF WriteOK, Answers
<1>2. /\ e \in ConnRec(R) /\ SameEnd(k, e) /\ e.done = k.done /\ e.answers = k.answers
      /\ e.ended = k.ended /\ (Room(k) => Room(e))
  BY Zenon DEF Gone
<1>3. ~e.full => w.left = <<>>
  OBVIOUS
<1> HIDE DEF e, q
<1>4. e.sending = k.sending /\ e.fin = k.fin /\ e.rst = k.rst /\ e.sent = k.sent /\ e.deferred = k.deferred
  BY <1>2, Zenon DEF SameEnd
<1>5. Stream(p, k) /\ Heard(k) /\ (Over(k) => fd \in marks)
  BY Zenon DEF ServedWell
<1>6. Stream(q, e)
  BY <1>1, <1>2, <1>4, <1>5, Zenon DEF Stream
<1>7. Clean(q, e)
  BY <1>1, <1>2, <1>4, Zenon DEF Clean
<1>8. Heard(e)
  <2>1. Room(e)
    BY <1>2, <1>5, Zenon DEF Heard
  <2> QED
    BY <1>2, <1>4, <1>5, <2>1, Zenon DEF Heard
<1>9. Over(e) => fd \in marks
  BY <1>2, <1>5, Zenon DEF Over
<1>10. Settled(e)
  <2> SUFFICES ASSUME ~e.full PROVE e.got = e.answers
    BY Zenon DEF Settled
  <2>1. e.got \in Seq(R)
    BY <1>2 DEF ConnRec
  <2>2. q.write_buffer = <<>> /\ e.got \o q.write_buffer = e.answers
    BY <1>1, <1>3, Zenon
  <2> QED
    BY <2>1, <2>2, NoReplyLeft, Zenon
<1>11. HeadServed("serve", ev, q, e)
  <2>1. "serve" # "lines" /\ "serve" # "write"
    OBVIOUS
  <2> QED
    BY <2>1, Zenon DEF HeadServed
<1>12. ServedWell("serve", e, q, ev, fd, marks)
  BY <1>6, <1>7, <1>8, <1>9, <1>10, <1>11, Zenon DEF ServedWell
<1> QED
  BY <1>12, Zenon DEF e, q

\* What the invariant says of the client that is being served.
LEMMA HeadStands ==
  ASSUME NEW R, Typed(R), ServeInv, AnswerInv, revents # <<>>
  PROVE  /\ ServedWell(wk_pc, conn[Self], clients[Served], Head(revents), Served, fds_to_remove)
         /\ wk_pc \notin {"lines", "write"} => EventOK(Head(revents), clients[Served], conn[Self])
<1>1. Served \in DOMAIN clients /\ Self \in Conns /\ Self = clients[Served].conn /\ Served = Head(revents).fd
  BY ServedTyped, Zenon DEF Self, Served
<1>2. AnswerOK(wk_pc, clients, conn, revents, fds_to_remove)
  BY Zenon DEF AnswerInv
<1>3. Stream(clients[Served], conn[Self])
  BY <1>1, <1>2, Zenon DEF AnswerOK, StreamsKept
<1>4. wk_pc = "lines" \/ Clean(clients[Served], conn[Self])
  BY <1>1, <1>2, Zenon DEF AnswerOK, LinesTaken
<1>5. Over(conn[Self]) => Served \in fds_to_remove
  BY <1>1, <1>2, Zenon DEF AnswerOK, EndsMarked
<1>6. Heard(conn[Self])
  BY <1>1, <1>2, Zenon DEF AnswerOK, AllHeard
<1>7. (wk_pc = "write" /\ conn[Self].ended = "eof") \/ Settled(conn[Self])
  BY <1>1, <1>2, Zenon DEF AnswerOK, AllSettled
<1>8. HeadServed(wk_pc, Head(revents), clients[Served], conn[Self])
  BY <1>1, <1>2, Zenon DEF AnswerOK
<1>9. wk_pc \notin {"lines", "write"} => EventOK(Head(revents), clients[Served], conn[Self])
  <2>1. 1 \in 1 .. Len(revents) /\ revents[1] = Head(revents)
    <3>1. revents \in Seq(Event)
      BY Zenon DEF ServeInv
    <3> QED
      BY <3>1
  <2>2. wk_pc \notin {"lines", "write"} => EventOK(revents[1], clients[revents[1].fd], conn[clients[revents[1].fd].conn])
    BY <1>2, <2>1, Zenon DEF AnswerOK, EventsHold
  <2> QED
    BY <1>1, <2>1, <2>2, Zenon
<1> QED
  BY <1>3, <1>4, <1>5, <1>6, <1>7, <1>8, <1>9, Zenon DEF ServedWell

\* Serving a client well keeps the invariant.
LEMMA ServedAnswers ==
  ASSUME NEW R, Typed(R), OwnInv, ServeInv, AnswerInv, ServeMoves, NEW e, NEW q, q.conn = Self,
         conn' = [conn EXCEPT ![Self] = e], clients' = [clients EXCEPT ![Served] = q],
         ServedWell(wk_pc', e, q, Head(revents), Served, fds_to_remove')
  PROVE  AnswerInv'
<1>0. revents # <<>> /\ revents \in Seq(Event)
  BY Zenon DEF ServeMoves, ServeInv
<1>1. /\ Served \in DOMAIN clients /\ Self \in Conns
      /\ Len(Tail(revents)) = Len(revents) - 1
      /\ \A i \in 1 .. Len(Tail(revents)) : Tail(revents)[i] = revents[i + 1]
  BY <1>0, ServedTyped, Zenon
<1>2. AnswerOK(wk_pc, clients, conn, revents, fds_to_remove)
  BY Zenon DEF AnswerInv
<1>3. OneChanged(clients, conn, Served, Self, q, e, clients', conn')
  <2>1. conn \in [Conns -> ConnRec(R)] /\ clients \in [DOMAIN clients -> ClientRec(R)]
    BY Zenon DEF Typed
  <2>2. conn'[Self] = e /\ \A d \in Conns : d # Self => conn'[d] = conn[d]
    BY <1>1, <2>1, Zenon
  <2>3. DOMAIN clients' = DOMAIN clients /\ clients'[Served] = q
        /\ \A g \in DOMAIN clients : g # Served => clients'[g] = clients[g]
    BY <1>1, <2>1, Zenon
  <2> QED
    BY <2>2, <2>3, Zenon DEF OneChanged
<1>4. /\ Len(revents) \in Nat /\ Head(revents) = revents[1] /\ 1 \in 1 .. Len(revents)
  BY <1>0
<1>5. Served = Head(revents).fd /\ Head(revents).fd = revents[1].fd /\ clients[Served].conn = Self
  BY <1>4, Zenon DEF Served, Self
<1>6. \A g \in DOMAIN clients : clients[g].conn \in Conns /\ (g # Served => clients[g].conn # Self)
  <2>1. \A f \in DOMAIN clients : clients[f] \in ClientRec(R)
    BY Zenon DEF Typed
  <2>2. \A f \in DOMAIN clients : clients[f].conn \in Conns
    BY <2>1 DEF ClientRec
  <2>3. \A f, g \in DOMAIN clients : clients[f].conn = clients[g].conn => f = g
    BY Zenon DEF OwnInv
  <2> QED
    BY <1>1, <1>5, <2>2, <2>3, Zenon
<1>7. \A i \in 1 .. Len(revents) : revents[i].fd \in DOMAIN clients /\ (i # 1 => revents[i].fd # Served)
  BY <1>4, <1>5, Zenon DEF ServeInv
<1>8. fds_to_remove \subseteq fds_to_remove'
  BY Zenon DEF ServeMoves
<1>9. wk_pc' \in {"serve", "lines", "write"}
  BY DEF ServeMoves
<1>10. \/ wk_pc' = "serve" /\ Len(revents') = Len(revents) - 1
          /\ \A i \in 1 .. Len(revents') : revents'[i] = revents[i + 1]
       \/ wk_pc' \in {"lines", "write"} /\ revents' = revents
  BY <1>1, Zenon DEF ServeMoves
<1>11. ServedTurn(wk_pc', clients, revents, revents', Served, Self)
  BY <1>4, <1>5, <1>6, <1>7, <1>10, Zenon DEF ServedTurn
<1>12. AnswerOK(wk_pc', clients', conn', revents', fds_to_remove')
  BY <1>1, <1>2, <1>3, <1>8, <1>9, <1>11, AnswerServed, Zenon
<1> QED
  BY <1>12, Zenon DEF AnswerInv

\* Each way to serve a client serves it well.
LEMMA AnswerServeStep ==
  ASSUME NEW R, Typed(R), HandleInv, OwnInv, ServeInv, RepliesInv, AnswerInv, ServeStep
  PROVE  AnswerInv'
<1> DEFINE k == conn[Self]
           p == clients[Served]
           ev == Head(revents)
           marks == fds_to_remove
<1>1. ServeMoves /\ revents # <<>>
  BY ServeStepMoves, Zenon DEF ServeMoves
<1>2. /\ Served \in DOMAIN clients /\ Self \in Conns /\ k \in ConnRec(R) /\ p \in ClientRec(R)
      /\ ev \in Event
  BY <1>1, ServedTyped, Zenon
<1>3. clients = [clients EXCEPT ![Served] = p] /\ conn = [conn EXCEPT ![Self] = k] /\ p.conn = Self
  BY <1>2, SameServed, Zenon DEF Self
<1>4. ServedWell(wk_pc, k, p, ev, Served, marks)
  BY <1>1, HeadStands, Zenon
<1>5. wk_pc \notin {"lines", "write"} => EventOK(ev, p, k)
  BY <1>1, HeadStands, Zenon
<1>6. Answers(p, k)
  BY <1>2, Zenon DEF RepliesInv, Answers, Self
<1>7. wk_pc = "serve" => ServedWell("serve", k, p, ev, Served, marks) /\ EventOK(ev, p, k)
  <2>1. wk_pc = "serve" => wk_pc \notin {"lines", "write"}
    OBVIOUS
  <2> QED
    BY <1>4, <1>5, <2>1, Zenon
<1>8. ASSUME NEW e, NEW q, q.conn = Self, conn' = [conn EXCEPT ![Self] = e],
             clients' = [clients EXCEPT ![Served] = q],
             ServedWell(wk_pc', e, q, ev, Served, marks')
      PROVE  AnswerInv'
  BY <1>1, <1>8, ServedAnswers, Zenon
<1>9. "serve" \in {"serve", "write"} /\ "write" \in {"serve", "write"}
  OBVIOUS
<1> HIDE DEF k, p, ev, marks
<1>10. CASE ServeError
  <2> DEFINE e == [k EXCEPT !.ended = "error"]
  <2>1. wk_pc = "serve" /\ wk_pc' = "serve" /\ conn' = [conn EXCEPT ![Self] = e] /\ clients' = clients
    BY <1>10, Zenon DEF ServeError, k
  <2>2. EndedAs(k, e, "error")
    BY <1>2, EndedFields, Zenon
  <2> HIDE DEF e
  <2>3. ServedWell("serve", e, p, ev, Served, marks')
    BY <1>7, <1>9, <2>1, <2>2, ErrorWell, Zenon
  <2> QED
    BY <1>3, <1>8, <2>1, <2>3, Zenon
<1>11. CASE Read
  <2>0. wk_pc = "serve"
    BY <1>11, Zenon DEF Read
  <2>a. ServedWell("serve", k, p, ev, Served, marks) /\ EventOK(ev, p, k)
    BY <1>7, <2>0, Zenon
  <2>1. CASE ReadNothing
    <3>1. wk_pc' = "write" /\ conn' = conn /\ clients' = clients /\ marks' = marks
      BY <2>1, Zenon DEF ReadNothing, marks
    <3>2. ServedWell("write", k, p, ev, Served, marks')
      BY <2>a, <3>1, NothingWell, Zenon
    <3> QED
      BY <1>3, <1>8, <3>1, <3>2, Zenon
  <2>2. CASE ReadEnd
    <3>0. /\ wk_pc' = "write" /\ clients' = clients /\ Served \in marks' /\ ev.in
          /\ k.rst \/ k.sending = <<>>
          /\ conn' = [conn EXCEPT ![Self] = [k EXCEPT !.ended = IF k.rst THEN "error" ELSE "eof"]]
      BY <2>2, Zenon DEF ReadEnd, k, ev, marks
    <3>1. CASE k.rst
      <4> DEFINE e == [k EXCEPT !.ended = "error"]
      <4>1. conn' = [conn EXCEPT ![Self] = e]
        BY <3>0, <3>1, Zenon
      <4>2. EndedAs(k, e, "error")
        BY <1>2, EndedFields, Zenon
      <4> HIDE DEF e
      <4>3. ServedWell("write", e, p, ev, Served, marks')
        BY <1>9, <2>a, <4>2, ErrorWell, Zenon
      <4> QED
        BY <1>3, <1>8, <3>0, <4>1, <4>3, Zenon
    <3>2. CASE ~k.rst
      <4> DEFINE e == [k EXCEPT !.ended = "eof"]
      <4>1. conn' = [conn EXCEPT ![Self] = e]
        BY <3>0, <3>2, Zenon
      <4>2. EndedAs(k, e, "eof")
        BY <1>2, EndedFields, Zenon
      <4> HIDE DEF e
      <4>3. k.sending = <<>>
        BY <3>0, <3>2, Zenon
      <4>4. ServedWell("write", e, p, ev, Served, marks')
        BY <1>2, <2>a, <3>0, <3>2, <4>2, <4>3, EndWell, Zenon
      <4> QED
        BY <1>3, <1>8, <3>0, <4>1, <4>4, Zenon
    <3> QED
      BY <3>1, <3>2
  <2>3. CASE ReadSome
    <3>1. PICK n \in 1 .. Len(k.sending) : Received(k, p, n)
      BY <2>3, Zenon DEF ReadSome, k, p
    <3> DEFINE q == ReceivedClient(k, p, n)
               e == ReceivedEnd(k, n, rig_disconnected)
    <3>2. rig_disconnected \in BOOLEAN
      BY Zenon DEF HandleInv
    <3>3. ReceivedOK(R, k, p, n, rig_disconnected)
      BY <1>2, <3>2, ReceivedTypes, Zenon
    <3>4. clients' = [clients EXCEPT ![Served] = q] /\ conn' = [conn EXCEPT ![Self] = e]
      BY <3>1, Zenon DEF Received
    <3>5. q.conn = Self
      BY <1>3, <3>3, Zenon DEF ReceivedOK
    <3>6. wk_pc' = (IF rig_disconnected THEN "write" ELSE "lines") /\ marks' = marks
      BY <2>3, Zenon DEF ReadSome, AfterRecv, marks
    <3>7. ServedWell(IF rig_disconnected THEN "write" ELSE "lines", e, q, ev, Served, marks)
      BY <2>a, <3>2, <3>3, SomeWell, Zenon
    <3> HIDE DEF q, e
    <3> QED
      BY <1>8, <3>4, <3>5, <3>6, <3>7, Zenon
  <2> QED
    BY <1>11, <2>1, <2>2, <2>3, ReadCases, Zenon
<1>12. CASE Write
  <2> DEFINE w == Written(k, p.write_buffer)
             q == [p EXCEPT !.write_buffer = w.left]
  <2>1. /\ wk_pc' = "serve" /\ wk_pc \in {"lines", "write"}
        /\ wk_pc = "lines" => ~Contains(p.read_buffer, NL)
    <3>1. wk_pc' = "serve" /\ ReadDone
      BY <1>12, Zenon DEF Write
    <3>2. wk_pc = "lines" => ~Contains(p.read_buffer, NL)
      <4>1. "lines" # "write"
        OBVIOUS
      <4> QED
        BY <3>1, <4>1, Zenon DEF ReadDone, p
    <3>3. wk_pc \in {"lines", "write"}
      BY <3>1 DEF ReadDone
    <3> QED
      BY <3>1, <3>2, <3>3
  <2>2. Clean(p, k)
    BY <1>4, <2>1, ClientClean, Zenon
  <2>3. \/ UNCHANGED <<clients, conn>> /\ (k.rst \/ ~(ev.out /\ p.write_buffer # <<>>))
        \/ /\ clients' = [clients EXCEPT ![Served] = q] /\ conn' = [conn EXCEPT ![Self] = w.conn]
           /\ marks' = marks
    BY <1>12, Zenon DEF Write, k, p, ev, marks
  <2>4. CASE UNCHANGED <<clients, conn>> /\ (k.rst \/ ~(ev.out /\ p.write_buffer # <<>>))
    <3>1. marks \subseteq marks'
      BY <1>1, Zenon DEF ServeMoves, marks
    <3>2. conn' = conn /\ clients' = clients /\ (k.rst \/ ~(ev.out /\ p.write_buffer # <<>>))
      BY <2>4, Zenon
    <3>3. ServedWell("serve", k, p, ev, Served, marks')
      BY <1>2, <1>4, <1>6, <2>1, <2>2, <3>1, <3>2, UnwrittenWell, Zenon
    <3> QED
      BY <1>3, <1>8, <2>1, <3>2, <3>3, Zenon
  <2>5. CASE /\ clients' = [clients EXCEPT ![Served] = q] /\ conn' = [conn EXCEPT ![Self] = w.conn]
             /\ marks' = marks
    <3>1. p.write_buffer \in Seq(R)
      BY <1>2 DEF ClientRec
    <3>2. Gone(R, k, p.write_buffer, w) /\ (~w.conn.full => w.left = <<>>)
      BY <1>2, <3>1, WrittenType, Zenon
    <3> HIDE DEF w
    <3>3. WriteOK(R, k, p, w)
      BY <1>2, <3>2, WriteEffect, Zenon
    <3>4. q.conn = Self
      BY <1>3, <3>3, Zenon DEF WriteOK
    <3>5. ServedWell("serve", w.conn, q, ev, Served, marks)
      BY <1>2, <1>4, <1>6, <2>1, <2>2, <3>2, <3>3, WrittenWell, Zenon
    <3> HIDE DEF q
    <3> QED
      BY <1>8, <2>1, <2>5, <3>4, <3>5, Zenon
  <2> QED
    BY <2>3, <2>4, <2>5, Zenon
<1>13. ASSUME NEW junk \in Junk, Interpret(junk) PROVE AnswerInv'
  <2>0. wk_pc = "lines" /\ Contains(p.read_buffer, NL)
    BY <1>13, Zenon DEF Interpret, p
  <2>1. PICK Q, lines, quit : Replying(R, Q, lines, quit)
    BY <1>13, InterpretReplies, Zenon
  <2>2. k \in ConnRec(Q) /\ p \in ClientRec(Q) /\ lines \in Seq(Q) /\ quit \in BOOLEAN
    <3>1. R \subseteq Q
      BY <2>1, Zenon DEF Replying
    <3>2. ConnRec(R) \subseteq ConnRec(Q) /\ ClientRec(R) \subseteq ClientRec(Q)
      BY <3>1, MoreReplies, Zenon
    <3> QED
      BY <1>2, <2>1, <3>2, Zenon DEF Replying
  <2> DEFINE e == NewEnd(k, p, lines, quit)
             q == NewClient(k, p, lines, quit)
  <2>3. ReplyOK(Q, k, p, lines, quit)
    BY <2>2, ReplyTypes, Zenon
  <2>4. /\ clients' = [clients EXCEPT ![Served] = q] /\ conn' = [conn EXCEPT ![Self] = e]
        /\ wk_pc' = (IF quit THEN "write" ELSE "lines") /\ (quit => Served \in marks')
    BY <2>1, Zenon DEF Replying, k, p, marks
  <2>5. q.conn = Self
    BY <1>3, <2>3, Zenon DEF ReplyOK
  <2>6. ServedWell("lines", k, p, ev, Served, marks)
    BY <1>4, <2>0, Zenon
  <2>7. ServedWell(IF quit THEN "write" ELSE "lines", e, q, ev, Served, marks')
    BY <1>6, <2>0, <2>2, <2>3, <2>4, <2>6, LineWell, Zenon
  <2> HIDE DEF e, q
  <2> QED
    BY <1>8, <2>4, <2>5, <2>7, Zenon
<1> QED
  BY <1>10, <1>11, <1>12, <1>13, Zenon DEF ServeStep

\* A client's own step on its connection disturbs nothing that was promised of it.
EndKept(R, k, e) ==
  /\ e.ended = k.ended /\ e.full = k.full /\ e.deferred = k.deferred
  /\ \A p \in ClientRec(R) : Stream(p, k) => Stream(p, e)
  /\ Heard(k) => Heard(e)
  /\ Settled(k) => Settled(e)
  /\ \A ev, p : EventOK(ev, p, k) => EventOK(ev, p, e)

LEMMA EndKeptSame ==
  ASSUME NEW R, NEW k
  PROVE  EndKept(R, k, k)
BY Zenon DEF EndKept

\* Only the stage changes.
LEMMA EndKeptStage ==
  ASSUME NEW R, NEW k \in ConnRec(R), NEW stage
  PROVE  EndKept(R, k, [k EXCEPT !.stage = stage])
<1> DEFINE e == [k EXCEPT !.stage = stage]
<1>1. /\ e.sending = k.sending /\ e.fin = k.fin /\ e.rst = k.rst /\ e.unread = k.unread
      /\ e.sent = k.sent /\ e.done = k.done /\ e.answers = k.answers /\ e.got = k.got
      /\ e.full = k.full /\ e.deferred = k.deferred /\ e.ended = k.ended
  BY DEF ConnRec
<1> HIDE DEF e
<1>2. \A p : Stream(p, k) => Stream(p, e)
  BY <1>1, Zenon DEF Stream
<1>3. Heard(k) => Heard(e)
  BY <1>1, Zenon DEF Heard, Room
<1>4. Settled(k) => Settled(e)
  BY <1>1, Zenon DEF Settled, Over
<1>5. \A ev, p : EventOK(ev, p, k) => EventOK(ev, p, e)
  BY <1>1, Zenon DEF EventOK, Over
<1> QED
  BY <1>1, <1>2, <1>3, <1>4, <1>5, Zenon DEF EndKept, e

LEMMA EndKeptFinished ==
  ASSUME NEW R, NEW k \in ConnRec(R)
  PROVE  EndKept(R, k, Finished(k))
<1> DEFINE e == Finished(k)
<1>1. /\ e.sending = k.sending /\ e.fin = TRUE /\ e.rst = k.rst /\ e.unread = k.unread
      /\ e.sent = k.sent /\ e.done = k.done /\ e.answers = k.answers /\ e.got = k.got
      /\ e.full = k.full /\ e.deferred = k.deferred /\ e.ended = k.ended
  BY DEF ConnRec, Finished
<1> HIDE DEF e
<1>2. \A p : Stream(p, k) => Stream(p, e)
  BY <1>1, Zenon DEF Stream
<1>3. Heard(k) => Heard(e)
  BY <1>1, Zenon DEF Heard, Room
<1>4. Settled(k) => Settled(e)
  BY <1>1, Zenon DEF Settled, Over
<1>5. \A ev, p : EventOK(ev, p, k) => EventOK(ev, p, e)
  BY <1>1, Zenon DEF EventOK, Over
<1> QED
  BY <1>1, <1>2, <1>3, <1>4, <1>5, Zenon DEF EndKept, e

LEMMA EndKeptDrained ==
  ASSUME NEW R, NEW k \in ConnRec(R)
  PROVE  EndKept(R, k, Drained(k))
<1> DEFINE e == Drained(k)
<1>1. /\ e.sending = k.sending /\ e.fin = k.fin /\ e.rst = k.rst /\ e.unread = 0
      /\ e.sent = k.sent /\ e.done = k.done /\ e.answers = k.answers /\ e.got = k.got
      /\ e.full = k.full /\ e.deferred = k.deferred /\ e.ended = k.ended
  BY DEF ConnRec, Drained
<1>a. 0 < Window
  BY RigctldAssumption
<1> HIDE DEF e
<1>2. \A p : Stream(p, k) => Stream(p, e)
  BY <1>1, Zenon DEF Stream
<1>3. Heard(k) => Heard(e)
  BY <1>1, <1>a, Zenon DEF Heard, Room
<1>4. Settled(k) => Settled(e)
  BY <1>1, Zenon DEF Settled, Over
<1>5. \A ev, p : EventOK(ev, p, k) => EventOK(ev, p, e)
  BY <1>1, Zenon DEF EventOK, Over
<1> QED
  BY <1>1, <1>2, <1>3, <1>4, <1>5, Zenon DEF EndKept, e

LEMMA EndKeptReset ==
  ASSUME NEW R, NEW k \in ConnRec(R)
  PROVE  EndKept(R, k, ResetEnd(k))
<1> DEFINE e == ResetEnd(k)
<1>1. /\ e.rst = TRUE /\ e.unread = k.unread
      /\ e.full = k.full /\ e.deferred = k.deferred /\ e.ended = k.ended
  BY DEF ConnRec, ResetEnd
<1> HIDE DEF e
<1>2. \A p : Stream(p, e)
  BY <1>1, Zenon DEF Stream
<1>3. Heard(k) => Heard(e)
  BY <1>1, Zenon DEF Heard, Room
<1>4. Settled(e)
  BY <1>1, Zenon DEF Settled, Over
<1>5. \A ev, p : EventOK(ev, p, k) => EventOK(ev, p, e)
  BY <1>1, Zenon DEF EventOK, Over
<1> QED
  BY <1>1, <1>2, <1>3, <1>4, <1>5, Zenon DEF EndKept, e

\* A line that is sent joins the stream; the stream has not ended.
LEMMA EndKeptSent ==
  ASSUME NEW R, NEW k \in ConnRec(R), NEW cmd \in Commands, ~k.fin
  PROVE  EndKept(R, k, Sent(k, cmd))
<1> DEFINE e == Sent(k, cmd)
           s == k.sending \o <<cmd, NL>>
           n == k.sent + 1
<1>1. /\ e.sending = s /\ e.fin = k.fin /\ e.rst = k.rst /\ e.unread = k.unread
      /\ e.sent = n /\ e.done = k.done /\ e.answers = k.answers /\ e.got = k.got
      /\ e.full = k.full /\ e.deferred = k.deferred /\ e.ended = k.ended
  <2> HIDE DEF s, n
  <2>1. LET z == [[k EXCEPT !.sending = s] EXCEPT !.sent = n]
        IN  /\ z.sending = s /\ z.fin = k.fin /\ z.rst = k.rst /\ z.unread = k.unread
            /\ z.sent = n /\ z.done = k.done /\ z.answers = k.answers /\ z.got = k.got
            /\ z.full = k.full /\ z.deferred = k.deferred /\ z.ended = k.ended
    BY DEF ConnRec
  <2> QED
    BY <2>1, Zenon DEF Sent, s, n
<1> HIDE DEF e
<1>2. ASSUME NEW p \in ClientRec(R), Stream(p, k) PROVE Stream(p, e)
  <2> SUFFICES ASSUME ~k.rst, k.ended # "quit"
               PROVE  e.done <= e.sent /\ Lines(p.read_buffer \o e.sending, e.sent - e.done)
    BY <1>1, Zenon DEF Stream
  <2>1. /\ k.done \in Nat /\ k.sent \in Nat /\ p.read_buffer \in Seq(Pieces)
        /\ k.sending \in Seq(Pieces)
    BY <1>2 DEF ConnRec, ClientRec
  <2>2. k.done <= k.sent /\ Lines(p.read_buffer \o k.sending, k.sent - k.done)
    BY <1>2, Zenon DEF Stream
  <2>3. k.sent - k.done \in Nat /\ k.done <= n /\ n - k.done = k.sent - k.done + 1
    BY <2>1, <2>2
  <2>4. Lines(p.read_buffer \o s, k.sent - k.done + 1)
    BY <2>1, <2>2, <2>3, OneMoreLine, Zenon
  <2> HIDE DEF s, n
  <2> QED
    BY <1>1, <2>3, <2>4, Zenon
<1>3. Heard(k) => Heard(e)
  BY <1>1, Zenon DEF Heard, Room
<1>4. Settled(k) => Settled(e)
  BY <1>1, Zenon DEF Settled, Over
<1>5. \A ev, p : EventOK(ev, p, k) => EventOK(ev, p, e)
  <2>1. s # <<>>
    BY DEF ConnRec
  <2> HIDE DEF s
  <2> QED
    BY <1>1, <2>1, Zenon DEF EventOK, Over
<1> QED
  BY <1>1, <1>2, <1>3, <1>4, <1>5, Zenon DEF EndKept, e

\* Clients that were there before keep what was promised of them, and one that is
\* new has nothing to wait for.
Framed(R, pc, pc2, cs, cs2, cn, cn2, rv) ==
  /\ pc2 = pc \/ (pc = "accept" /\ pc2 = "serve")
  /\ \A d \in Conns : EndKept(R, cn[d], cn2[d])
  /\ DOMAIN cs \subseteq DOMAIN cs2
  /\ \A f \in DOMAIN cs : cs2[f] = cs[f] /\ cs[f] \in ClientRec(R) /\ cs[f].conn \in Conns
  /\ \A f \in DOMAIN cs2 \ DOMAIN cs :
       LET k == cn2[cs2[f].conn] IN Stream(cs2[f], k) /\ Clean(cs2[f], k) /\ ~Over(k)
  /\ \A i \in 1 .. Len(rv) : rv[i].fd \in DOMAIN cs
  /\ pc \in {"lines", "write"} => Head(rv).fd \in DOMAIN cs

LEMMA AnswerFrame ==
  ASSUME NEW R, NEW pc, NEW pc2, NEW cs, NEW cs2, NEW cn, NEW cn2, NEW rv, NEW marks,
         AnswerOK(pc, cs, cn, rv, marks), Framed(R, pc, pc2, cs, cs2, cn, cn2, rv)
  PROVE  AnswerOK(pc2, cs2, cn2, rv, marks)
<1> SUFFICES ASSUME pc2 = pc \/ (pc = "accept" /\ pc2 = "serve"),
                    \A d \in Conns : EndKept(R, cn[d], cn2[d]),
                    DOMAIN cs \subseteq DOMAIN cs2,
                    \A f \in DOMAIN cs : cs2[f] = cs[f] /\ cs[f] \in ClientRec(R) /\ cs[f].conn \in Conns,
                    \A f \in DOMAIN cs2 \ DOMAIN cs :
                      LET k == cn2[cs2[f].conn] IN Stream(cs2[f], k) /\ Clean(cs2[f], k) /\ ~Over(k),
                    \A i \in 1 .. Len(rv) : rv[i].fd \in DOMAIN cs,
                    pc \in {"lines", "write"} => Head(rv).fd \in DOMAIN cs
             PROVE  AnswerOK(pc2, cs2, cn2, rv, marks)
  BY Zenon DEF Framed
<1>1. /\ pc \in Serving => pc2 \in Serving
      /\ pc2 \in {"lines", "write"} => pc \in {"lines", "write"}
      /\ pc \in {"lines", "write"} => pc2 \in {"lines", "write"}
      /\ pc2 = "lines" <=> pc = "lines"
      /\ pc2 = "write" <=> pc = "write"
  BY DEF Serving
<1>2. \A d \in Conns : /\ cn2[d].ended = cn[d].ended /\ cn2[d].full = cn[d].full
                       /\ cn2[d].deferred = cn[d].deferred
                       /\ Heard(cn[d]) => Heard(cn2[d])
                       /\ Settled(cn[d]) => Settled(cn2[d])
  BY Zenon DEF EndKept
<1>3. ASSUME NEW f \in DOMAIN cs
      PROVE  /\ cs2[f] = cs[f] /\ cs[f].conn \in Conns
             /\ Stream(cs[f], cn[cs[f].conn]) => Stream(cs[f], cn2[cs[f].conn])
             /\ Clean(cs[f], cn[cs[f].conn]) => Clean(cs[f], cn2[cs[f].conn])
             /\ Over(cn[cs[f].conn]) <=> Over(cn2[cs[f].conn])
             /\ \A ev : EventOK(ev, cs[f], cn[cs[f].conn]) => EventOK(ev, cs[f], cn2[cs[f].conn])
  <2> DEFINE k == cn[cs[f].conn]
             e == cn2[cs[f].conn]
  <2>1. cs2[f] = cs[f] /\ cs[f] \in ClientRec(R) /\ cs[f].conn \in Conns
    BY Zenon
  <2>2. EndKept(R, k, e)
    BY <2>1, Zenon
  <2> HIDE DEF k, e
  <2>3. e.ended = k.ended /\ e.full = k.full /\ e.deferred = k.deferred
    BY <2>2, Zenon DEF EndKept
  <2>4. Clean(cs[f], k) => Clean(cs[f], e)
    BY <2>3, Zenon DEF Clean
  <2>5. Over(k) <=> Over(e)
    BY <2>3, Zenon DEF Over
  <2>6. Stream(cs[f], k) => Stream(cs[f], e)
    BY <2>1, <2>2, Zenon DEF EndKept
  <2>7. \A ev : EventOK(ev, cs[f], k) => EventOK(ev, cs[f], e)
    BY <2>2, Zenon DEF EndKept
  <2> QED
    BY <2>1, <2>4, <2>5, <2>6, <2>7, Zenon DEF k, e
<1>4. StreamsKept(cs2, cn2)
  <2>1. \A f \in DOMAIN cs : Stream(cs2[f], cn2[cs2[f].conn])
    BY <1>3, Zenon DEF AnswerOK, StreamsKept
  <2> QED
    BY <2>1, Zenon DEF StreamsKept
<1>5. LinesTaken(pc2, cs2, cn2, rv)
  <2>1. \A f \in DOMAIN cs : (pc2 = "lines" /\ f = Head(rv).fd) \/ Clean(cs2[f], cn2[cs2[f].conn])
    BY <1>1, <1>3, Zenon DEF AnswerOK, LinesTaken
  <2> QED
    BY <2>1, Zenon DEF LinesTaken
<1>6. EndsMarked(pc2, cs2, cn2, marks)
  <2>1. \A f \in DOMAIN cs : Over(cn2[cs2[f].conn]) => pc2 \in Serving /\ f \in marks
    BY <1>1, <1>3, Zenon DEF AnswerOK, EndsMarked
  <2> QED
    BY <2>1, Zenon DEF EndsMarked
<1>7. AllHeard(cn2)
  BY <1>2, Zenon DEF AnswerOK, AllHeard
<1>8. AllSettled(pc2, cs2, cn2, rv)
  <2>1. pc = "write" => cs2[Head(rv).fd] = cs[Head(rv).fd]
    <3>1. pc = "write" => pc \in {"lines", "write"}
      OBVIOUS
    <3> QED
      BY <1>3, <3>1, Zenon
  <2>2. \A c \in Conns :
          (pc = "write" /\ c = cs[Head(rv).fd].conn /\ cn[c].ended = "eof") \/ Settled(cn[c])
    BY Zenon DEF AnswerOK, AllSettled
  <2> QED
    BY <1>1, <1>2, <2>1, <2>2, Zenon DEF AllSettled
<1>9. EventsHold(pc2, cs2, cn2, rv)
  <2>1. \A i \in 1 .. Len(rv) : \/ i = 1 /\ pc \in {"lines", "write"}
                                \/ EventOK(rv[i], cs[rv[i].fd], cn[cs[rv[i].fd].conn])
    BY Zenon DEF AnswerOK, EventsHold
  <2>2. \A i \in 1 .. Len(rv) : \/ i = 1 /\ pc \in {"lines", "write"}
                                \/ EventOK(rv[i], cs2[rv[i].fd], cn2[cs2[rv[i].fd].conn])
    BY <1>3, <2>1, Zenon
  <2> QED
    BY <1>1, <2>2, Zenon DEF EventsHold
<1>10. HeadServed(pc2, Head(rv), cs2[Head(rv).fd], cn2[cs2[Head(rv).fd].conn])
  <2>1. CASE pc \in {"lines", "write"}
    <3> DEFINE p == cs[Head(rv).fd]
               k == cn[p.conn]
               e == cn2[p.conn]
    <3>1. cs2[Head(rv).fd] = p /\ p.conn \in Conns
      BY <1>3, <2>1, Zenon
    <3>2. HeadServed(pc, Head(rv), p, k)
      BY Zenon DEF AnswerOK
    <3>3. e.ended = k.ended /\ e.full = k.full
      BY <1>2, <3>1, Zenon
    <3> HIDE DEF p, k, e
    <3>4. HeadServed(pc2, Head(rv), p, e)
      BY <1>1, <3>2, <3>3, Zenon DEF HeadServed, Over
    <3> QED
      BY <3>1, <3>4, Zenon DEF p, e
  <2>2. CASE pc \notin {"lines", "write"}
    <3>1. pc2 # "lines" /\ pc2 # "write"
      BY <1>1, <2>2
    <3> QED
      BY <3>1, Zenon DEF HeadServed
  <2> QED
    BY <2>1, <2>2
<1> QED
  BY <1>4, <1>5, <1>6, <1>7, <1>8, <1>9, <1>10, Zenon DEF AnswerOK

\* Between two turns no client has ended.
Calm(cs, cn) ==
  /\ \A f \in DOMAIN cs :
       LET k == cn[cs[f].conn] IN Stream(cs[f], k) /\ Clean(cs[f], k) /\ ~Over(k)
  /\ \A c \in Conns : Heard(cn[c]) /\ Settled(cn[c])

LEMMA AnswersCalm ==
  ASSUME NEW pc, NEW cs, NEW cn, NEW rv, NEW marks, AnswerOK(pc, cs, cn, rv, marks), pc \notin Serving
  PROVE  Calm(cs, cn)
<1>1. pc # "lines" /\ pc # "write"
  BY DEF Serving
<1>2. \A f \in DOMAIN cs : Stream(cs[f], cn[cs[f].conn])
  BY Zenon DEF AnswerOK, StreamsKept
<1>3. \A f \in DOMAIN cs : Clean(cs[f], cn[cs[f].conn])
  BY <1>1, Zenon DEF AnswerOK, LinesTaken
<1>4. \A f \in DOMAIN cs : ~Over(cn[cs[f].conn])
  BY Zenon DEF AnswerOK, EndsMarked
<1>5. \A c \in Conns : Heard(cn[c])
  BY Zenon DEF AnswerOK, AllHeard
<1>6. \A c \in Conns : Settled(cn[c])
  BY <1>1, Zenon DEF AnswerOK, AllSettled
<1> QED
  BY <1>2, <1>3, <1>4, <1>5, <1>6, Zenon DEF Calm

LEMMA CalmAnswers ==
  ASSUME NEW pc, NEW cs, NEW cn, NEW rv, NEW marks, Calm(cs, cn), pc # "lines", pc # "write",
         \A i \in 1 .. Len(rv) : EventOK(rv[i], cs[rv[i].fd], cn[cs[rv[i].fd].conn])
  PROVE  AnswerOK(pc, cs, cn, rv, marks)
<1>1. StreamsKept(cs, cn)
  BY Zenon DEF Calm, StreamsKept
<1>2. LinesTaken(pc, cs, cn, rv)
  BY Zenon DEF Calm, LinesTaken
<1>3. EndsMarked(pc, cs, cn, marks)
  BY Zenon DEF Calm, EndsMarked
<1>4. AllHeard(cn)
  BY Zenon DEF Calm, AllHeard
<1>5. AllSettled(pc, cs, cn, rv)
  BY Zenon DEF Calm, AllSettled
<1>6. EventsHold(pc, cs, cn, rv)
  BY Zenon DEF EventsHold
<1>7. HeadServed(pc, Head(rv), cs[Head(rv).fd], cn[cs[Head(rv).fd].conn])
  BY Zenon DEF HeadServed
<1> QED
  BY <1>1, <1>2, <1>3, <1>4, <1>5, <1>6, <1>7, Zenon DEF AnswerOK

LEMMA ClientsTyped ==
  ASSUME NEW R, Typed(R), ServeInv
  PROVE  /\ \A f \in DOMAIN clients : clients[f] \in ClientRec(R) /\ clients[f].conn \in Conns
         /\ \A i \in 1 .. Len(revents) : revents[i].fd \in DOMAIN clients
         /\ wk_pc \in {"lines", "write"} => Head(revents).fd \in DOMAIN clients
<1>1. \A f \in DOMAIN clients : clients[f] \in ClientRec(R)
  BY Zenon DEF Typed
<1>2. \A f \in DOMAIN clients : clients[f].conn \in Conns
  BY <1>1 DEF ClientRec
<1>3. \A i \in 1 .. Len(revents) : revents[i].fd \in DOMAIN clients
  BY Zenon DEF ServeInv
<1>4. wk_pc \in {"lines", "write"} => Head(revents).fd \in DOMAIN clients
  <2> SUFFICES ASSUME wk_pc \in {"lines", "write"} PROVE Head(revents).fd \in DOMAIN clients
    OBVIOUS
  <2>1. revents # <<>> /\ revents \in Seq(Event)
    BY Zenon DEF ServeInv
  <2>2. 1 \in 1 .. Len(revents) /\ Head(revents) = revents[1]
    BY <2>1
  <2> QED
    BY <1>3, <2>2, Zenon
<1> QED
  BY <1>1, <1>2, <1>3, <1>4

\* A client's step.
LEMMA AnswerEndStep ==
  ASSUME NEW R, Typed(R), ServeInv, AnswerInv, NEW c \in Conns, EndSteps(c), UNCHANGED worker
  PROVE  AnswerInv'
<1>1. clients' = clients /\ wk_pc' = wk_pc /\ revents' = revents /\ fds_to_remove' = fds_to_remove
  BY Zenon DEF worker
<1>2. conn \in [Conns -> ConnRec(R)] /\ conn[c] \in ConnRec(R)
  BY Zenon DEF Typed
<1>3. ASSUME NEW e, conn' = [conn EXCEPT ![c] = e], EndKept(R, conn[c], e) PROVE AnswerInv'
  <2>1. \A d \in Conns : EndKept(R, conn[d], conn'[d])
    <3> SUFFICES ASSUME NEW d \in Conns PROVE EndKept(R, conn[d], conn'[d])
      OBVIOUS
    <3>1. d = c => conn'[d] = e
      BY <1>2, <1>3, Zenon
    <3>2. d # c => conn'[d] = conn[d]
      BY <1>2, <1>3, Zenon
    <3>3. EndKept(R, conn[d], conn[d])
      BY EndKeptSame, Zenon
    <3> QED
      BY <1>3, <3>1, <3>2, <3>3, Zenon
  <2>2. Framed(R, wk_pc, wk_pc, clients, clients, conn, conn', revents)
    <3>1. \A f \in DOMAIN clients : clients[f] \in ClientRec(R) /\ clients[f].conn \in Conns
      BY ClientsTyped, Zenon
    <3>2. \A i \in 1 .. Len(revents) : revents[i].fd \in DOMAIN clients
      BY ClientsTyped, Zenon
    <3>3. wk_pc \in {"lines", "write"} => Head(revents).fd \in DOMAIN clients
      BY ClientsTyped, Zenon
    <3> QED
      BY <2>1, <3>1, <3>2, <3>3, Zenon DEF Framed
  <2>3. AnswerOK(wk_pc, clients, conn', revents, fds_to_remove)
    BY <2>2, AnswerFrame, Zenon DEF AnswerInv
  <2> QED
    BY <1>1, <2>3, Zenon DEF AnswerInv
<1>4. CASE conn' = [conn EXCEPT ![c] = Connected(conn[c])]
  <2>1. EndKept(R, conn[c], Connected(conn[c]))
    BY <1>2, EndKeptStage, Zenon DEF Connected
  <2> QED
    BY <1>3, <1>4, <2>1, Zenon
<1>5. CASE conn' = [conn EXCEPT ![c] = Finished(conn[c])]
  <2>1. EndKept(R, conn[c], Finished(conn[c]))
    BY <1>2, EndKeptFinished, Zenon
  <2> QED
    BY <1>3, <1>5, <2>1, Zenon
<1>6. CASE conn' = [conn EXCEPT ![c] = ResetEnd(conn[c])]
  <2>1. EndKept(R, conn[c], ResetEnd(conn[c]))
    BY <1>2, EndKeptReset, Zenon
  <2> QED
    BY <1>3, <1>6, <2>1, Zenon
<1>7. CASE conn' = [conn EXCEPT ![c] = Drained(conn[c])]
  <2>1. EndKept(R, conn[c], Drained(conn[c]))
    BY <1>2, EndKeptDrained, Zenon
  <2> QED
    BY <1>3, <1>7, <2>1, Zenon
<1>8. ASSUME NEW cmd \in Commands, CanSend(c), conn' = [conn EXCEPT ![c] = Sent(conn[c], cmd)]
      PROVE  AnswerInv'
  <2>1. ~conn[c].fin
    BY <1>8, Zenon DEF CanSend
  <2>2. EndKept(R, conn[c], Sent(conn[c], cmd))
    BY <1>2, <1>8, <2>1, EndKeptSent, Zenon
  <2> QED
    BY <1>3, <1>8, <2>2, Zenon
<1> QED
  BY <1>4, <1>5, <1>6, <1>7, <1>8, EndCases, Zenon

\* A client that is accepted has sent nothing yet.
LEMMA AnswerAccept ==
  ASSUME NEW R, Typed(R), ServeInv, RepliesInv, AnswerInv, NEW c, NEW fd, Accept(c), Accepted(R, c, fd)
  PROVE  AnswerInv'
<1>1. wk_pc = "accept" /\ wk_pc' = "serve" /\ revents' = revents /\ fds_to_remove' = fds_to_remove
  BY Zenon DEF Accept
<1>2. /\ c \in Conns /\ conn[c].stage = "queued" /\ fd \in Conns \ DOMAIN clients
      /\ DOMAIN clients' = DOMAIN clients \union {fd}
      /\ clients'[fd] = [conn |-> c, read_buffer |-> <<>>, write_buffer |-> <<>>]
      /\ \A f \in DOMAIN clients : clients'[f] = clients[f]
      /\ conn'[c] = [conn[c] EXCEPT !.stage = "open"]
      /\ \A d \in Conns : d # c => conn'[d] = conn[d]
  BY Zenon DEF Accepted
<1>3. conn[c] \in ConnRec(R)
  BY <1>2, Zenon DEF Typed
<1>4. \A d \in Conns : EndKept(R, conn[d], conn'[d])
  <2>0. EndKept(R, conn[c], [conn[c] EXCEPT !.stage = "open"])
    BY <1>3, EndKeptStage, Zenon
  <2>1. EndKept(R, conn[c], conn'[c])
    BY <1>2, <2>0, Zenon
  <2>2. \A d \in Conns : EndKept(R, conn[d], conn[d])
    BY EndKeptSame, Zenon
  <2> QED
    BY <1>2, <2>1, <2>2, Zenon
<1>5. Fresh(conn[c])
  <2>1. conn[c].stage \in {"none", "queued"}
    BY <1>2
  <2> QED
    BY <1>2, <2>1, Zenon DEF RepliesInv
<1>6. LET k == conn'[clients'[fd].conn]
      IN  Stream(clients'[fd], k) /\ Clean(clients'[fd], k) /\ ~Over(k)
  <2> DEFINE e == conn'[c]
             p == clients'[fd]
  <2>1. p.conn = c /\ p.read_buffer = <<>>
    BY <1>2
  <2>2. e.sending = <<>> /\ e.sent = 0 /\ e.done = 0 /\ e.ended = "no"
    <3> DEFINE k == conn[c]
    <3>1. k.sending = <<>> /\ k.sent = 0 /\ k.done = 0 /\ k.ended = "no" /\ k \in ConnRec(R)
      BY <1>3, <1>5, Zenon DEF Fresh
    <3>2. e = [k EXCEPT !.stage = "open"]
      BY <1>2, Zenon
    <3> HIDE DEF k, e
    <3> QED
      BY <3>1, <3>2 DEF ConnRec
  <2> HIDE DEF e, p
  <2>3. ~Over(e)
    BY <2>2 DEF Over
  <2>4. ~Contains(<<>>, NL)
    BY DEF Contains
  <2>5. Clean(p, e)
    BY <2>1, <2>4, Zenon DEF Clean
  <2>6. 0 - 0 = 0 /\ 0 <= 0
    OBVIOUS
  <2>7. Stream(p, e)
    BY <2>1, <2>2, <2>6, NoLines, Zenon DEF Stream
  <2> QED
    BY <2>1, <2>3, <2>5, <2>7, Zenon DEF e, p
<1>7. Framed(R, "accept", "serve", clients, clients', conn, conn', revents)
  <2>1. \A f \in DOMAIN clients : clients[f] \in ClientRec(R) /\ clients[f].conn \in Conns
    BY ClientsTyped, Zenon
  <2>2. \A i \in 1 .. Len(revents) : revents[i].fd \in DOMAIN clients
    BY ClientsTyped, Zenon
  <2>3. "accept" \notin {"lines", "write"}
    OBVIOUS
  <2>4. DOMAIN clients \subseteq DOMAIN clients' /\ \A f \in DOMAIN clients' \ DOMAIN clients : f = fd
    BY <1>2, Zenon
  <2> QED
    BY <1>2, <1>4, <1>6, <2>1, <2>2, <2>3, <2>4, Zenon DEF Framed
<1>8. AnswerOK("serve", clients', conn', revents, fds_to_remove)
  <2>1. AnswerOK("accept", clients, conn, revents, fds_to_remove)
    BY <1>1, Zenon DEF AnswerInv
  <2> QED
    BY <1>7, <2>1, AnswerFrame, Zenon
<1> QED
  BY <1>1, <1>8, Zenon DEF AnswerInv

\* poll() finds every client that has something to say, and every one a reply waits
\* for, unless its window is full.
LEMMA AnswerPoll ==
  ASSUME NEW R, Typed(R), ServeInv, PfdsInv, AnswerInv, Poll
  PROVE  AnswerInv'
<1>1. /\ wk_pc = "poll" /\ revents' = Reported /\ clients' = clients /\ conn' = conn
      /\ wk_pc' = IF Waiting # {} THEN "accept" ELSE IF Reported # <<>> THEN "serve" ELSE "top"
  BY Zenon DEF Poll, outside
<1>2. wk_pc \notin Serving /\ wk_pc' # "lines" /\ wk_pc' # "write"
  BY <1>1 DEF Serving
<1>3. ReportOK
  BY PollTables, Zenon
<1>4. Calm(clients, conn)
  BY <1>2, AnswersCalm, Zenon DEF AnswerInv
<1>5. ASSUME NEW i \in 1 .. Len(Reported)
      PROVE  EventOK(Reported[i], clients[Reported[i].fd], conn[clients[Reported[i].fd].conn])
  <2> DEFINE ev == Reported[i]
             p == clients[ev.fd]
             k == conn[p.conn]
  <2>1. FreshEvent(ev)
    BY <1>3, Zenon DEF ReportOK
  <2>2. ev.fd \in DOMAIN clients /\ ev.in = (k.sending # <<>> \/ k.fin)
        /\ ev.out = (p.write_buffer # <<>> /\ k.unread < Window)
    BY <2>1, Zenon DEF FreshEvent
  <2>3. p.conn \in Conns
    BY <2>2, ClientsTyped, Zenon
  <2>4. ~Over(k)
    BY <1>4, <2>2, Zenon DEF Calm
  <2>5. Room(k)
    BY <1>4, <2>3, Zenon DEF Calm, Heard
  <2>6. ~k.full => (ev.out <=> p.write_buffer # <<>>)
    BY <2>2, <2>5, Zenon DEF Room
  <2>7. ev.in => k.sending # <<>> \/ k.fin \/ k.rst
    BY <2>2, Zenon
  <2> HIDE DEF ev, p, k
  <2>8. EventOK(ev, p, k)
    BY <2>4, <2>6, <2>7, Zenon DEF EventOK
  <2> QED
    BY <2>8, Zenon DEF ev, p, k
<1>6. AnswerOK(wk_pc', clients, conn, Reported, fds_to_remove')
  BY <1>2, <1>4, <1>5, CalmAnswers, Zenon
<1> QED
  BY <1>1, <1>6, Zenon DEF AnswerInv

\* A step between turns that leaves the connections alone.
LEMMA AnswerQuiet ==
  ASSUME ServeInv, AnswerInv, UNCHANGED <<clients, conn, revents, fds_to_remove>>,
         wk_pc' = wk_pc \/ (wk_pc \notin Serving /\ wk_pc' \in {"init", "top", "poll", "done"})
  PROVE  AnswerInv'
<1>0. clients' = clients /\ conn' = conn /\ revents' = revents /\ fds_to_remove' = fds_to_remove
  OBVIOUS
<1>1. CASE wk_pc' = wk_pc
  BY <1>0, <1>1, Zenon DEF AnswerInv
<1>2. CASE wk_pc \notin Serving /\ wk_pc' \in {"init", "top", "poll", "done"}
  <2>1. wk_pc' # "lines" /\ wk_pc' # "write"
    BY <1>2
  <2>2. Calm(clients, conn)
    BY <1>2, AnswersCalm, Zenon DEF AnswerInv
  <2>3. revents = <<>>
    BY <1>2, Zenon DEF ServeInv
  <2>4. \A i \in 1 .. Len(revents) : EventOK(revents[i], clients[revents[i].fd], conn[clients[revents[i].fd].conn])
    <3>1. \A i \in 1 .. Len(revents) : FALSE
      BY <2>3
    <3> QED
      BY <3>1, Zenon
  <2>5. AnswerOK(wk_pc', clients, conn, revents, fds_to_remove)
    BY <2>1, <2>2, <2>4, CalmAnswers, Zenon
  <2> QED
    BY <1>0, <2>5, Zenon DEF AnswerInv
<1> QED
  BY <1>1, <1>2, Zenon

\* Clients are closed at the end of a turn, or for the rig.
LEMMA AnswerClose ==
  ASSUME NEW R, Typed(R), NEW X, Closing(R, X), wk_pc' # "lines", wk_pc' # "write", revents' = <<>>,
         \A f \in DOMAIN clients \ X :
           LET k == conn[clients[f].conn] IN Stream(clients[f], k) /\ Clean(clients[f], k) /\ ~Over(k),
         OwnInv, \A c \in Conns : Heard(conn[c]) /\ Settled(conn[c]),
         \A c \in ConnsOf(X) : Heard(conn'[c]) /\ Settled(conn'[c])
  PROVE  AnswerInv'
<1>1. /\ X \subseteq DOMAIN clients /\ DOMAIN clients' = DOMAIN clients \ X
      /\ \A f \in DOMAIN clients \ X : clients'[f] = clients[f]
      /\ \A c \in Conns : c \notin ConnsOf(X) => conn'[c] = conn[c]
  BY Zenon DEF Closing
<1>2. \A c \in Conns : Heard(conn'[c]) /\ Settled(conn'[c])
  BY <1>1, Zenon
<1>3. \A f \in DOMAIN clients \ X : conn'[clients[f].conn] = conn[clients[f].conn]
  <2>1. \A f \in DOMAIN clients : clients[f] \in ClientRec(R)
    BY Zenon DEF Typed
  <2>2. \A f \in DOMAIN clients : clients[f].conn \in Conns
    BY <2>1 DEF ClientRec
  <2>3. ASSUME NEW f \in DOMAIN clients \ X, clients[f].conn \in ConnsOf(X) PROVE FALSE
    <3>1. PICK g \in X : clients[g].conn = clients[f].conn
      BY <2>3 DEF ConnsOf
    <3>2. g \in DOMAIN clients /\ f \in DOMAIN clients /\ g # f
      BY <1>1, Zenon
    <3> QED
      BY <3>1, <3>2, Zenon DEF OwnInv
  <2> QED
    BY <1>1, <2>2, <2>3, Zenon
<1>4. \A f \in DOMAIN clients' :
        LET k == conn'[clients'[f].conn] IN Stream(clients'[f], k) /\ Clean(clients'[f], k) /\ ~Over(k)
  BY <1>1, <1>3, Zenon
<1>5. Calm(clients', conn')
  BY <1>2, <1>4, Zenon DEF Calm
<1>6. \A i \in 1 .. Len(revents') : FALSE
  OBVIOUS
<1>7. AnswerOK(wk_pc', clients', conn', revents', fds_to_remove')
  <2>1. \A i \in 1 .. Len(revents') :
          EventOK(revents'[i], clients'[revents'[i].fd], conn'[clients'[revents'[i].fd].conn])
    BY <1>6, Zenon
  <2> QED
    BY <1>5, <2>1, CalmAnswers, Zenon
<1> QED
  BY <1>7, Zenon DEF AnswerInv

LEMMA ClosedFields ==
  ASSUME NEW R, NEW k \in ConnRec(R), Heard(k), Settled(k)
  PROVE  /\ Heard([k EXCEPT !.stage = "closed"]) /\ Settled([k EXCEPT !.stage = "closed"])
         /\ Heard([k EXCEPT !.stage = "closed", !.ended = "rig"])
         /\ Settled([k EXCEPT !.stage = "closed", !.ended = "rig"])
<1> DEFINE e == [k EXCEPT !.stage = "closed", !.ended = "rig"]
<1>1. EndKept(R, k, [k EXCEPT !.stage = "closed"])
  BY EndKeptStage, Zenon
<1>2. Heard([k EXCEPT !.stage = "closed"]) /\ Settled([k EXCEPT !.stage = "closed"])
  BY <1>1, Zenon DEF EndKept
<1>3. e.ended = "rig" /\ e.full = k.full /\ e.unread = k.unread
  BY DEF ConnRec
<1> HIDE DEF e
<1>4. ~Over(e) /\ e.ended # "eof"
  BY <1>3 DEF Over
<1>5. Heard(e)
  BY <1>3, <1>4, Zenon DEF Heard, Room
<1>6. Settled(e)
  BY <1>4, Zenon DEF Settled
<1> QED
  BY <1>2, <1>5, <1>6, Zenon DEF e

LEMMA AnswerTop ==
  ASSUME NEW R, Typed(R), OwnInv, ServeInv, AnswerInv, Top
  PROVE  AnswerInv'
<1>1. wk_pc = "top" /\ wk_pc' = "poll" /\ revents' = revents /\ fds_to_remove' = fds_to_remove
  BY Zenon DEF Top
<1>2. /\ wk_pc \notin Serving /\ wk_pc' \in {"init", "top", "poll", "done"}
      /\ wk_pc' # "lines" /\ wk_pc' # "write"
  BY <1>1 DEF Serving
<1>3. CASE UNCHANGED <<clients, conn, pfds>>
  <2>1. UNCHANGED <<clients, conn, revents, fds_to_remove>>
    BY <1>1, <1>3, Zenon
  <2> QED
    BY <1>2, <2>1, AnswerQuiet, Zenon
<1>4. CASE /\ Closing(R, DOMAIN clients)
           /\ \A c \in ConnsOf(DOMAIN clients) :
                conn'[c] = [conn[c] EXCEPT !.stage = "closed", !.ended = "rig"]
  <2>1. Calm(clients, conn)
    BY <1>2, AnswersCalm, Zenon DEF AnswerInv
  <2>2. \A c \in Conns : Heard(conn[c]) /\ Settled(conn[c])
    BY <2>1, Zenon DEF Calm
  <2>3. ASSUME NEW c \in ConnsOf(DOMAIN clients) PROVE Heard(conn'[c]) /\ Settled(conn'[c])
    <3>1. c \in Conns
      <4>1. \A f \in DOMAIN clients : clients[f].conn \in Conns
        BY ClientsTyped, Zenon
      <4> QED
        BY <4>1, Zenon DEF ConnsOf
    <3>2. conn[c] \in ConnRec(R) /\ Heard(conn[c]) /\ Settled(conn[c])
      BY <2>2, <3>1, Zenon DEF Typed
    <3>3. conn'[c] = [conn[c] EXCEPT !.stage = "closed", !.ended = "rig"]
      BY <1>4, Zenon
    <3> QED
      BY <3>2, <3>3, ClosedFields, Zenon
  <2>4. revents' = <<>>
    BY <1>1, <1>2, Zenon DEF ServeInv
  <2>5. \A f \in DOMAIN clients \ DOMAIN clients :
          LET k == conn[clients[f].conn] IN Stream(clients[f], k) /\ Clean(clients[f], k) /\ ~Over(k)
    BY <2>1, Zenon DEF Calm
  <2>6. Closing(R, DOMAIN clients)
    BY <1>4, Zenon
  <2> QED
    BY <1>2, <2>2, <2>3, <2>4, <2>5, <2>6, AnswerClose, Zenon
<1> QED
  BY <1>3, <1>4, TopEffect, Zenon

LEMMA AnswerSweep ==
  ASSUME NEW R, Typed(R), OwnInv, ServeInv, AnswerInv, Sweep
  PROVE  AnswerInv'
<1>1. wk_pc = "serve" /\ wk_pc' = "top" /\ revents = <<>> /\ revents' = revents
  BY Zenon DEF Sweep
<1>2. /\ wk_pc # "lines" /\ wk_pc # "write" /\ wk_pc' # "lines" /\ wk_pc' # "write" /\ revents' = <<>>
  BY <1>1
<1>3. AnswerOK(wk_pc, clients, conn, revents, fds_to_remove)
  BY Zenon DEF AnswerInv
<1>4. \A c \in Conns : Heard(conn[c]) /\ Settled(conn[c])
  <2>1. \A c \in Conns : Heard(conn[c])
    BY <1>3, Zenon DEF AnswerOK, AllHeard
  <2>2. \A c \in Conns : Settled(conn[c])
    BY <1>2, <1>3, Zenon DEF AnswerOK, AllSettled
  <2> QED
    BY <2>1, <2>2, Zenon
<1>5. \A f \in DOMAIN clients \ fds_to_remove :
        LET k == conn[clients[f].conn] IN Stream(clients[f], k) /\ Clean(clients[f], k) /\ ~Over(k)
  <2>1. \A f \in DOMAIN clients : Stream(clients[f], conn[clients[f].conn])
    BY <1>3, Zenon DEF AnswerOK, StreamsKept
  <2>2. \A f \in DOMAIN clients : Clean(clients[f], conn[clients[f].conn])
    BY <1>2, <1>3, Zenon DEF AnswerOK, LinesTaken
  <2>3. \A f \in DOMAIN clients : Over(conn[clients[f].conn]) => f \in fds_to_remove
    BY <1>3, Zenon DEF AnswerOK, EndsMarked
  <2> QED
    BY <2>1, <2>2, <2>3, Zenon
<1>6. /\ Closing(R, fds_to_remove)
      /\ \A c \in ConnsOf(fds_to_remove) : conn'[c] = [conn[c] EXCEPT !.stage = "closed"]
  BY SweepEffect, Zenon
<1>7. ASSUME NEW c \in ConnsOf(fds_to_remove) PROVE Heard(conn'[c]) /\ Settled(conn'[c])
  <2>1. c \in Conns
    <3>1. \A f \in DOMAIN clients : clients[f].conn \in Conns
      BY ClientsTyped, Zenon
    <3>2. fds_to_remove \subseteq DOMAIN clients
      BY <1>6, Zenon DEF Closing
    <3> QED
      BY <3>1, <3>2, Zenon DEF ConnsOf
  <2>2. conn[c] \in ConnRec(R) /\ Heard(conn[c]) /\ Settled(conn[c])
    BY <1>4, <2>1, Zenon DEF Typed
  <2>3. conn'[c] = [conn[c] EXCEPT !.stage = "closed"]
    BY <1>6, Zenon
  <2> QED
    BY <2>2, <2>3, ClosedFields, Zenon
<1> QED
  BY <1>2, <1>4, <1>5, <1>6, <1>7, AnswerClose, Zenon

LEMMA AnswerInit ==
  ASSUME Init
  PROVE  AnswerInv
<1>1. wk_pc = "init" /\ clients = <<>> /\ revents = <<>> /\ \A c \in Conns : conn[c] = NewConn
  BY Zenon DEF Init
<1>2. DOMAIN clients = {} /\ (\A i \in 1 .. Len(revents) : FALSE) /\ wk_pc # "lines" /\ wk_pc # "write"
  BY <1>1
<1>3. Heard(NewConn) /\ Settled(NewConn)
  <2>1. NewConn.ended = "no" /\ NewConn.unread = 0 /\ 0 < Window
    BY RigctldAssumption DEF NewConn
  <2>2. NewConn.ended # "eof" /\ NewConn.ended # "quit"
    BY <2>1
  <2>3. Settled(NewConn)
    BY <2>2 DEF Settled, Over
  <2> QED
    BY <2>1, <2>2, <2>3, Zenon DEF Heard, Room
<1>4. Calm(clients, conn)
  BY <1>1, <1>2, <1>3, Zenon DEF Calm
<1>5. \A i \in 1 .. Len(revents) :
        EventOK(revents[i], clients[revents[i].fd], conn[clients[revents[i].fd].conn])
  BY <1>2, Zenon
<1> QED
  BY <1>2, <1>4, <1>5, CalmAnswers, Zenon DEF AnswerInv

LEMMA AnswerStep ==
  ASSUME TableInv, AnswerInv, [Next]_vars
  PROVE  AnswerInv'
<1>1. PICK R : Typed(R)
  BY Zenon DEF TableInv, SomeReplies
<1>2. HandleInv /\ OwnInv /\ ServeInv /\ PfdsInv /\ RepliesInv
  BY Zenon DEF TableInv
<1>3. CASE Quiet
  <2>1. UNCHANGED <<clients, conn, revents, fds_to_remove>>
    BY <1>3, Zenon DEF Quiet
  <2> QED
    BY <1>2, <1>3, <2>1, AnswerQuiet, Zenon DEF Quiet
<1>4. CASE Top
  BY <1>1, <1>2, <1>4, AnswerTop, Zenon
<1>5. CASE Poll
  BY <1>1, <1>2, <1>5, AnswerPoll, Zenon
<1>6. CASE ServeStep
  BY <1>1, <1>2, <1>6, AnswerServeStep, Zenon
<1>7. CASE Sweep
  BY <1>1, <1>2, <1>7, AnswerSweep, Zenon
<1>8. ASSUME NEW c \in Conns, Accept(c) PROVE AnswerInv'
  <2>1. PICK fd : Accepted(R, c, fd)
    BY <1>1, <1>2, <1>8, AcceptEffect, Zenon
  <2> QED
    BY <1>1, <1>2, <1>8, <2>1, AnswerAccept, Zenon
<1>9. ASSUME NEW c \in Conns, EndSteps(c), UNCHANGED worker PROVE AnswerInv'
  BY <1>1, <1>2, <1>9, AnswerEndStep, Zenon
<1> QED
  BY <1>3, <1>4, <1>5, <1>6, <1>7, <1>8, <1>9, StepKinds, Zenon

\* What the two invariants say of a connection that is closed.
LEMMA AnsweredWhenClosed ==
  ASSUME TableInv, AnswerInv
  PROVE  AnsweredBeforeClose
<1>1. PICK R : Typed(R)
  BY Zenon DEF TableInv, SomeReplies
<1>2. OwnInv /\ ServeInv /\ AnswerOK(wk_pc, clients, conn, revents, fds_to_remove)
  BY Zenon DEF TableInv, AnswerInv
<1> SUFFICES ASSUME NEW c \in Conns, conn[c].stage = "closed", conn[c].ended \in {"eof", "quit"},
                    ~conn[c].full, ~conn[c].rst
             PROVE  /\ conn[c].got = conn[c].answers
                    /\ (conn[c].ended = "eof" /\ ~conn[c].deferred) => conn[c].done = conn[c].sent
  BY Zenon DEF AnsweredBeforeClose
<1>3. ~(wk_pc = "write" /\ c = clients[Head(revents).fd].conn)
  <2> SUFFICES ASSUME wk_pc = "write", c = clients[Head(revents).fd].conn PROVE FALSE
    OBVIOUS
  <2>1. wk_pc \in {"lines", "write"}
    OBVIOUS
  <2>2. Head(revents).fd \in DOMAIN clients
    BY <1>1, <1>2, <2>1, ClientsTyped, Zenon
  <2>3. conn[c].stage = "open"
    BY <1>2, <2>2, Zenon DEF OwnInv
  <2> QED
    BY <2>3
<1>4. Settled(conn[c])
  BY <1>2, <1>3, Zenon DEF AnswerOK, AllSettled
<1>5. Heard(conn[c])
  BY <1>2, Zenon DEF AnswerOK, AllHeard
<1>6. conn[c].got = conn[c].answers
  BY <1>4, Zenon DEF Settled, Over
<1> QED
  BY <1>5, <1>6, Zenon DEF Heard

\* A client that ended its stream or quit, and never let its window fill, had every
\* line answered before it was closed, whatever the interleaving of clients,
\* deliveries, faults and turns of work's loop.
THEOREM AnsweredThenClosed == Spec => []AnsweredBeforeClose
<1>1. Init => AnswerInv
  BY AnswerInit
<1>2. TableInv /\ AnswerInv /\ [Next]_vars => AnswerInv'
  BY AnswerStep
<1>3. TableInv /\ AnswerInv => AnsweredBeforeClose
  BY AnsweredWhenClosed
<1> QED
  BY <1>1, <1>2, <1>3, TableInvariant, PTL DEF Spec

==============================================================================
