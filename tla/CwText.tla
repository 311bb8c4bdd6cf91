-------------------------------- MODULE CwText --------------------------------
(***************************************************************************)
(* cw_daemon::to_winkeyer (cw_daemon.cpp): the translation of a cwdaemon   *)
(* message into the bytes the keyer is fed.  A message is either text, a   *)
(* sequence of byte values, or an escape command with its number, already  *)
(* parsed (a number that does not parse throws out of the client thread).  *)
(***************************************************************************)
EXTENDS Integers, Sequences

Minus == 45    \* '-'
Plus  == 43    \* '+'
Tilde == 126   \* '~'
Bar   == 124   \* '|', half a dit of gap
BufferedSpeed == 28

toupper(c) == IF c \in 97 .. 122 THEN c - 32 ELSE c

\* Mutant: every sign counts from the speed of the message.
SpeedFromInitial(a, c, initial) ==
  (initial + (IF c = Plus THEN 2 ELSE -2)) % 256

\* The speed after one more sign, in 8 bits.
SpeedAfter(a, c, initial) == (a.speed + (IF c = Plus THEN 2 ELSE -2)) % 256

\* One byte of a text.  A run of signs becomes one buffered speed change, to the
\* speed after the run (in 8 bits); '~' asks for a gap after the next character;
\* control characters are dropped; NUL and bytes above 127 (a negative char) end
\* the text.
ScanByte(a, c, initial) ==
  IF a.ended \/ c \notin 1 .. 127 THEN [a EXCEPT !.ended = TRUE]
  ELSE IF c \in {Plus, Minus}
    THEN LET speed == SpeedAfter(a, c, initial)
         IN  [a EXCEPT !.speed = speed, !.run = c,
                !.out = IF a.run = c THEN [@ EXCEPT ![Len(@)] = speed]
                                     ELSE @ \o <<BufferedSpeed, speed>>]
  ELSE IF c = Tilde THEN [a EXCEPT !.gap = TRUE, !.run = 0]
  ELSE IF c < 32 THEN [a EXCEPT !.run = 0]
  ELSE [a EXCEPT !.gap = FALSE, !.run = 0,
          !.out = @ \o <<toupper(c)>>
                    \o (IF a.gap THEN <<Bar, Bar, Bar, Bar>> ELSE <<>>)]

\* The speed a text started from is buffered if it ends at another.
Restore(end, initial) ==
  IF end.speed = initial THEN <<>> ELSE <<BufferedSpeed, initial>>

\* The bytes of a text, and the speed to go back to.
TextBytes(chars, initial) ==
  LET start == [out |-> <<>>, speed |-> initial, run |-> 0, gap |-> FALSE,
                ended |-> FALSE]
      scan[i \in 0 .. Len(chars)] ==
        IF i = 0 THEN start ELSE ScanByte(scan[i - 1], chars[i], initial)
      end == scan[Len(chars)]
  IN  end.out \o Restore(end, initial)

\* The weight of ESC 7, in 8 bits and then clamped.
Weight(n) ==
  LET w == (50 + n) % 256 IN IF w < 10 THEN 10 ELSE IF w > 90 THEN 90 ELSE w

\* The translation of a message; a tune command also carries its seconds.
to_winkeyer(msg, initial) ==
  CASE msg.kind = "text"   -> TextBytes(msg.chars, initial)
    [] msg.kind = "speed"  -> <<2, msg.arg % 256>>
    [] msg.kind = "faster" -> <<2, (initial + msg.arg) % 256>>
    [] msg.kind = "slower" -> <<2, (initial - msg.arg) % 256>>
    [] msg.kind = "weight" -> <<3, Weight(msg.arg)>>
    [] msg.kind = "abort"  -> <<10>>
    [] msg.kind = "tune"   -> <<11, 1, msg.arg % 256>>
    [] OTHER               -> <<>>

is_tuning_command(bytes) == Len(bytes) > 2 /\ bytes[1] = 11 /\ bytes[2] = 1
=============================================================================
