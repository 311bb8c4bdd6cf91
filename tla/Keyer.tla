-------------------------------- MODULE Keyer --------------------------------
(***************************************************************************)
(* The Morse keyer of cwsd (keyer/): a buffer of WinKeyer bytes, fed by    *)
(* winkeyer_data(), and a state machine, driven by update(), that turns    *)
(* the buffer into timed elements on the DTR line.  Both run under one     *)
(* mutex, in two threads (CwDaemon composes them).                         *)
(*                                                                         *)
(* update() repeats the current state's update() and switch_to() until a   *)
(* state asks to stay; one action is one turn of that loop, and mtx says   *)
(* whether the loop is under way.  The clock may advance between two turns. *)
(*                                                                         *)
(* cwsd has no paddles and never records or plays a memory, so the states  *)
(* play, key_down and tune are not reached and idle is left for good with  *)
(* the first byte.  A character's pattern is the sequence of its elements; *)
(* the buffer is the queue that CircularBuffer implements.                 *)
(***************************************************************************)
EXTENDS Integers, Sequences

CONSTANTS
  Pattern,         \* char_table: the elements of each character code
  BufSize,         \* capacity of winkeyer_buffer (160)
  Impulse,         \* 1200: milliseconds of one dit at 1 wpm
  U32,             \* the modulus of the millisecond timer
  Mantissa,        \* 2^24: the integers a float tells apart
  MaxTransitions,  \* max_transitions_per_tick
  StartTime        \* how long the process has run when the first text comes

Element == {"dit", "dah"}
Byte == 0 .. 255

\* The capacity and the literals are positive, and patterns are not empty.
ASSUME KeyerAssumption ==
  /\ BufSize \in Nat \ {0} /\ Impulse \in Nat \ {0} /\ StartTime \in Nat
  /\ U32 \in Nat \ {0} /\ Mantissa \in Nat \ {0} /\ MaxTransitions \in Nat \ {0}
  /\ DOMAIN Pattern \subseteq 32 .. 255
  /\ \A c \in DOMAIN Pattern : Pattern[c] \in Seq(Element) /\ Pattern[c] # <<>>

VARIABLES
  clock,                    \* milliseconds since the process began
  mtx, drained, wake,       \* state_mutex; turns of update()'s loop; next tick
  state, deadline,          \* current_state and its time_to_exit
  winkeyer_enabled, playing, inter_char_space_played, sent_element,
  last_send_time,
  buffer,                                    \* winkeyer_buffer
  pending, waiting, argument, remaining_args, \* the byte protocol
  winkeyer_speed, profile_speed, weighting,
  connected, dtr,           \* whether the port is open; the key line
  entered, nominal,         \* history: entry time and length of this element
  up_at, spaces, sent       \* history: last key-up, spaces since, elements

thread   == <<mtx, drained, wake>>
protocol == <<pending, waiting, argument, remaining_args>>
speeds   == <<winkeyer_speed, profile_speed, weighting>>
sending  == <<state, deadline, winkeyer_enabled, playing,
              inter_char_space_played, sent_element, last_send_time>>
history  == <<entered, nominal, up_at, spaces, sent>>
keyerVars == <<clock, thread, sending, buffer, protocol, speeds, connected, dtr,
               history>>

\* init(), then the constructor's set-speed command.
KeyerInit(wpm) ==
  /\ clock = StartTime /\ mtx = "free" /\ drained = 0 /\ wake = StartTime
  /\ state = "idle" /\ deadline = 0 /\ winkeyer_enabled = FALSE
  /\ playing = <<>> /\ inter_char_space_played = TRUE
  /\ sent_element = "none" /\ last_send_time = 0
  /\ buffer = <<>> /\ pending = 2 /\ waiting = 0 /\ argument = wpm
  /\ remaining_args = 0
  /\ winkeyer_speed = wpm /\ profile_speed = wpm /\ weighting = 50
  /\ connected = TRUE /\ dtr = FALSE
  /\ entered = 0 /\ nominal = 0 /\ up_at = 0 /\ spaces = 0 /\ sent = <<>>

-----------------------------------------------------------------------------
(* Lengths, in milliseconds.                                                *)

ms == clock % U32

dit_ms == Impulse \div winkeyer_speed
element_length_ms(e) ==
  IF e = "dit" THEN dit_ms ELSE (3 * Impulse) \div winkeyer_speed
weighted_element_length_ms(e) == (element_length_ms(e) * weighting) \div 50
inter_element_space_length_ms == (dit_ms * (100 - weighting)) \div 50
inter_word_space_length_ms == dit_ms * 6

\* calculate_timings, with the Farnsworth speed equal to the character speed:
\* the spaces of the profile, which buffered speed changes do not touch.  They
\* are floats: the dit is exact for a speed that divides Impulse, and the element
\* space, only ever subtracted before the sum is truncated, is rounded up.
profile_dit_ms == Impulse \div profile_speed
space_between_chars_ms == 3 * profile_dit_ms
weighted_inter_element_space_ms ==
  (profile_dit_ms * (100 - weighting) + 49) \div 50

\* A float holds every integer below Mantissa, then every second one, every
\* fourth one, ...: the nearest of them, ties to the even one.
Float(n) ==
  LET ulp == CHOOSE u \in {1, 2, 4, 8, 16, 32, 64, 128, 256} :
               n < u * Mantissa /\ (u = 1 \/ n >= (u \div 2) * Mantissa)
      q == n \div ulp
      r == n % ulp
  IN  IF 2 * r > ulp \/ (2 * r = ulp /\ q % 2 = 1) THEN (q + 1) * ulp
                                                   ELSE q * ulp

\* The deadline of a character space: the character space less the element
\* space already sent, summed in floats.  Converting a float that 32 bits do
\* not hold is undefined: it wraps or saturates.
AutospaceDeadlines ==
  LET sum == Float(Float(Float(ms) + space_between_chars_ms)
                     - weighted_inter_element_space_ms)
  IN  IF sum < U32 THEN {sum} ELSE {sum % U32, U32 - 1}

-----------------------------------------------------------------------------
(* The key line, and switch_to().                                           *)

on_key(down) == dtr' = IF connected THEN down ELSE dtr

\* The deadline a state sets when it is entered: from the clock, in 32 bits,
\* but for the word space, which counts from the last key-up, and the character
\* space, which is a sum of floats.
EnterDeadlines(next) ==
  CASE next = "send_element" ->
         {(ms + weighted_element_length_ms(sent_element')) % U32}
    [] next = "inter_element_space" ->
         {(ms + inter_element_space_length_ms) % U32}
    [] next = "autospace" -> AutospaceDeadlines
    [] next = "inter_word_space" ->
         {(last_send_time' + inter_word_space_length_ms) % U32}
    [] next = "half_dot_gap" ->
         {(ms + weighted_element_length_ms("dit") \div 2) % U32}
    [] OTHER -> {deadline}

\* The update() just made returned next: stay and unlock, or exit() this state,
\* enter() the next one and go on, up to the cap.
switch_to(next) ==
  /\ state' = next
  /\ IF next = state \/ drained + 1 = MaxTransitions
       THEN mtx' = "free" /\ drained' = 0 /\ wake' = clock + 1
       ELSE mtx' = "keyer" /\ drained' = drained + 1 /\ wake' = wake
  /\ deadline' \in IF next = state THEN {deadline} ELSE EnterDeadlines(next)
  /\ winkeyer_enabled' = (winkeyer_enabled \/ next = "winkeyer")
  /\ IF next = "send_element" /\ state # next
       THEN /\ on_key(TRUE) /\ sent' = Append(sent, sent_element') /\ spaces' = 0
            /\ entered' = clock
            /\ nominal' = weighted_element_length_ms(sent_element')
            /\ up_at' = up_at
       ELSE /\ IF state = "send_element" /\ state # next
                 THEN on_key(FALSE) /\ up_at' = clock
                 ELSE UNCHANGED <<dtr, up_at>>
            /\ spaces' = IF next = "inter_word_space" /\ state # next
                           THEN spaces + 1 ELSE spaces
            /\ UNCHANGED <<sent, entered, nominal>>
  /\ UNCHANGED <<clock, connected>>

\* The keyer thread has the mutex, or wakes and takes it.
Turn == mtx = "keyer" \/ (mtx = "free" /\ clock >= wake)

-----------------------------------------------------------------------------
(* The states.                                                              *)

Timed == {"send_element", "inter_element_space", "autospace",
          "inter_word_space", "half_dot_gap"}

\* A timed state before its deadline, idle or winkeyer with nothing to do.
Stay ==
  /\ switch_to(state)
  /\ UNCHANGED <<playing, inter_char_space_played, sent_element,
                 last_send_time, buffer, protocol, speeds>>

TimedWait == Turn /\ state \in Timed /\ ms < deadline /\ Stay

\* Idle: any byte leads to the WinKeyer state.
Idle ==
  /\ Turn /\ state = "idle"
  /\ switch_to(IF buffer = <<>> THEN "idle" ELSE "winkeyer")
  /\ UNCHANGED <<playing, inter_char_space_played, sent_element,
                 last_send_time, buffer, protocol, speeds>>

\* Mutant: the element ends a tick early.
ElementEndEarly ==
  /\ Turn /\ state = "send_element" /\ ms + 1 >= deadline
  /\ last_send_time' = ms
  /\ switch_to("inter_element_space")
  /\ UNCHANGED <<playing, inter_char_space_played, sent_element, buffer,
                 protocol, speeds>>

\* The element is over: its exit() raises the key.
ElementEnd ==
  /\ Turn /\ state = "send_element" /\ ms >= deadline
  /\ last_send_time' = ms
  /\ switch_to("inter_element_space")
  /\ UNCHANGED <<playing, inter_char_space_played, sent_element, buffer,
                 protocol, speeds>>

\* Mutant: a space ends a tick early.
SpaceEndEarly ==
  /\ Turn /\ state \in {"inter_element_space", "autospace", "half_dot_gap"}
  /\ ms + 1 >= deadline
  /\ switch_to("winkeyer")
  /\ UNCHANGED <<playing, inter_char_space_played, sent_element,
                 last_send_time, buffer, protocol, speeds>>

\* A space is over.
SpaceEnd ==
  /\ Turn /\ state \in {"inter_element_space", "autospace", "half_dot_gap"}
  /\ ms >= deadline
  /\ switch_to("winkeyer")
  /\ UNCHANGED <<playing, inter_char_space_played, sent_element,
                 last_send_time, buffer, protocol, speeds>>

\* A word space is over; the next one counts from here.
WordSpaceEnd ==
  /\ Turn /\ state = "inter_word_space" /\ ms >= deadline
  /\ last_send_time' = ms
  /\ switch_to("winkeyer")
  /\ UNCHANGED <<playing, inter_char_space_played, sent_element, buffer,
                 protocol, speeds>>

\* The parameters that follow each command, and which commands are buffered.
winkey_commands_parameter_count ==
  [c \in 0 .. 31 |-> CASE c = 15 -> 15
                       [] c = 5 -> 3
                       [] c \in {4, 27} -> 2
                       [] c \in {7, 8, 10, 19, 21, 30, 31} -> 0
                       [] OTHER -> 1]
is_winkeyer_command(c) == c <= 31
is_winkeyer_buffered_command(c) == c \in 24 .. 31

\* Mutant: a command waits for one byte more than its parameters.
IncompleteOneMore ==
  /\ buffer # <<>> /\ is_winkeyer_command(Head(buffer))
  /\ Len(buffer) <= winkey_commands_parameter_count[Head(buffer)] + 1

\* The next byte is a command whose parameters have not all been fed.
Incomplete ==
  /\ buffer # <<>> /\ is_winkeyer_command(Head(buffer))
  /\ Len(buffer) <= winkey_commands_parameter_count[Head(buffer)]

\* WinKeyer between two characters.
Between == state = "winkeyer" /\ playing = <<>> /\ inter_char_space_played

\* The next element of the character being sent.
NextElement ==
  /\ Turn /\ state = "winkeyer" /\ playing # <<>>
  /\ sent_element' = Head(playing) /\ playing' = Tail(playing)
  /\ switch_to("send_element")
  /\ UNCHANGED <<inter_char_space_played, last_send_time, buffer, protocol,
                 speeds>>

\* The character is complete: its space is due once.
CharSpace ==
  /\ Turn /\ state = "winkeyer" /\ playing = <<>> /\ ~inter_char_space_played
  /\ inter_char_space_played' = TRUE
  /\ switch_to("autospace")
  /\ UNCHANGED <<playing, sent_element, last_send_time, buffer, protocol, speeds>>

\* Mutant: a command without its parameters sends the keyer back to idle, which
\* sees a byte and returns at once.
BufferWaitIdle ==
  /\ Turn /\ Between /\ (buffer = <<>> \/ Incomplete)
  /\ switch_to("idle")
  /\ UNCHANGED <<playing, inter_char_space_played, sent_element,
                 last_send_time, buffer, protocol, speeds>>

BufferWait ==
  /\ Turn /\ Between /\ (buffer = <<>> \/ Incomplete)
  /\ Stay

\* The items of the buffer after its first n.
Rest(n) == SubSeq(buffer, n + 1, Len(buffer))

\* get() of an empty buffer gives 0.
BufferedArgument == IF Len(buffer) > 1 THEN buffer[2] ELSE 0

\* A buffered command and its parameters: only the speed change has an effect,
\* and the clear command that a lost parameter may uncover.
BufferedCommand ==
  /\ Turn /\ Between /\ buffer # <<>> /\ ~Incomplete
  /\ is_winkeyer_command(Head(buffer))
  /\ winkeyer_speed' = IF Head(buffer) = 28 THEN BufferedArgument
                                            ELSE winkeyer_speed
  /\ buffer' = IF Head(buffer) = 10
                 THEN <<>>
                 ELSE Rest(1 + winkey_commands_parameter_count[Head(buffer)])
  /\ switch_to("winkeyer")
  /\ UNCHANGED <<playing, inter_char_space_played, sent_element,
                 last_send_time, protocol, profile_speed, weighting>>

\* A character: half a dit of gap, its first element, or, without a pattern, a
\* word space.
NextCharacter ==
  /\ Turn /\ Between /\ buffer # <<>> /\ ~is_winkeyer_command(Head(buffer))
  /\ buffer' = Tail(buffer) /\ last_send_time' = last_send_time
  /\ IF Head(buffer) # 124 /\ Head(buffer) \in DOMAIN Pattern
       THEN /\ sent_element' = Head(Pattern[Head(buffer)])
            /\ playing' = Tail(Pattern[Head(buffer)])
            /\ inter_char_space_played' = FALSE
            /\ switch_to("send_element")
       ELSE /\ UNCHANGED <<sent_element, playing, inter_char_space_played>>
            /\ switch_to(IF Head(buffer) = 124 THEN "half_dot_gap"
                                               ELSE "inter_word_space")
  /\ UNCHANGED <<protocol, speeds>>

update ==
  \/ TimedWait \/ Idle \/ ElementEnd \/ SpaceEnd \/ WordSpaceEnd
  \/ NextElement \/ CharSpace \/ BufferWait \/ BufferedCommand \/ NextCharacter

-----------------------------------------------------------------------------
(* winkeyer_data(c): one byte from the producer, under the mutex.           *)

\* The last parameter of a command of arguments[0] a has come, or it has none.
Execute(command, a) ==
  /\ IF command = 2 THEN winkeyer_speed' = a /\ profile_speed' = a
                    ELSE UNCHANGED <<winkeyer_speed, profile_speed>>
  /\ weighting' = IF command = 3 THEN a ELSE weighting
  /\ buffer' = IF command = 10 THEN <<>> ELSE buffer
  /\ IF command = 11 THEN on_key(a = 1) ELSE dtr' = dtr

Inert == UNCHANGED <<speeds, buffer, dtr>>

\* arguments[0] after one more parameter c.
FirstArgument(c) ==
  IF waiting = winkey_commands_parameter_count[pending] THEN c ELSE argument

Parameter(c) ==
  /\ waiting > 0
  /\ argument' = FirstArgument(c) /\ waiting' = waiting - 1
  /\ IF waiting = 1 THEN Execute(pending, argument') ELSE Inert
  /\ UNCHANGED <<pending, remaining_args>>

\* Mutant: a parameter of a buffered command is taken for a command.
ImmediateAnywhere(c) ==
  /\ waiting = 0
  /\ is_winkeyer_command(c) /\ ~is_winkeyer_buffered_command(c)
  /\ pending' = c /\ waiting' = winkey_commands_parameter_count[c]
  /\ IF waiting' = 0 THEN Execute(c, argument) ELSE Inert
  /\ UNCHANGED <<argument, remaining_args>>

ImmediateCommand(c) ==
  /\ waiting = 0 /\ remaining_args = 0
  /\ is_winkeyer_command(c) /\ ~is_winkeyer_buffered_command(c)
  /\ pending' = c /\ waiting' = winkey_commands_parameter_count[c]
  /\ IF waiting' = 0 THEN Execute(c, argument) ELSE Inert
  /\ UNCHANGED <<argument, remaining_args>>

\* The parameters of a buffered command still to come, after byte c.
Remaining(c) ==
  IF remaining_args > 0 THEN remaining_args - 1
  ELSE IF is_winkeyer_command(c) THEN winkey_commands_parameter_count[c]
                                 ELSE 0

\* The byte is queued; a full buffer drops its oldest byte.
BufferedByte(c) ==
  /\ waiting = 0
  /\ remaining_args > 0 \/ ~is_winkeyer_command(c)
       \/ is_winkeyer_buffered_command(c)
  /\ buffer' = Append(IF Len(buffer) = BufSize THEN Tail(buffer) ELSE buffer, c)
  /\ remaining_args' = Remaining(c)
  /\ UNCHANGED <<speeds, dtr, pending, waiting, argument>>

winkeyer_data(c) ==
  /\ mtx = "free"
  /\ Parameter(c) \/ ImmediateCommand(c) \/ BufferedByte(c)
  /\ UNCHANGED <<clock, thread, sending, connected, history>>
=============================================================================
