# TLA+ models of cwsd

cwsd is a station daemon for amateur radio: it lets remote programs key a
transmitter, control it and listen to it.  This directory holds TLA+ models of
its servers, of the life of the process, of its start with the configuration
file, and of the logging and YAML code it carries along; the TLC configurations
that check them; and TLAPS proofs about the remote key server, the circular
buffer, the cwdaemon server with its keyer, rigctld, the audio stream with the life
of the process, and logging.
`PROJECT.json` lists the runs, the proofs, the source lines each definition stands
for, the hazards the properties are aimed at and the disagreements found.

Paths below are relative to the repository; `src/` is its source directory.

## The system

| Component | State | Operations | Hard parts | Modelled in |
|---|---|---|---|---|
| remote key server (`src/remote_key_server.cpp`) | jitter buffer, anchor, session, key and PTT flags, serial device | receive a packet, replay edges, watchdogs, PTT sequencing, stop | two threads, one mutex and relaxed atomics; lost, late, repeated packets; device loss | `RemoteKey` |
| remote key wire format (`src/remote_key_protocol.h`) | none | encode, decode | truncation, cut-off datagrams, byte order | `RemoteKeyProtocol` |
| circular buffer (`src/circular_buffer.h`) | cells, head, tail, full | put, get, peek, reset | wrapping, overwriting when full | `OverwriteQueue`, `CircularBuffer` |
| keyer (`src/keyer/`) | state machine, WinKeyer buffer, pending command, speeds | update (1 ms tick), winkeyer_data (one byte) | bytes of one command arriving across ticks, deadlines in 32 bits and in floats | `Keyer` |
| cwdaemon text conversion (`src/cw_daemon.cpp`) | none | to_winkeyer | runs of speed signs, 8-bit speeds, gaps | `CwText` |
| cwdaemon server (`src/cwdaemon_server.cpp`, `src/udp_server.cpp`) | tune flag and time, serial port | client loop, keyer loop, port check, stop | two threads on one key line, exit and abort during a tune, unplugging | `CwDaemon` |
| rigctld server (`src/rigctld_server.cpp`) | clients with read and write buffers, poll array, rig handle | accept, read, interpret, write, remove, reconnect, stop | streams cut anywhere, short writes, descriptors reused, rig loss during a request, standby against unplugging | `RigCommands`, `Rigctld` |
| audio stream (`src/audio_stream_server.cpp`) | subscribers with their times, capture device, packet number (left out) | subscribe, expire, broadcast, reopen | expiry against keepalive across the wrap of the clock, device loss | `AudioStream` |
| process lifecycle (`src/cwsd.cpp`) | is_running, the four servers | construct, run, signal, stop and delete in order | a signal before run(), a server that does not stop, deletion under a thread | `Service`, `Cwsd` |
| start (`main.cpp`) | settings | command line, daemonize, read_config, configure_logging | types and ranges of settings, what is optional where, relative paths in the background | `Config`, `LogConfig` |
| logging (`src/libs/easylogging++`, `main.cpp`) | logger's mutex and stream, log file and its backups, configurations | LOG, rotation, configuration | one stream for all threads, rotation and crash, restart on a full file | `Logging`, `LogConfig` |
| YAML (`src/libs/node.hpp`) | lexer, context stack, node tree | read an input, tokenize, deserialize, serialize | encodings, escapes, indentation, types of plain scalars, anchors and tags | `YamlInput`, `YamlScalar`, `YamlLexer`, `YamlNode`, `YamlParser`, `YamlSerializer` |
| sidetone, memories, event bus | | | not reached | no |

How they interact.  The remote key server is self-contained: UDP in, DTR and RTS
out.  The cwdaemon server receives text, translates it with `to_winkeyer` and
feeds the keyer byte by byte; the keyer drives DTR through `key_interface`.  The
keyer's mutex is taken per byte by the client thread and per tick by the keyer
thread.  The servers share nothing in memory, but cwdaemon and the remote key
server may be configured to the same serial device.  rigctld answers its TCP
clients from the rig behind Hamlib; the audio server sends what it captures to
whoever has sent it a datagram lately.  `main` reads the settings, configures the
log and constructs the servers; the main loop calls empty `update()`s and, after
a signal, stops the servers one after the other and deletes them.  All threads
log through one logger.

What makes each part correct: the transmitter is never left keyed (remote key:
watchdogs; cwdaemon: bounded tunes, no key-down without a reason); what was sent
is keyed, once and in order; element and space lengths are kept; a device that
comes back is used again; stop() ends everything.  rigctld: every line is
answered, in order, to the client that sent it.  Audio: who keeps sending stays
subscribed, who is silent is dropped.  Log: whole lines, none lost by a rotation.
Start: exactly the settings the operator wrote, or an error.

## The modules

**RemoteKey** (`src/remote_key_server.cpp`).  Each thread has a program counter
and one action per stretch of code between two accesses to shared state.

| Action | Code |
|---|---|
| `RxReceive`, `RxSession`, `RxEdge`, `RxRelease`, `RxExit` | `receive_worker`: stamp and publish the time, lock, new session, one edge, unlock |
| `ReplayStart`, `ReplayTop`, `ReplayReset`, `ReplayLoad`, `ReplaySilence`, `ReplayClear`, `ReplayWatchdog`, `ReplayApply`, `ReplayPeek`, `ReplayExit` | `replay_worker`: open and retry, the reset, the load of `last_rx_us`, its two uses, the stuck-key watchdog, the due edges, PTT sequencing and the sleep |
| `Stop`, `Close` | `stop()` up to and after the joins |
| `Unplug`, `Plug`, `Tick` | the device and the clock |

The network is the worst possible: any packet of `Packets` may arrive at any
time, in any order, any number of times or never.  The clock that the replay
thread reads and the stamp the receive thread publishes are separate steps, and
`Sub64` wraps like the unsigned subtraction it stands for.  A serial descriptor
is "none", "open" or "stale" (open, but of a device that is gone).  Lines are the
device's real lines, as opposed to the flags the code keeps.

**RemoteKeyProtocol** (`src/remote_key_protocol.h`).  `encode` and `decode` on
sequences of bytes.  The base of a byte, the bytes of a time stamp and the number
of edges in a packet are parameters, so a small instance exercises the same code.

**OverwriteQueue, CircularBuffer** (`src/circular_buffer.h`).  The abstract
queue that drops its oldest item when it is full, and the ring of the code.
`CircularBuffer!ImplementsQueue` is the refinement: the queue's content is the
cells from tail to head.

**Keyer** (`src/keyer/`).  One action per turn of the loop in `update()`:
`TimedWait`, `Idle`, `ElementEnd`, `SpaceEnd`, `WordSpaceEnd`, `NextElement`,
`CharSpace`, `BufferWait`, `BufferedCommand`, `NextCharacter`; `switch_to` is
the exit and enter of the states.  `winkeyer_data` is one byte from the producer:
`Parameter`, `ImmediateCommand` or `BufferedByte`.  The mutex is held across the
turns of one `update()`.  Lengths are computed as in the code, from a parameter
`Impulse` in place of 1200; the millisecond timer is taken modulo `U32`, and
`Float` is the rounding of a float with a mantissa of `Mantissa`.  The character
table is the parameter `Pattern`.  Paddles are never pressed in cwsd, so `idle`
is left for good with the first byte.

**CwText** (`src/cw_daemon.cpp`).  `to_winkeyer` with every branch and its 8-bit
arithmetic.  Numbers of escape commands arrive parsed.

**CwDaemon** (`src/cwdaemon_server.cpp`) composes Keyer and CwText.  The client
thread is `Receive`, `Feed` (one byte), `Check`, `Untune` and `ClientExit`; the
keyer thread is `KeyerTick`, `PortCheck` and `KeyerExit`; the rest is `Stop`,
`Unplug`, `Plug` and `Tick`.  History variables record the elements of every
accepted text and of everything keyed.  Messages are what `udp_server::receive`
leaves after trimming trailing blanks.

**RigCommands** (`interpret_command` and the conversions it uses) says for each
command what the reply lines are, what the rig becomes, and whether a read
failed.  A number that the code leaves uninitialised when the rig does not answer
is any member of `Junk`; an argument that is no number makes the command throw.

**Rigctld** (`src/rigctld_server.cpp`).  The worker is `Start`, `Top` (reconnect,
or close all clients when the rig is gone), `Poll`, `Accept`, `ServeError`,
`Read`, `Interpret` (one line), `Write`, `Sweep` (remove clients, rebuild the poll
array) and `Exit`.  Around it clients `Connect`, `Send`, `Finish`, `Reset` and
`Drain`; the rig is unplugged (`Unplug`, `Plug`) or put to sleep (`Sleep`); `Stop`
and `Joined` are `stop()`.  `clients` and `pfds` are two variables, as in the
code, and a descriptor is the lowest one free.  `ImplementsService` maps the
worker to **Service**, what the main thread relies on of a server.  `Ascending`
(the order of the map) and `Reported` (the entries with an event) are defined here
by what they are: the library's operators for sorting and selecting are built into
TLC, and the provers need a definition.

**AudioStream** (`src/audio_stream_server.cpp`): the worker's turns (opening,
reading with overruns and failures, draining the socket, the sweep and the
broadcast to whoever it left) and around it listeners, the cable and the clock
modulo `U32`.
**Cwsd** (`src/cwsd.cpp`) composes it with the main thread, which constructs the
enabled servers, runs, is signalled, stops, joins and deletes; the other servers
take part as Services.

**Logging** (`src/libs/easylogging++.cc`, `pre_rollout_callback` of `main.cpp`).
A LOG statement is `initializeLogger` (the mutex), `Insert`, the dispatch, the
size check before and after the line, the write and the release; the renames of a
rotation are one step each, so that a crash may fall between any two; `Start`
opens the log with a limit from the configuration.

**LogConfig**: `Configurations`, `TypedConfigurations` and `configure_logging`.
**Config** (`main.cpp`): the arguments, `daemonize`, `read_config` on the bytes of
a file, and `main` up to the servers.

**YamlInput, YamlScalar, YamlLexer, YamlNode, YamlParser, YamlSerializer**
(`src/libs/node.hpp`).  Objects are records and a document is a store of cells;
`deserialize` is the loop over tokens with its context stack.  An iterator that
passes its end and a context stack that runs empty are outcomes of their own
("undefined"), as are exceptions ("error").  In these modules the arms of a CASE
are tried in their order.

`MCRemoteKey`, `MCCwDaemon`, `MCRigctld` and `MCCwsd` hold small instances.
`Conversions` states what the wire format and the translation of a text promise,
each against a reference that looks at the whole input.  `MCConversions` puts the
algorithms without concurrency before their references, on samples it enumerates,
and runs the ring buffer.  `ConversionProofs`,
`RemoteKeyProofs`, `RemoteKeyPlayoutProofs`, `CwDaemonProofs`, `CwsdProofs`,
`LoggingProofs`, `RigctldProofs` and `SequenceLemmas` hold the proofs.

## The runs

Passing:

| Run | Shows |
|---|---|
| `rk_safety` | a key-up lost for good, a stream that stops anywhere, a device that is missing, late or pulled: both watchdogs act in time (`KeyDownBounded`, `SilenceForcesSafe`), no line is high behind its flag (`LinesTracked`), a missing device is opened within the retry gap (`LateDeviceOpened`), and stop() from any point of both threads releases both lines and closes the device (`StopReleases`) |
| `rk_sessions` | two sessions with unrelated clocks: the buffer is in playout order, edges are on time, the key is down only under PTT, a reset comes before the new session's edges |
| `cd_session` | every two texts, or every three of a tune, a text and immediate commands: every character is keyed once and in order (`TextInOrder`), every element and every space has its length (`ElementOnTime`, `SpacingKept`), a tune ends on time (`TuneBounded`), update()'s cap is never needed (`DrainCapUnused`) |
| `cd_stop` | the port is pulled and plugged and the server stopped anywhere, also after an exit command: the key is down only for an element or a tune (`KeyDownAccounted`), the buffer drains, the port is opened again, both threads end |
| `rigctld` | two clients, streams cut anywhere, short writes, and one fault out of an unplugging, a standby, a reset and stop(): the poll array fits the clients (`ClientTablesAgree`), replies are in order and complete before a close (`RepliesInOrder`, `AnsweredBeforeClose`), no command meets a rig that is not there (`NeverWithoutRig`), standby closes no client (`StandbyKeepsClients`), every line is answered (`Answered`), the worker is a Service (`ImplementsService`) |
| `cwsd` | the process from its constructors to its exit: a subscriber that keeps sending is never dropped (`KeepaliveSuffices`) and always gets in (`Subscribed`), a silent one is dropped (`SilentDropped`), within the timeout and one pass of the worker (`SilenceBounded`), the device is reopened (`DeviceReopened`), nothing is deleted under its thread (`DeletedOnlyEnded`), a signal ends the process (`SignalExits`) |
| `logging` | two threads, rotations, crashes anywhere and restarts with other limits: a line is one whole statement (`LinesWhole`), the files read in order are the last lines without a gap and the log stays below its limit (`LogRotated`), no statement keeps the mutex (`StatementEnds`) |
| `conversions` | every packet survives the wire with its freshest edges and a cut-off one is never another (`WireRoundTrip`); the translation of every text of up to five bytes against a reference that looks at the whole text (`ConversionCorrect`); spelled strings, YAML trees, directives and texts in five encodings are read back where the library keeps them (`YamlReadBack`; its exceptions are below, and cwsd itself only reads); about 2700 configuration files and the command lines give the settings, the log and the errors they should, with the two exceptions named below (`SettingsRead`); the ring implements the overwriting queue (`ImplementsQueue`) |

Four runs check what a comment of the repository says and show a behaviour of
the code that contradicts it:

| Run | Shows |
|---|---|
| `rk_silence_wrap` | a packet stamped between the replay thread's clock reading and its load makes the difference wrap, and the silence watchdog trips on a live stream |
| `rk_unplugged` | an unplugged device is never opened again, its descriptor being kept |
| `cd_exit` | the exit command during a tune leaves the key down |
| `log_restart` | a start that finds the log at its limit truncates it, because the callback that saves it is installed later |

Limits of the code that the models show in other instances, and that bound what
the passing runs claim:

- `KeyOnlyUnderPtt` needs the device to be present from the start: opening it
  between the PTT assertion and the key-down lowers RTS and leaves `ptt_is_on`
  set (try `DevInit = {FALSE}` with one plug event).
- With PTT on, the key up and a key-down that keeps PTT on, the wake time is a
  PTT release time in the past, and the replay loop runs without sleeping.
- An abort also drops the buffered restore of the speed, so the keyer stays at
  the speed of the aborted text until the next change.
- A text longer than the buffer overwrites its own beginning (`BufSize = 3`).
- `ElementOnTime` holds until the 32-bit timer wraps, after 49.7 days: an element
  that begins just before is cut off (`U32 = 24`).
- `SpacingKept` holds while a float holds the clock exactly, for 4.7 hours; then
  the character space is off by the rounding of the sum (`Mantissa = 8`).
- rigctld's worker sets `is_running` itself: a stop() that comes first is
  overwritten and its join does not return (`StopEarly = TRUE`; `SignalExits`
  excuses it as `overtaken`).  A request read while the rig is gone waits for the
  client's next one (`deferred`).  A cable pulled and plugged again between two
  commands leaves a dead handle, and the rig looks asleep until the cable is
  pulled once more.  A write to a reset connection may raise SIGPIPE, which
  nothing handles.
- rigctld gives no reply at all to a command it does not know, reads past the
  arguments of an `M` with fewer than two, and renders numbers it never set when
  the rig does not answer (`Junk`).
- A capture device that opens and then fails every read keeps the audio worker
  in a loop that neither sleeps nor looks at its subscribers (`Faulty = TRUE`).
- A signal that comes before run() has set the flag is lost.
- `setGlobally` without the global level leaves Global's file name at its
  default, so `myeasylog.log` is opened next to the configured file.
- YAML: a negative number of one digit takes the line break, the comma or the
  bracket behind it into the scalar (node.hpp:2780 skips three characters), so a
  file with one in a numeric setting ends the start and a name of that form has
  a line break at its end; CRLF
  files lose one carriage return per chunk only; a UTF-16 stream that ends in a
  surrogate pair has it twice; a plain string with ": " or " #" and an empty
  container do not survive the serializer; some malformed documents empty the
  context stack, which the code does not test.
- A documented value is refused: `cwsdrc.sample:24`, `README.md:103` and
  `src/audio_stream_server.h:31` list a `frame_ms` of 2.5, and `main.cpp:155` reads
  the setting as an int, so that a file with it ends the start with a type error.
  `SettingsRead` does not count this as right: of it, and of a negative number of
  one digit, it only says that cwsd does not serve with some other number
  (`Unread`); every other value must start as written or be a mistake.
- A frame that Opus codes into 1497 to 1500 bytes fits its buffer and not the
  packet: it is dropped without a number, and receivers see no gap.

Hazards that no property covers, because the models leave out what they need:

- Between the silence test of the replay thread and its lock a packet may arrive
  whose edges the clear then removes, while `last_enqueued_src` keeps them from
  being accepted again; and a delayed packet of an old session, or a repeated one
  with the reset flag, may have history played twice.  Both need the operator's
  side to be stated (the plan's `RemoteKeyLink`).
- cwdaemon and the remote key server on the same serial device.
- `std::stoi` on an escape command without a number, which nothing catches; a
  stop during an element, which leaves DTR high until the process ends; the port's
  descriptor, which the client thread uses while the keyer thread opens it again.
- Datagrams that come faster than the audio worker drains them, and a wall clock
  that steps back under `high_resolution_clock`.
- A constructor that throws leaves the threads of the servers before it running
  until main returns; the signal handler logs, and may interrupt a statement.
- A rename that fails for another reason than a missing file is ignored, and the
  log truncated after it.

**Bounds.**  Times are scaled to a few units with the order of the defaults kept
where it matters (lead below tail; the watchdog tick below the limits it guards).
`MaxTime` and `MaxPlugEvents` bound the remote key model; the runs leave room for an
element, the trip of a watchdog and the thread's lag after it.  In CwDaemon,
`MaxTime` bounds the clock only while nothing is being sent, so every text is always
finished; `MaxClock` lies beyond what all the work takes (the passing runs have the
same states without it).  A session has one to three messages.  The buffer (12 or 16
bytes) holds everything the runs feed, and `U32` and `Mantissa` are out of reach. 
Of the speed commands `cd_session` takes one: the others differ in the number that
`to_winkeyer` computes.  Dit lengths of 1 to 3 units leave room for every thread to
run between two edges. The initial speed divides `Impulse`, where the integer
lengths and the floats of the code agree.

In `rigctld`, two connections suffice for a descriptor to be reused and for
replies to go astray; two lines and a window of two replies for a write to come
short; `MaxFaults` is one, so two faults are not combined.  The clients send a
command that reads the rig, whose two lines fill the window, and a quit; the other
commands differ in what they compute, and the theorems below hold for any set of
them.  In `cwsd` the clock wraps every five units, from its first tick
on; one listener is enough because subscribers do not influence each other, and
rigctld and the audio server stand for the servers whose flag is set late and
early.  `AudioTiming` is what a keepalive must respect: its period and the distance
of two sweeps stay below the timeout.  In `logging`, three backups stand for nine,
six statements fill the log three times, and three starts see a crash in a
rotation and a lower limit after it.  In `conversions` the sets of characters hold
every class the code tells apart; the widths of integers are parameters
(`IntMax`, `UIntMax`, `LongMax`), since TLC's own are of 32 bits, and so is the
chunk of a stream (`ChunkSize`); `TokenBits` bounds the tokens of a document by
1024, which no file comes near.

Deadlock checking is off: clocks are bounded, stopped servers stop, and a sample
has been looked at.

**Fairness.**  Weak fairness of each thread (the operating system schedules it),
of the clock, and of the return of the joins in stop(); in `rigctld` clients
read what they are sent, in `cwsd` a listener that has stayed in goes on sending
(the premise of `Subscribed`), and in `logging` a thread that is in a statement
goes on with it.  No fairness is assumed of the network, of a device, of a crash
or of a stop.  Timeliness is a safety matter and
sits in `Tick`: the clock does not pass the time by which a real-time thread has
run (`MaxLag`, `KeyerLag`), nor that by which the client or the receive thread
has taken its next step (`ClientLag`, `RxLag`).  Bounds such as `KeyDownBounded` name these lags.

## The proofs

`RemoteKeyProofs` proves, for every set of packets, configuration and lag that
the assumptions of `RemoteKey` allow:

| Theorem | States |
|---|---|
| `TypeCorrect` | `[]TypeOK` |
| `LinesAlwaysTracked` | `[]LinesTracked` |
| `StuckKeyReleased` | `[]KeyDownBounded` |
| `SilenceIsSafe` | `[]SilenceForcesSafe` |
| `BufferInOrder` | `[]QueueOrdered` |
| `ResetBeforeEdges` | the action property `ResetServedFirst` |

None of the safety properties is inductive.  The invariant `ServerInv` is the
conjunction of six parts, each proved preserved in a lemma with one step per
action:

- `ClockInv` says how far each thread's last reading of the clock may lie behind
  the clock at each program counter, and bounds the wake time; both watchdog
  theorems are sums of these distances.
- `LinesInv` is `LinesTracked` with what the lines are before the thread starts.
- `KeyInv` relates `key_is_down`, `key_down_since_us` and the real rise of DTR
  at each point of the loop: past the watchdog the key has been down no longer
  than the limit, as of this iteration's reading.
- `SilenceInv` does the same for `last_rx_us` and the value the thread loaded.
- `QueueInv` orders the buffer and bounds it by the playout time of the next edge,
  relative to the anchor and the last accepted edge.
- `ResetInv` says that while a reset is pending every queued edge is scheduled
  after the iteration under way; it is where `RxLag < Playout` is needed.

`ConfigAssumption` (unsigned configuration, positive tick), `LagAssumption`,
`PromptAssumption` (the receive thread takes less than the playout delay, and no
more than the silence limit, to handle a packet) and `PacketAssumption` are the
assumptions; TLC evaluates them in every `rk_` run.

`ConversionProofs` proves for every capacity, item set and initial contents
that the indices stay in the ring (`RingTyped`) and that the ring implements the
overwriting queue (`RingImplementsQueue`): the initial states map to the empty
queue, and put, get, peek and reset map to the queue's own.  The lemmas say what
each operation does to the content read from tail to head, by cases on whether
an index wraps.

The same module proves what the wire format and the translation of a text compute:

| Theorem | States | For |
|---|---|---|
| `PacketsSurvive` | `WireRoundTrip` | every packet whose fields fit their widths, every cut that leaves a byte (`WireSample`), every base, timestamp width and limit on the edges below the base |
| `TextsTranslated` | `ConversionCorrect` | every sequence of bytes and every 8-bit speed (`TextSample`) |

Both hypotheses hold of every sample of the `conversions` run; an empty datagram
never gets to `decode`, the receive loop drops it.

- The wire: a number written is read back (`GetPut`), by induction on its bytes with
  the quotient that is left; where the header and each edge lie in the datagram
  (`WholeDatagram`); and a datagram cut short is refused, because its sixth byte
  still says how many edges it should have (`CutRefused`).
- The text: `Tracks` goes through the scan and the reference byte by byte.  The bytes
  written so far are heard as the text asked for so far; the scan's speed and gap
  are those the reference counts from the whole text; and within a run of signs the
  bytes end in a speed change whose front is heard as the same text, which is what
  makes overwriting the last byte right.  A speed that equals the code of a command
  is heard as a speed (`HeardSpeed`).

`RemoteKeyPlayoutProofs` continues with the rest of the remote key server.  Each
theorem adds one invariant to `ServerInv`:

| Theorem | States | Under |
|---|---|---|
| `LateDeviceIsOpened` | `[]LateDeviceOpened` | |
| `KeyedUnderPtt` | `[]KeyOnlyUnderPtt` | `DevInit = {TRUE}`, `MaxPlugEvents <= 1` |
| `EdgesPlayedInTime` | `[]NoEdgeOverdue` | `MaxLag <= Playout + RxLag + WatchdogTick` |

- `DeviceInv`: while the device is there and not open, the last look at it came
  before it was plugged in, and the thread's reading of the clock is not beyond
  the next look.
- `PttInv`: the key flag implies the PTT flag, and an open descriptor makes the PTT
  flag and the line agree.  Its last conjunct is why the device must be present at
  the start and must not come back: a device opened in the middle of an over has its
  PTT line low under a set flag.  That is the limit of the code named above, so
  the hypothesis is the claim's true extent and not a convenience; `rk_sessions`
  is an instance of it.
- `DueInv`: every wake-up lies before the playout time of each queued edge, plus
  the time the receive thread takes to queue it and one tick.  The hypothesis says
  that the replay thread is not started later than the playout delay and a tick
  after the receive thread; from its first turn on nothing more is needed.

`CwsdProofs` is about `Cwsd` with its audio server, for every subset of enabled
servers, every set of listeners, clock width and timing that `AudioTiming` allows:

| Theorem | States | Under |
|---|---|---|
| `TypeCorrect` | `[]TypeOK` | |
| `DeletionSafe` | `[]DeletedOnlyEnded` | |
| `KeepaliveCorrect` | the action property `KeepaliveSuffices` | `~Faulty` |
| `SilenceCorrect` | `[]SilenceBounded` | `~Faulty` |

`StopInv` follows the walk over `Stops`: the servers that the walk has passed have
ended, after it all enabled ones have, and only then is anything deleted.
`KeepInv` relates, for a subscriber that is not late, the age of its entry on the
wrapped clock to the time since its last datagram and to the distance of two
sweeps; a drop would need a difference modulo `U32` that is larger than the sum.
`AgeInv` bounds the age of every entry by the timeout and the time since the last
sweep, which `SilenceBounded`, being about any moment, does not mention; the age
cannot jump over the bound, because a tick adds one and `U32` lies beyond it.
With `Faulty` the worker may loop in its failing reads for ever, as listed above,
and there is no bound on the distance of two sweeps.

`LoggingProofs` is about any number of threads, parts of a statement, kept files
and limits:

| Theorem | States |
|---|---|
| `LoggingTyped` | `[]TypeOK`, and that a thread inside its LOG statement has a part left to insert |
| `LinesAreWhole` | `[]LinesWhole` |
| `RotationKeepsLog` | `[]LogRotated` |

`LineInv` says who holds the mutex at each program counter, that the stream is what
the holder has inserted of its statement, and that every line of the files and of the
history is whole.  `RotationInv` adds which place of the chain of renames is free at
each point of it (`PlacesInv`), that the files are the end of the history, short of
it only with the last place taken (`KeptInv`), and that the log file is below its
limit except between a write and the rotation it leads to (`SizeInv`).

`RigctldProofs` is about any number of connections and of lines, any window, any
cut of the streams, any number and mix of faults (`RigctldAssumption` only
types the constants and asks for a window of at least one reply):

| Theorem | States |
|---|---|
| `TypeCorrect` | `[]TypeOK` |
| `RigIsOpen` | `[]NeverWithoutRig` |
| `TablesAgree` | `[]ClientTablesAgree` |
| `RepliesAreOrdered` | `[]RepliesInOrder` |
| `AnsweredThenClosed` | `[]AnsweredBeforeClose` |
| `StandbyIsHarmless` | the action property `StandbyKeepsClients` |
| `WorkerIsService` | `Init` and `[][Next]` of `Service` under the mapping of `ImplementsService`, its safety half |

- `HandleInv`: the rig is called connected only with a handle, and a handle that is
  held while the rig is called lost was bad since it was opened.  `RigIsOpen` rests
  on it alone.
- `TableInv` adds the types, for some set of reply lines (`SomeReplies`: the replies
  depend on what the rig says, so the set grows with the behaviour); `OwnInv`, a
  connection is open exactly while one client holds it, so a reused descriptor is
  never that of another's connection; `ServeInv`, what poll() reported are clients,
  each once; `PfdsInv`, the poll array lists the clients except after an accept in
  the same turn; and `RepliesInv`, what a client got and what waits for it are its
  answers, in this order.
- `AnswerInv` counts the lines of a stream: those sent are those answered, those in
  the read buffer and those under way (`StreamsKept`, `LinesTaken`); who has ended
  is marked for removal (`EndsMarked`), was read to the end (`AllHeard`), and leaves
  no reply behind when its event is done (`AllSettled`, `EventsHold`,
  `HeadServed`).  Short writes are excluded by the property's own condition that the
  client's window never filled.

`CwDaemonProofs` is about the cwdaemon server with its keyer and its translation:
every set of messages, every character table with non-empty patterns, capacity,
lag and bound.  `KeyerAssumption`, `DaemonAssumption` and `MessageAssumption` say
that the literals are positive, the configuration unsigned, a text a sequence of
bytes and the number of an escape command an integer; TLC evaluates them in the
`cd_` runs.

| Theorem | States | Under |
|---|---|---|
| `KeyDownCorrect` | `[]KeyDownAccounted` | |
| `TextKeyedInOrder` | `[]TextInOrder` | `[]NoOverflow`: no byte of a message finds the buffer full |
| `TunesEnd` | `[]TuneBounded` | `NeverStopped`: `MayStop` is false, no message is an exit and there is a longest; `[]Unwrapped`: the clock is below `U32` |
| `ElementsOnTime` | the action property `ElementOnTime` | `[]Measurable`: an element takes at least 1 ms, and the timer does not wrap within one |
| `CapUnused` | the action property `DrainCapUnused` | `MaxTransitions > 6` (the code has 16); `[]Unhurried`: elements, element and word spaces and gaps take longer than `KeyerLag`, and the timer does not wrap within one |
| `SpacesKept` | the action property `SpacingKept` | `InitialSpeed # 0`; `[]Steady`: speed and weighting stay as configured, and the timer stays below `U32` and `Mantissa` |

- `Shape` is what all of them but the last three rest on: the client thread feeds
  whole commands.  The bytes still to be fed are those the keyer expects (`FeedShape`,
  `UntuneShape`), and between two messages no parameter is outstanding.  It needs that
  `to_winkeyer` yields text with complete speed changes, or one immediate command, for
  every message (`Translation`), which is an induction over the scan of the text:
  `ScanOK` says what the bytes translated so far may be, `Stream` and `Plain` how many
  parameters a sequence of bytes leaves open.
- `KeyInv` adds that a lost port holds no key down and that, outside an element, the
  key is down for a tune whose key-up has not been fed.  Nothing is assumed of speeds
  or of the buffer.
- `TextInv` splits the accepted elements into those keyed, the rest of the character
  and the text of the buffer with the bytes to come; `TextOf` of two streams is the
  text of the one and of the other when the first leaves no parameter open
  (`TextConcat`).  With a full buffer the oldest byte is dropped, as listed above, and
  the claim is false.
- `TuneInv` bounds the time by which the client thread takes its next step at each
  program counter, in bytes left to feed.  That a message has the same number of bytes
  at every speed (`TranslationLength`) makes the longest one a bound.  An exit command
  and stop() leave the key as it is, which `cd_exit` shows.
- `ThreadInv` (a tick begins when it is due and at most `KeyerLag` later) is shared by
  the other three.  `ElementInv`: the next look at an element is not after its end.
  `CapInv`: a state that was entered in this tick has a deadline beyond the tick's
  reach, except for the character space and a word space counted from an earlier
  key-up, each of which is passed once (`TurnShape`); six transitions are the most.
  `SpaceInv`: how long the key has been up at the least in each state, with the sum of
  floats in the deadline of a character space exact below the mantissa (`FloatExact`).
  With a weighting that does not divide evenly a character space is a millisecond
  short, and a change of speed within the text changes what the spaces are compared
  with: hence `Steady`.

These four invariants hold in the states of `cd_session` too (for `CapInv` and
`SpaceInv`, in an instance of it with longer dits and one speed).

`SequenceLemmas` holds what these proofs need of sequences.  The induction it uses
is over the naturals, through the least element of a set of counterexamples, which
needs no operator parameter: what `Ascending`, `Reported` and the flattening of the
files return is proved this way.  A recursive function over the bytes of a sequence is
unfolded with `IterationExists` and `IterationUnique`: a function that starts and
continues as it does exists, and there is only one.

Model-checked only: the liveness properties (`StopReleases`, `BufferDrains`,
`PortReopened`, `StopJoins`, `Answered`, the fairness half of `ImplementsService`,
`Subscribed`, `SilentDropped`, `DeviceReopened`, `SignalExits`, `StatementEnds`),
because liveness under fairness is outside TLAPS; and what the YAML modules and
Config compute (`YamlReadBack`, `SettingsRead`), which use RECURSIVE operators:
the prover loses its SMT backend where one is declared.  They occur only in these
modules and MCConversions, which no module with a theorem reaches.

## What is abstracted

The text of log lines and socket set-up; the contents of the character
table beyond three letters; a receive timeout and a malformed datagram in the
remote key server, which change nothing; the sidetone.  An ill-formed number in
an escape command, which ends the process, and speed 0, at which the code divides
by zero in floats, are not modelled.

rigctld: a rig model that Hamlib does not know, or that refuses a setting, makes
`open_rig` throw out of the thread and ends the process, and is left out; requests
arrive split into a command and its arguments, without NUL bytes; the text of
`dump_state` is one name.  Audio: what ALSA and Opus make of a frame, and the packet
with its number, on which nothing in the server depends; the socket's queue holds
one datagram per listener; the clock does not step back.  Lifecycle: the servers
other than audio are their threads and flags.

Logging: one logger, as in cwsd; a write and its flush are one step; a rename fails
only where there is no file, and the one of a `.0`, which never is, is left out;
`%datetime` in a file name, formats beyond their text, performance tracking and
crash handlers are left out, and so is a LOG in the signal handler while the
interrupted thread logs.

YAML: floats are kept as their text; an alias is resolved through one level;
containers as keys are compared by their size, as the code's `<` does; assertions
are off, as in a release build; the reallocation of vectors is ignored; the grave
accent, which the lexer refuses like the at sign, is left out of the characters.

## Not modelled

Sidetone, memory keyer and event bus are not reached in cwsd.  Of the two
carried libraries the C++ machinery (traits, iterators, containers, macros) and
the features cwsd does not use are left out: they keep no state of the program.

## Plan

1. `RemoteKeyLink`: an operator's client with its history and a lossy network in
   front of RemoteKey; which edges may be lost, and that none is played twice.
2. The composition of cwdaemon and the remote key server on one serial device.
