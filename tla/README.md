# windowcast in TLA+

windowcast streams single windows of a host to a client. A client pairs with a
host by PIN or signs in to an account, opens a WebRTC session to it, asks for
windows, and gets each one over a carrier (video on the session, or RDP beside
it) that may change while the window is on screen. Away from the LAN the two
find each other through discovery servers and punched UDP; `bud` is the
repository's own media link; GameStream, RDP and VNC are other ways in.

This directory models the parts of it where processes, timers, messages and
restarts meet, checks them with TLC on small instances, and proves most of the
safety properties for every value of the constants. Paths below are relative to
the repository's root.

- [The system](#the-system): its parts, their state, how they interact
- [The modules](#the-modules) and how they correspond to the code
- [What is checked](#what-is-checked): runs, bounds, fairness
- [What is proved](#what-is-proved), from which assumptions and along which argument
- [Where code and text disagree](#where-code-and-text-disagree)
- [Plan](#plan) and [what is left out](#what-is-left-out)

## The system

| Part | State it keeps | Operations | What must hold |
|---|---|---|---|
| Pairing (`host-core/src/lib.rs` `Pairing`, `transport/src/signaling.rs`, `pairing/`) | the PIN on screen behind a lock, the failure counter beside it, lockout tasks, the trusted clients | the owner opens, closes and forgets; connections prove a PIN or a pinned key; failures pause pairing | a PIN that is gone stays gone; a full counter means no PIN; a pause ends |
| Trust list (`identity/src/lib.rs` `TrustStore`), the client's list of hosts | a file two programs share; copies taken by connections | load, save, update; connect, pair, forget | a finished change is kept, whoever is killed when |
| Transport session (`transport/src/lib.rs`) | tracks recorded, the senders of the connection, one slot for an awaited answer, inbound queues, end flags | attach, detach, renegotiate, send, close; a control loop that handles what arrives | an answer meets its offer; what is sent is recorded; the end comes last; nothing hangs |
| Host session loop (`host-core/src/lib.rs` `Serving`) | per window its carriers, sound, frame threads | start, retire and stop a stream; a window that closes by itself | one carrier per backend; no thread captures for nobody |
| Client session (`client-core/src/lib.rs`) | per window the carrier shown, the next one, a timer, RDP connections | start, switch, stop, give up, report pictures | host and client agree on what is carried; a switch ends |
| Selector (`client-core/src/selector.rs`) | per window motion, dwell, backoff, the switch under way | look at a window, choose, note success or failure | never waits for a switch that is over; does not flap |
| bud (`bud/src/{packet,replay,fragment,recovery}.rs`) | a counter, a replay bitmap, loss samples; unfinished frames, frames kept, ages and counts of NACKs | seal, open, sample; send, push, poll, respond | a number is accepted once; losses are not understated; frames in order, each accounted for |
| Punched stream (`transport/src/punched.rs`) | sequence numbers, unacknowledged and early segments, FINs, timers | read and write the pipe, segments, ticks | a byte stream |
| Remote host (`host-core/src/remote.rs`, `rendezvous/`) | the NAT mapping, what was announced, caches, punching | STUN, announce, look up, punch | no old address; servers left alone as long as they ask |
| Command stream, files, folder watch (`host-core/src/{command,files,watch}.rs`, `client-core/src/{command,files}.rs`) | channels on both ends, uploads in part files, versions of a watched file | open, data, close, exit; upload, download; watch | nothing runs for nobody; the end comes last; a file is never half there; the copy catches up |
| Views and input (`host-core/src/lib.rs`, `agent-*/`) | the list, pointer and state last sent; keys, buttons and fingers held per session | push, list, follow; deliver, release | the client's view catches up; nothing stays down |
| Accounts (`accounts/`, `Gate` and `SignInThrottle`) | accounts, registrations, policy, failed sign-ins | sign in, resume, expire, revoke; the browser and device flows | guesses are few; a token registers one device; polls keep their distance |
| GameStream (`gamestream/`) | launches, fixed ports, pairing attempts; packets, blocks of sound | launch, resume, cancel, stream; pair | a device keeps to itself; what does not decode is replaced |
| RDP, RemoteApp and VNC (`rdp/`, `vnc/`, `host-core/src/remoteapp*.rs`) | server threads and their stop flag; tables of windows; what a viewer has | serve, stop, update; launch, log in | a stopped server ends; the list is what Windows shows; the viewer has what was sent |
| Windows and Linux agents (`agent-windows/`, `agent-linux/`) | pool, encoder, size announced; capture session, buffers, private desktop | poll, encode, reopen; capture, type | units fit what was announced; input goes to the compositor served |
| Frame path and quality (`host-core`, `transport/src/media.rs`, `client-core`) | queue of frames, keyframe wanted, ladder of qualities | send, lose, skip, ask; go up and down | no hole in the pictures; the picture comes back |
| Secure-screen helper (`windowcast-secure-helper/`) | a grant, brokers, one pipe | install, allow, broker, remove | one server; an answer fits its question |
| Terminal (`terminal/`, `app/src/terminal.rs`) | emulator, version, what the view drew; host keys pinned | feed, draw, resize, log in | nothing is missed |
| Reference app and viewers (`app/`, `client-windows/`) | streams, switches, clipboard; carriers, buffers and sound of a window | connect, show, close, copy, switch | closed windows stop; a carrier takes over; text arrives; sound as switched |
| C interface, discovery on the LAN, tools | – | convert and call | not modelled |

How they meet. A client's calls become control messages on one ordered data
channel; the host's session loop takes them one at a time and awaits inside
each. Frame threads, sound threads, command threads and pollers run beside the
loop and send on the same channel. At the client, `pump_events` takes messages
while application threads call in, logins run on threads of their own and
timers wake. Signaling runs over TCP or a punched stream before any of this.
The pairing state and the trust list are shared by all connections of a host,
and the list also by another program. Agents hand pictures to the frame threads
and take input from the sessions; GameStream, RDP and VNC servers are threads
beside all of it with flags that stop them.

What is hard: state checked under a lock and used after it (PIN and counter,
selection and switch, login and give-up, a view's version), timers that wake
after what they were for is over (lockout, switch, renegotiation), two ends that
start something at once (offers, stop and switch), a resource that ends by itself
while it is being stopped, datagrams lost, repeated and reordered, counters at
their wrap, and a program killed while it saves. `PROJECT.json` lists each at
its line, with the properties that cover it.

## The modules

A module stands for one component; several have two or three independent
specifications, each with variables, Init and Next of its own, where parts of a
component share no state. An action is a handler, a step of a thread between two
points where others may run, or an event from outside.

| Module | Stands for |
|---|---|
| `Pairing` | `Pairing`, `HostControl`'s pairing calls, `Serving::open`, the acceptance of a connection |
| `TrustFile` | the trust list on disk, two programs, a crash at every step |
| `ClientConnect` | a client's connections, its list of hosts, pairing and forgetting |
| `Selector` | automatic selection and the calls that race it |
| `ControlChannel`, `HostStreams`, `ClientCarriers` | the control messages of one window's stream; the host's side; the client's side |
| `WindowCarriers` | the three composed; the end-to-end properties |
| `Session` | attach, detach and renegotiation of a session that is up, and its end |
| `Commands` | the command stream's channels at both ends |
| `Files` | uploads and downloads of a file; the watch of one (`WatchSpec`) |
| `SessionViews` | lists of windows, pointer and host state pushed to a client; input held and released (`InputSpec`) |
| `ReplayWindow`, `ReplayWords` | what the replay window promises; the bitmap in words as the code shifts it, which implements it |
| `SealedPackets` | Sealer, network, Opener and LossMeter: one direction of a bud link |
| `FrameRecovery` | fragmenting, reassembly, NACKs, resends and refreshes of one stream |
| `ByteStream`, `PunchedStream` | the abstract stream; segments, windows, timers and FINs that implement it |
| `GameMedia` | GameStream's video and sound on a network that loses |
| `Terminal` | a terminal's emulator, reader and view; host keys of SSH logins (`LoginsSpec`) |
| `RemoteHost` | StunKeeper and announce_and_punch against a changing NAT |
| `GameHost` | GameStream launches and streams; its pairing (`GamePairSpec`) |
| `RemoteApps` | a RemoteApp's launch, window table and watch; the accounts launches run as (`LaunchesSpec`) |
| `RemoteServers` | the RDP server of a window (`RdpSpec`); VNC's updates and viewer (`VncSpec`) |
| `Accounts` | sign-in, throttle, policy, registrations; the browser and device flows (`FlowSpec`) |
| `WindowsCapture` | pictures, encoder and announcements of a Windows track; the events of an asynchronous transform (`EncoderSpec`) |
| `LinuxAgent` | a capture session and its stream; the private desktop and the input to it (`PrivateSpec`) |
| `FramePath` | frames from the encoder to the program that shows them; adaptive quality (`QualitySpec`) |
| `SecureScreen` | grant, scheduled task, brokers, pipe and clients of the helper |
| `ViewerWindows` | a stream window and its switch; input, pointer and pictures in it |
| `ReferenceApp` | the app as client; as host, with the clipboard (`HostAppSpec`) |
| `ClientSound` | a window's sound to the client, the microphone back (`MicSpec`) |
| `MC*` | the runs |
| `*Proofs` | the theorems |

How state and actions correspond to the code, where that is not obvious:

**Pairing.** `pin` is the slot and `failures` the atomic beside it. `reopen`
generates, then stores under the lock, then zeroes the counter, so it is three
steps (`OpenPairing`, `StorePin`, `ResetFailures`), as is the lockout task
(`LockoutOver`) and `paired` (`Paired`, `PairedReset`). A connection copies PIN
and trust when it is accepted (`Open`) and decides on the copies later. The PAKE
is its outcome: the proof holds if both sides had the same PIN.

**One window's stream.** A carrier is a generation and a backend. The session
loop is a small program counter (`serving`) because it awaits between looking up
what runs, opening a source, attaching a track and answering; frame threads
(`feeds`) and their end run in those gaps. At the client, `shown` and `next` are
`Carriers.shown` and `.next`; a login is a thread that ends late. `calm` is
chosen at the start of a behaviour: in calm no window closes by itself, no
carrier needs longer than SWITCH_WITHIN to start, and no switch begins while a
stop is under way.

**Session.** Each side has at most one operation per track; an operation holds
the renegotiation lock from its offer until its answer, its timeout or the end.
An offer carries its operation's number, so that a crossed answer can be seen.
The peer connection is external, kept as far as its signaling state.

**Commands.** An open is a call that waits (`call`), a route that takes what the
host sends, and at the host a message the session loop handles in three steps
(`Take`, `Start`, `Answer`), because the threads of a command that has started
may speak before the loop answers. Shells, commands and services are one kind:
something that runs until it ends or is killed. Output is counted in chunks.

**Files.** A file is apart from its name: a handle goes on writing to what was
renamed or removed. A byte is the source it was read from. The watch numbers
the versions of a file; its reader and its receiver are threads of their own.

**bud.** A datagram is its number: what authenticates is what was sealed.
`FrameRecovery` counts shards (any K of a block give it back) and keeps times
as ages cut off where no comparison changes. Frame numbers are modulo WRAP.

**PunchedStream.** Each end's `stream` is the locals of `run_stream`; a `plan`,
chosen at the start, says what the network and the programs do.

**Agents.** A picture is its size and what it shows; a unit of an encoder is the
size it was made for, whether it is a keyframe and from which options. The
compositor, Windows' capture and the encoders are external: they hold pictures
back, refuse buffers and change sizes whenever their interfaces allow it.

**Accounts and the other protocols.** Directories, PAM, the OpenID provider,
IronRDP and the Moonlight client are external: a check has any of the answers
they give, in any order.

A helper definition whose lines lie within those of the action that uses it has
no row of its own in `PROJECT.json`'s map.

## What is checked

The number of runs is kept to twelve: a `part`, chosen in Init, says which of a
run's specifications runs; the others stay as they begin. A step of the run is a
step of that part, so an invariant or an action property of a part is checked as
it would be alone. A liveness property has its fairness as antecedent
(`Fairness => P ~> Q`): in a behaviour where another part runs, it holds of a
state that never changes, and where its own part runs it says just what it says.
Properties that belong together are one definition with named conjuncts.

| Run | Parts | Properties | States |
|---|---|---|---|
| `trust` | trust, selector, punched | `ChangesAreKept`, `SwitchesInStep`, `IsByteStream` (refinement), `StreamsEndCleanly` | 76,125 |
| `link` | sealed, frames, video, sound, terminal, logins, remote | `AcceptedOnce`, `LossNotUnderstated`, `WordsKeepTheWindow`, `FramesAccountedFor`, `MediaInStep`, `NothingIsMissed`, `AsksInTime` | 3.41 million |
| `session` | tracks, channels, files, watch, input, views, connect | `CommandsAccountedFor`, `FilesAreKept`, `NothingStaysDown`, `SessionInOrder`, `PairingsAreKept`, `OperationsReturn`, `WatchCatchesUp`, `ViewsCatchUp` | about 508,000 |
| `peers` | stream, gamepairing, apps, launches, rdp, vnc, accounts, flows | `WindowsStateIsKept`, `ViewerShowsWhatWasSent`, `SignInsAreSound`, `DevicesKeptApart`, `StoppedServerEnds` | 470,503 |
| `media` | windows, encoder, path, quality, secure, linux, private, carriers | `EncodingInStep`, `FramesFollowEachOther`, `AnswersFitTheQuestion`, `InputGoesToTheServed`, `CarriersAgree`, `PictureComesBack`, `PictureIsTheWindows`, `SwitchEnds` | 846,908 |
| `viewer` | app, host, window, input, pictures, sound, microphone, pairing | `WithdrawnPinsStayGone`, `FullCounterMeansNoPin`, `WindowsShowTheirOwn`, `PauseEnds`, `ClosedWindowsStop`, `CarrierTakesOver`, `CopiedTextArrives`, `SoundFollowsTheUser` | 504,730 |
| `pairing_closed`, `trust_overlap`, `carriers_sound`, `stale_sound`, `torn_keyframe`, `whole_frame_lost` | | one property each, violated: see [below](#where-code-and-text-disagree) | |

Bounds, and why they are enough:

- `trust`: three carriers with times 1 to 4 in the order of the real ones. Two
  programs, one device, any number of changes. Streams with a window of 2; lossy
  with one segment each way and programs that may drop their ends; repeating with
  three and two; two connections in turn.
- `link`: three words of two bits, seven numbers: shifts within a word, by a
  word, by the window and beyond. Frames modulo 8 from 7, so the second wraps;
  two places for unfinished ones; three frames with parity on a link too far for
  NACKs and two with one NACK and one resend. Six GameStream frames of two
  packets, of which any may be lost, all of a frame too; blocks of two and one
  shards with the sound's number modulo 8. One chunk of output and one of input
  at a terminal, two logins with two keys. Two discovery servers that answer for
  themselves, two addresses, one change, three turns of time, one client.
- `session`: two operations, one message, the microphone against a window's
  video and audio, a host that may leave; two channels of which one may be open,
  one chunk of output; a file of two chunks, two uploaders, one of which also
  downloads, one kill; three versions of a watched file; three input events; a
  window and its popup; two connections to two hosts. (The theorems remove the
  bounds for the parts they state.)
- `peers`: two devices, two launches; one window with two orders; one principal
  with two launches of RemoteApps, two passwords and one kill; pictures of
  two widths, and viewers that follow their size or do not; one user with three
  sign-ins, two settings and a token whose last second is within the bound of the
  clock; two flows.
- `media`: two sizes, two options, an encoder that holds one picture back; three
  frames, keyframes of two packets, four sequence numbers, one loss, a queue of
  one; two brokers, one client; two sizes with two draws; two compositors, three
  calls for the private desktop. One window for the carriers (windows do not share
  them), the two backends automatic selection moves between, four generations in
  calm (start, switch, failed switch, restart) and two otherwise.
- `viewer`: a window and its popup, two connections, one text of the client and
  two of the host, two switches, three microphone threads. Two pairing clients (one
  paired earlier), two failures, two PINs, one call between the slot and the
  counter: two racing stores, a failure between them, a lockout and a close or a
  pairing before it ends.

Symmetry is used in `trust` only, over the programs and devices of the list;
the parts whose liveness is checked have neither in their state.

Fairness. Only what the code does by itself is fair: tokio runs every task that
is ready and the operating system every thread. Lockout tasks wake, stores and
resets complete; the session loop, `pump_events`, timers and logins go on;
renegotiations that hold the lock go on, and their timers fire; pollers poll and
readers read; frame threads ask the encoder, and the network delivers what it
does not lose; server threads see their flag. Strong fairness stands where a step
competes with others for the same turn: a segment sent again and again arrives
at some time (streams in `trust`), a poll that empties the queue of events and a picture
taken between two changes of size (Linux in `media`), a server that accepts and an
update taken between two others (RDP in `peers`). No user, peer or server is assumed to act, and
windows need not close. `CHECK_DEADLOCK FALSE` stands in every run, because each
has parts that may come to rest: nobody has to start another stream, send another
frame or change a list.

## What is proved

For every value of the constants, from the named assumptions of the modules
(`PairingAssumption`, `WindowAssumption`, `TrustFileAssumption` and so on: a
limit of at least one, finite sets of programs, times and colours that are
numbers, pictures that have a size). Every proof rests on an inductive invariant that TLC
checked first.

| Module | Theorem | Says |
|---|---|---|
| `HostProofs` | `PairingTypes`, `WithdrawnPins`, `FullCounter`, `SelectorStaysInStep`, `OneDeviceForAToken`, `FlowsAreSound`, `SignInsStaySound`, `DevicesArePinnedByTheirPins` | types; `WithdrawnPinsStayGone`; `FullCounterMeansNoPin`; `SwitchesInStep`, an invariant and an action property; two parts of `SignInsAreSound`, and all of it; the pairing half of `DevicesKeptApart` |
| `LinkProofs` | `WindowAcceptsOnce`, `WordsImplementWindow`, `LinkTypes`, `LinkAcceptsOnce`, `LossReported`, `FramesAreAccountedFor`, `StreamImplemented`, `StreamLosesNothing` | `AcceptedOnce`, `WordsKeepTheWindow` with the refinement of the window, `LossNotUnderstated`; no number reaches the one never used; `FramesAccountedFor`; the refinement `IsByteStream`; the safety of `StreamsEndCleanly` |
| `ClientProofs` | `TrustFileTyped`, `ChangesSurvive`, `PairingsSurvive`, `WindowsShowTheirs`, `ViewerIsShown`, `LossesAreRepaired`, `SoundPlaysInOrder`, `MediaStaysInStep`, `MicrophoneStaysAsSwitched` | types; `ChangesAreKept`; `PairingsAreKept`; `WindowsShowTheirOwn`; `ViewerShowsWhatWasSent`; the two halves of `MediaInStep`, and all of it; the microphone half of `SoundFollowsTheUser` |
| `RemoteProofs` | `RemoteHostAsksInTime`, `TerminalMissesNothing`, `KeptPasswordsLogIn`, `WindowsAreListed`, `WindowsStateKept`, `FramesFollow` | `AsksInTime`, an invariant and three action properties; `NothingIsMissed`; `WindowsStateIsKept`; `FramesFollowEachOther` |
| `SessionProofs` | `SessionKeepsOrder`, `CommandsAreAccountedFor` | `SessionInOrder`; `CommandsAccountedFor` |
| `ChannelProofs` | `NothingIsLeftDown`, `FilesSurvive` | `NothingStaysDown`; `FilesAreKept` |
| `CarrierProofs` | `CarriersStayInStep` | `CarriersAgree` |
| `CaptureProofs` | `InputIsServed`, `EventsAreKept`, `UnitsFit`, `EncodingStaysInStep`, `UnitsHaveTheirSize`, `OneServerAtATime`, `AnswersFit` | `InputGoesToTheServed`; `EncodingInStep` and its two halves; the size half of `PictureIsTheWindows`; one server of the pipe; `AnswersFitTheQuestion` |

The arguments:

- **Pairing.** That a PIN about to be stored is not withdrawn does not say that
  it is not in the slot, nor that the next one generated is new. `PinsMoveOn`
  adds that slot, PINs on their way and withdrawn ones are apart and were all
  generated before (`<= issued`); with types and counter it is the inductive
  invariant. `CountFailureOutcomes` says once what a failed attempt may do to
  slot and counter.
- **Tokens and flows.** A device claims a token when it was registered by it or
  its check came back with it; a token that is claimed is among those used, and
  one device claims it (`TokensAreUsedOnce`). What is used is not forgotten
  before the last second (`NothingForgotten`). In the client every host accepted
  anywhere, by the dialogs, an attempt of the browser, the code or a waiting
  call, is none or was confirmed, and the next poll lies an interval after the
  last.
- **Guesses.** The throttle counts failures in groups. `Tally` says, for every
  failure that is still within the length of a pause, that either a pause has
  begun since, and then the failures since and the checks still under way are
  few, or those since are of the group being counted and of one before it that
  did not fill (`FewSince`). No check begins during a pause, so each device adds
  one at most. Two groups in one stretch are possible: the first began earlier and
  ran out of time.
- **Carriers.** That a backend has one carrier and that no thread captures for
  nobody needs no calm (`BaseInv`). In calm (`CalmInv`) a generation is in one
  place: asked for, being started, answered, logging in or up (`OnePlace`), and
  has one part at the client (`Apart`), of which a stop on its way is always ahead
  of a new start or behind everything (`StopsInTurn`, `Unwanted`). What is shown
  runs unless the stream is ending, what runs is known to the client or will be
  stopped, and a stop never hits the only one (`Carried`). Nothing under way then
  means the same carriers at both ends. The order of messages in a queue is said
  once (`Has`, `Ahead`), and what sending and taking one does to it. The
  hypothesis `RdpOffered` excludes a host asked for RDP that it does not serve,
  of which the next section speaks.
- **Sealed packets.** Exactness says that bit k is set exactly when highest - k
  was accepted, for all k of the window; hence what `check` admits is new
  (`CheckedIsNew`) and counting accepted packets is counting numbers. The meter
  needs in addition that its samples are of the past (`MeterBehind`).
- **Frames.** The numbers under way span less than half the wrap, so a newer
  number is a later frame (`NewerIsLater`). What is under way or held is of the
  frames that were sent (`OfTheStream`), the last one delivered is what the
  receiver says (`AtTheLast`), and what is held is later than it and waits for a
  block (`HeldWaits`). The frame evicted is the least of those held, which is
  found by well-foundedness (`LeastOf`).
- **Trust list.** Programs take turns (`OneAtATime`), a program about to save
  holds the list that comes next (`SavesTheNext`), and what it writes is beside
  the list, never the list itself (`WritesBeside`), so a crash leaves the old one
  or the new one. At the client a pairing is pinned in the list, not in the
  connection's copy; hence what is kept is in both lists at every step.
- **Selector.** A choice stays ripe until it is started (`ChoiceStaysRipe`), the
  backoff of a failure outlives everything that could clear it
  (`BackoffIsKept`), a carrier the selector knows nothing of is fresh
  (`UnknownIsFresh`), and what it waits for is going on or its end is on its way
  in the queue of events.
- **Remote host.** Replies are to requests taken earlier (`TakenIsOlder`), and
  what is announced is the mapping of the last of them. Of a turn's answers the
  shortest wait is kept; so the next announcement is after what a server said, if
  it was among the shortest and none took the address, and what else a server
  said is `overruled` (`AnnouncesAfter`). The next look-up is after what was
  promised to the caches (`NextLookupIsLater`).
- **Replay words.** A number is at one place, word and bit, of the bitmap
  (`OnePlace`); setting changes that place only (`SetBitSets`), and the shift takes
  each bit up by the jump, with a borrow from the word below where the place
  within the word runs out (`ShiftShifts`). So the check in words is the check of
  the window (`WordsTell`) and each step of one is a step of the other.
- **Terminal.** The reader changes the screen before the version and the view
  looks at the version before it draws; so a version the view has seen is of the
  past (`VersionsArePast`), what it drew is at least as new as that version
  (`DrawnIsFresh`), and anything newer is still to be told (`ToBeTold`).
- **Session.** Types first; that senders are recorded needs nothing else. Until a
  renegotiation is given up there is one round at a time: at most one of offer,
  answer or slot, all of one number (`OneRound`, `InTurn`). The end comes last
  because what the peer said is what was heard, what waits and what is on its way
  (`WordsKept`), a goodbye is behind all of it in its queue (`GoodbyeKept`) and
  the end the application sees is behind all of it in the inbound queue
  (`EndKept`). Queues are counted by the places of a kind of message
  (`CountOfAppend`, `CountOfTail`).
- **Commands.** An invariant per channel (`ChannelKept`) in numbers: what of it is
  under way in either direction, and what the app was told. A number not given
  out is nowhere; before it is started a channel has done nothing; a channel in
  the map has a command or the word of its end is coming; a command that runs is
  in the map, about to be closed or was given up on; output is in the app's queue,
  on its way or with the readers, and all of it before the exit. `HostIsTidy` ties
  the host's tables to each other. In a settled state this makes the app's
  channels the running commands.
- **Input.** What is down at the system is held by some session (`DownIsHeld`,
  per platform `DownWindows`, `DownLinux`, `DownAndroid`); what an event ends is
  lifted and what it starts is held from then on (`HoldsAfter`). A session that is
  over holds nothing (`OverHoldsNothing`), so when all are over nothing is down but
  what has `strayed`: a history that takes in what a release could not reach
  (`Misses`) and lets go of it when something else lifts it.
- **Files.** On the disk (`DiskInv`) the part is of one source and no longer than
  the file, an upload that is open has written all there is of it, at most one
  upload is open or being put in place, and what is read was under the name and is
  not written any more. A file that is made gets a number nobody uses
  (`UnusedIs`, by counting). On a channel where every call came to its end
  (`ChannelKept`) what was sent is written or on its way, in the order in which it
  is answered; and what comes of a download is of the file that is read
  (`ComesFrom`), so a copy of full length is whole.
- **Windows capture.** One size goes from the track over the encoder and what it
  holds back to what is announced; a keyframe is due exactly when the encoder is
  new. The transform's events: invitations taken and outstanding add up. The two
  specifications share no variables, so their joint theorem is about a behaviour
  of both.
- **Windows of the reference app.** Every buffer the compositor still holds is
  marked busy (`BusyWhileHeld`), so the one drawn into and those let go are not
  among them; where Windows asks for the pointer, it is the one last set by the
  state the window is in. The two specifications share no variables, so the
  theorem is about a behaviour of both.
- **VNC.** One update at most is asked for or on its way (`OneUpdate`), and what
  is on its way brings the viewer to what the server says was sent
  (`WillShowSent`): the columns that changed lie between the least and the
  greatest of them, and the rest is as it was (`UpdateAddsUp`). There is room
  for them at the viewer (`RoomFor`) as long as it follows the size or the window
  has not outgrown what it was told (`FitsUnlessOutgrown`, `UpdateFits`).
- **RemoteApp windows.** Of every window, the last order about it that is not read
  yet tells whether it is there and shown, and where there is none the table has
  what Windows has (`Told`); so reading and sending an order both keep this
  (`ReadingKeepsTold`, `SendingKeepsTold`). A table has each window once in its
  order (`WindowTable`), which `Only` keeps (`OnlyIs`, by counting), and the watch
  has a listing once it has its number (`ListingTaken`).
- **Host-made accounts.** While launches come one at a time, the one at the file
  holds what is in it (`OneAtTheFile`), and it makes a password only where none
  is kept or the user is gone (`MadeWhenGone`).
- **The way of a frame.** How long ago a packet was sent is counted back from the
  next sequence number (`AgeOf`). `NothingIsOld` bounds that by what is under way,
  was lost or swapped, and `FramesAssumption` says that numbers do not come round
  within that; so a number that succeeds another was sent right after it
  (`PacketsInTurn`, `LastIsSent`). Where no keyframe is waited for, what follows
  the receiver's last number is therefore of the frame after the newest the
  program has or will get (`NextInTurn`), and so the queue is in turn
  (`SlotInTurn`). The assumption is needed: a gap of all 2^16 packets at once
  looks like none to `RemoteWindow`. A keyframe begins a picture anew, clean if
  it is whole and torn if `is_keyframe` took one with a hole for it; the theorem
  says that nothing else stands behind a hole, and the run `torn_keyframe` shows
  the torn one.
- **GameStream video.** A keyframe that will be shown is in the queue or still
  `Coming`: no frame after it has begun. Of a frame not begun, what was not lost
  is on the network (`RestIsOnTheWay`), so unless it was lost whole something of
  it comes before any later frame begins (`NextIsNotLater`), and what is given up
  is then noticed (`NothingIsSkipped`). Holes behind the last frame queued and gaps
  in the queue are asked for already, or a frame was lost whole since
  (`HolesAreAskedFor`, `GapsAreAskedFor`, `LostSince`); that lasts until the next
  keyframe is decoded.
- **GameStream sound.** A packet that may still arrive is of a block that ends no
  further than `AudioReach` before the newest (`PacketKept`), so its wrapped number
  tells whether its block is before the one that plays (`LateIsBefore`; half the
  numbers must be whole blocks) and, if not, which block it is (`BlockFound`). What
  a block holds is then of one block sent (`BlocksKept`), and what is rebuilt from
  any `DATA_SHARDS` shards is what was sent, because not all of these can be data
  when one is missing (`RecoveredKept`, by counting). `drain` is a recursive
  function: its rounds exist (`RunsExist`) and each keeps what is held, never
  ahead of the host (`RoundKeeps`); the induction over rounds is in the form of a
  set of numbers closed under successor (`Inductive`), which needs no operator
  as a parameter.
- **GameStream pairing.** Only calls that were begun have requests under way, and
  what such a call shows no longer changes. A hash the host kept is of the call
  whose key the typed PIN makes, since only equal keys open it (`ExchangeKept`);
  so an exchange that is replaced, or continued by another device of the same id,
  has none that matches.
- **Microphone.** One thread at most is not over, the one in hand, and how far it
  is with undoing what was begun tells what there is of encoder and track
  (`InHand`); a track not given out has no thread (`TracksAreNew`).
- **Linux capture.** The encoder of a stream has the size last announced
  (`EncoderAnnounced`), and so has what it makes. (That the window is shown in
  the end is liveness and stays with TLC.)
- **Linux input.** The generation an injector was tagged with is the one read
  before it was made, so equal generations mean that nothing changed since.
- **Byte stream.** The histories (written, read, ended) belong to a connection,
  the numbers to the locals of `run_stream`; `StreamsAgree` ties them together,
  `ConnectionsCarry` says that what was read is what was written, never further
  behind than a window, and `SegmentsAreTrue` that every segment under way says
  something that was so and still is, so a late or repeated one is harmless. A
  FIN is true because it goes out only once all was acknowledged, hence read
  (`NumbersAgree`). Each operation is a turn that keeps these (`TurnIsSound`,
  `TurnKeeps`) and a step of `ByteStream` or a stutter. An idle stream drops its
  pipe, which is `ByteStream`'s `CutOff`: from then on the connection is cut, and
  what its other end reads is still in order. That the plans are a
  finite set is assumed, for the greatest number to exist.
- **Secure screen.** One pipe, one question: a broker that serves is the only one
  with the pipe, a connection that is cut takes its answer with it, and a client
  that reads is on the connection it asked on.

Only model-checked, and to stay so: liveness (the prover does not do fairness or
ENABLED; so that streams do end, `StreamsEnd`, and the liveness halves of
`DevicesKeptApart`, `PictureIsTheWindows` and `SoundFollowsTheUser`) and what
the recursive functions `Handled` (`LinuxAgent`) and `PasswordAnswers`
(`Accounts`) compute, on which no theorem rests.

## Where code and text disagree

Six runs expect a violation; `PROJECT.json` quotes the lines.

- A lockout task stores its PIN whatever happened while it slept, so pairing
  that was closed, or used, is open again (`pairing_closed`).
- `TrackEnded` names a window and is taken as the end of its sound too, so a
  switch from video to RDP silences the window at the client (`carriers_sound`).
- `TrustStore::update` has no lock between programs: of two changes at the same
  time one is dropped (`trust_overlap`).
- A receiver that asks for the sound of a window whose stream was restarted gets
  the queue of the stream before, and is told that the sound ended
  (`stale_sound`).
- A keyframe that lost a packet may still show its header: `is_keyframe` takes it
  for one, so it ends the wait for a keyframe and goes to the decoder with its
  hole, and nothing asks for another (`torn_keyframe`).
- A GameStream frame of which no packet arrives is not noticed: `Depacketizer::add`
  reports what was begun and not completed and compares no indices, so nothing
  asks for a keyframe (`whole_frame_lost`).

Others were met while modelling. The first seven are cases the models do reach
and a property names as its exceptions, in its comment and here; the property
says that nothing else goes wrong:

- Lost whole frames (`LostUnnoticed` in `LossAsksForKeyframe`) and torn keyframes
  ("torn" in `FramesFollowEachOther`), of the two runs above.
- `announce` asks every discovery server and keeps the shortest wait
  (`rendezvous/src/lib.rs:285-315`), so a server that said a longer one is asked
  before it is over, and one that refused is asked at once about a new mapping if
  another took the old one; `host-core/src/remote.rs:153` has "never before a
  server's Retry-After" (`overruled` in `ServersAreLeftAlone`).
- A punched stream silent for IDLE drops its pipe (`transport/src/punched.rs:300`),
  so its program reads a clean end, perhaps before all the peer wrote (`CutOff` in
  `ByteStream`, `cut`).
- What a client left down is released by the way that is open then, not the one
  it was pressed by (`host-core/src/lib.rs:1849`): on Android a key goes to the
  display in focus; on Windows what was injected may be released by a message to a
  window that does not come to the front, or while the PC is locked; and a finger
  that was posted while it was locked is lifted by injection (`strayed` in
  `NothingStaysDown`).
- To a viewer that does not follow DesktopSize, `changed` sends what changed of
  the window also where it has grown beyond the size the viewer was told
  (`vnc/src/lib.rs:523`; line 536 has black for what is outside the picture, and
  nothing has it for what is outside the viewer): such a viewer is `broken`, which
  `ViewerShowsWhatWasSent` allows where `outgrown` says so.
- A refused buffer makes the capture wait for new constraints and clears those
  that came already (`agent-linux/src/capture.rs:449`); if they came before the
  refusal, the wait is in vain and the stream of a window that is there ends
  (`told` in `EndsForAReason`), which `capture.rs:410` and `capture.rs:445` rule
  out. The claim itself is `StreamsEndWithTheirWindow`; with it as an invariant,
  the Linux part of `media` has the counterexample in seven states.

These are behind a condition of a property, or allowed by the model:

- Without calm: a window that closed by itself leaves its entry in the session
  loop's table and cannot be started again until it is stopped; with a carrier
  that comes up after its timer, or a switch that begins during a stop, host and
  client may come to rest with different carriers.
- Native and Desktop share a window's one video track, so a switch between them
  finds it taken (`host-core/src/lib.rs:1511`).
- After one renegotiation that times out, its answer may be applied to the next
  offer, the next one's to the one after, and so on (`AnswersMatch` is stated
  up to there), and the attach that timed out leaves its sender in the
  connection.
- A command that ends at once may have its Exited sent before the session loop
  sends Opened; the client drops the route and reports that the host did not
  answer (`protocol/src/command.rs` has the answer first). An open that times
  out sends no Close, and its command runs until the session ends (`late`).
- A list that cannot be read is taken as an empty one, and the next change makes
  it so (`misread` in `TrustFile`).
- A program that drops its end of a punched stream while the peer still sends
  keeps both ends busy for ever (`transport/src/punched.rs:281`), and a copy of a
  SYN that comes after the host's end is over opens a stream nobody serves.
- A mapping that returns to what it was before is announced without waiting
  SETTLE again (`RemoteHost`).
- A switch to RDP that the host does not offer is answered with the carrier it
  falls back to, and the client keeps the kind it asked for
  (`client-core/src/lib.rs:1372`); the runs offer every kind.
- A late fragment of an old frame can evict a newer unfinished one; a refresh
  that was asked for is not remembered (`bud/src/recovery.rs:312`).
- A text copied before sharing was switched on is sent when it is; two virtual
  microphones made at a time are both unloaded; two first logins to one SSH host
  both pin its key, the last one's stays (`terminal/src/ssh.rs:124`).
- Input reaches a window that is streamed and not on screen, and the pointer that
  is followed is that of the topmost window (`host-core/src/lib.rs:2077`).
- A capture session ends with its window (`agent-linux/src/capture.rs:410`); the
  private session ends only with the last of its sessions.
- A token is forgotten as the last second of its leeway begins
  (`until + 60 > now`, `accounts/src/oidc.rs:543`) and is valid to its end, so in
  that second it may register a second device; `docs/ACCOUNTS.md:117` says one
  only. `TokenRegistersOneDevice` speaks of the time before; with it left out of
  the hypothesis (`Remembers`) the run `peers` has the counterexample.
- A launch that sets the password of a host-made account and does not keep it (the
  user is not let into the group, the file cannot be written, the host dies in
  between) or that overlaps another (`rdp/src/remoteapp_host.rs:190`, a file read
  and written whole without a lock) leaves a kept password that is not Windows':
  `host_account` takes it without trying it, so every later launch is refused,
  where `docs/BACKENDS.md:219` says the host logs in with it.
  `KeptPasswordLogsIn` speaks of the other cases; without its condition (`unkept`)
  the run `peers` has the counterexample.
- Tokens that were used are kept in memory only and registrations are written in
  place (`accounts/src/registrations.rs:98`): a host that is killed may take a
  token twice or lose them.

## Plan

The model is complete as far as planned. Left for proofs: what "Only
model-checked so far" lists.

## What is left out

Drawing, devices and user interface are calls to systems whose behaviour the
code does not fix. Ciphers, PAKE, HPKE and Reed-Solomon arithmetic are their
outcomes. HTTP, TLS and XML are I/O. The conduit, the C interface, discovery on
the LAN and the tools convert and call. Packet formats are left out except where
a number's width matters. `PROJECT.json` has every part with its status.
