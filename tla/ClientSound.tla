----------------------------- MODULE ClientSound -----------------------------
(***************************************************************************)
(* Sound both ways.  A window's sound: the host records the application     *)
(* (agent-linux audio.rs), encodes it and feeds a track of its own          *)
(* (host-core start_audio, feed_audio); the client queues the packets       *)
(* (client-core pump_audio) and a thread of the stream window plays them    *)
(* (client-windows audio.rs).  The client's microphone: a thread beside the *)
(* app's switch sends it (client-windows microphone.rs, app client.rs), the *)
(* host plays it into a virtual microphone (agent-linux microphone.rs).     *)
(* A remote track is announced with its first packet.                       *)
(***************************************************************************)
EXTENDS Naturals, Sequences

CONSTANTS
    MaxSoundViews,      \* bound: times the window is opened
    SOUND_QUEUE,        \* AUDIO_QUEUE
    MaxSoundPackets,    \* bound: packets the host sends
    MaxAppChanges,      \* bound: times the application starts or stops playing
    MaxMicThreads       \* bound: times the microphone is switched on

ASSUME ClientSoundAssumption == SOUND_QUEUE \in Nat \ {0} /\ MaxMicThreads \in Nat

Views == 1 .. MaxSoundViews

VARIABLES
    view,           \* the last view opened, 0 before the first
    viewIsOpen,
    asks, tells,    \* control messages to the host and to the client
    feed,           \* the host's sound of each view: "none", "captured", "announced", "over"
    tracks,         \* announced tracks pump_windows has not taken
    fed,            \* the queue of each view's track: its packets, and whether its sender is there
    sharedQueue,    \* Shared.audio: the view whose queue it is, or 0
    player,         \* play threads: "none", "playing", "stopped", "ended"
    appPlays,       \* the sink input the application plays on, 0 for none
    recorded,       \* the sink input that is recorded, 0 for none
    scanned,        \* the last scan is less than RESCAN ago
    soundPackets, appChanges

soundVars == <<view, viewIsOpen, asks, tells, feed, tracks, fed, sharedQueue, player, appPlays, recorded,
               scanned, soundPackets, appChanges>>
clientVars == <<view, viewIsOpen, player>>
queueVars == <<tracks, fed, sharedQueue>>
recordVars == <<appPlays, recorded, scanned, appChanges>>

SoundInit ==
    /\ view = 0 /\ viewIsOpen = FALSE
    /\ asks = <<>> /\ tells = <<>>
    /\ feed = [n \in Views |-> "none"]
    /\ tracks = <<>>
    /\ fed = [n \in Views |-> [packets |-> 0, sender |-> FALSE]]
    /\ sharedQueue = 0
    /\ player = [n \in Views |-> "none"]
    /\ appPlays = 0 /\ recorded = 0 /\ scanned = FALSE
    /\ soundPackets = 0 /\ appChanges = 0

-----------------------------------------------------------------------------
(* The window is opened and closed. *)

OpensView ==
    /\ ~viewIsOpen /\ view < MaxSoundViews
    /\ view' = view + 1 /\ viewIsOpen' = TRUE
    /\ asks' = Append(asks, <<"start", view + 1>>)
    /\ UNCHANGED <<tells, feed, queueVars, player, recordVars, soundPackets>>

\* The play thread leaves its loop without another look at the queue.
ClosesView ==
    /\ viewIsOpen
    /\ viewIsOpen' = FALSE
    /\ player' = [player EXCEPT ![view] = IF @ = "playing" THEN "stopped" ELSE @]
    /\ asks' = Append(asks, <<"stop", view>>)
    /\ UNCHANGED <<view, tells, feed, queueVars, recordVars, soundPackets>>

\* start_audio: a source without sound for this window has none, and a track
\* that cannot be attached is not fed.
AttachAudio == {"none", "captured"}
StartsAudio(n) == \E f \in AttachAudio : feed' = [feed EXCEPT ![n] = f]

HostAnswers ==
    /\ asks # <<>>
    /\ LET n == Head(asks)[2]
       IN IF Head(asks)[1] = "start"
            THEN StartsAudio(n) /\ tells' = Append(tells, <<"started", n>>)
            ELSE /\ feed' = [feed EXCEPT ![n] = "over"]
                 /\ tells' = Append(tells, <<"stopped", n>>)
    /\ asks' = Tail(asks)
    /\ recorded' = 0 /\ scanned' = FALSE
    /\ UNCHANGED <<clientVars, queueVars, appPlays, appChanges, soundPackets>>

\* A stream window opens with its play thread.
StartsPlaying(n) == player' = [player EXCEPT ![n] = IF viewIsOpen /\ view = n THEN "playing" ELSE @]

\* next_packet: StreamStopped ends the tracks of the window that are known
\* (ended_windows): pump_audio returns and drops its sender.
EndsTracks == fed' = [v \in Views |-> [fed[v] EXCEPT !.sender = FALSE]]

\* The queue stays in Shared.audio.
ClientHears ==
    /\ tells # <<>>
    /\ tells' = Tail(tells)
    /\ LET n == Head(tells)[2]
       IN IF Head(tells)[1] = "started"
            THEN StartsPlaying(n) /\ UNCHANGED fed
            ELSE EndsTracks /\ UNCHANGED player
    /\ UNCHANGED <<view, viewIsOpen, asks, feed, tracks, sharedQueue, recordVars, soundPackets>>

-----------------------------------------------------------------------------
(* The host's recording of the application: agent-linux WindowAudio. *)

\* The application, or one of its children, starts or stops to play; moved to
\* another sink it has another sink input.
AppChanges ==
    /\ appChanges < MaxAppChanges
    /\ appChanges' = appChanges + 1
    /\ appPlays' \in {0, appChanges + 1}
    /\ appPlays' # appPlays
    /\ UNCHANGED <<clientVars, asks, tells, feed, queueVars, recorded, scanned, soundPackets>>

Captured(n) == feed[n] \in {"captured", "announced"}
RecordStep(n) ==
    /\ Captured(n)
    /\ UNCHANGED <<clientVars, asks, tells, feed, queueVars, appPlays, soundPackets>>

\* The process tree's sink input, if it plays, and its recording.
Find == appPlays
Record(input) == recorded' = input

\* start: at most one scan in RESCAN, ...
Scans(n) ==
    /\ RecordStep(n)
    /\ recorded = 0 /\ ~scanned
    /\ scanned' = TRUE
    /\ Record(Find)
    /\ UNCHANGED appChanges
\* ... which the server may refuse.
ConnectFails(n) ==
    /\ RecordStep(n)
    /\ recorded = 0 /\ ~scanned
    /\ appChanges < MaxAppChanges
    /\ appChanges' = appChanges + 1
    /\ scanned' = TRUE
    /\ UNCHANGED recorded
RescanPasses(n) ==
    /\ RecordStep(n)
    /\ scanned /\ scanned' = FALSE
    /\ UNCHANGED <<recorded, appChanges>>

\* read: a recording whose stream is over is let go, and the source goes on.
KeepsGone(r) == r
LetsGo(r) == 0
RecordingEnds(n) ==
    /\ RecordStep(n)
    /\ recorded # 0 /\ recorded # appPlays
    /\ recorded' = LetsGo(recorded)
    /\ UNCHANGED <<scanned, appChanges>>

-----------------------------------------------------------------------------
(* Packets. *)

\* feed_audio: a packet is sent; the first one announces the track.  pump_audio
\* queues it, and drops it where the queue is full.
Push(n) == fed' = [fed EXCEPT ![n].packets = IF fed[n].sender /\ @ < SOUND_QUEUE THEN @ + 1 ELSE @]
SendsPacket(n) ==
    /\ Captured(n) /\ recorded # 0 /\ recorded = appPlays
    /\ soundPackets < MaxSoundPackets
    /\ soundPackets' = soundPackets + 1
    /\ feed' = [feed EXCEPT ![n] = "announced"]
    /\ tracks' = IF feed[n] = "captured" THEN Append(tracks, n) ELSE tracks
    /\ IF feed[n] = "announced" THEN Push(n) ELSE UNCHANGED fed
    /\ UNCHANGED <<clientVars, asks, tells, sharedQueue, recordVars>>

\* pump_windows: a queue of its own for every track.
TakesTrack ==
    /\ tracks # <<>>
    /\ tracks' = Tail(tracks)
    /\ fed' = [fed EXCEPT ![Head(tracks)] = [packets |-> 1, sender |-> TRUE]]
    /\ sharedQueue' = Head(tracks)
    /\ UNCHANGED <<clientVars, asks, tells, feed, recordVars, soundPackets>>

\* next_audio: a packet, nothing yet, or the end of the queue, which removes it.
NextAudio(n, q) ==
    \/ /\ fed[q].packets > 0
       /\ fed' = [fed EXCEPT ![q].packets = @ - 1]
       /\ UNCHANGED <<sharedQueue, player>>
    \/ /\ fed[q].packets = 0 /\ ~fed[q].sender
       /\ sharedQueue' = 0
       /\ player' = [player EXCEPT ![n] = "ended"]
       /\ UNCHANGED fed

\* run of the play thread, which ends with the queue.
PollAudio(n) ==
    /\ player[n] = "playing" /\ sharedQueue # 0
    /\ NextAudio(n, sharedQueue)
    /\ UNCHANGED <<view, viewIsOpen, asks, tells, feed, tracks, recordVars, soundPackets>>

SoundNext ==
    \/ OpensView \/ ClosesView
    \/ HostAnswers \/ ClientHears
    \/ AppChanges
    \/ \E n \in Views : 
          Scans(n) \/ ConnectFails(n) \/ RescanPasses(n) \/ RecordingEnds(n) \/ SendsPacket(n) \/ PollAudio(n)
    \/ TakesTrack

\* The host's threads and the session's tasks go on.
SoundFairness ==
    /\ WF_soundVars(HostAnswers) /\ WF_soundVars(ClientHears) /\ WF_soundVars(TakesTrack)
    /\ \A n \in Views :
          /\ WF_soundVars(Scans(n)) /\ WF_soundVars(RescanPasses(n)) /\ WF_soundVars(RecordingEnds(n))
          /\ WF_soundVars(PollAudio(n))

SoundSpec == SoundInit /\ [][SoundNext]_soundVars

(* An application that keeps playing in an open window is recorded, however *)
(* often it stopped, moved or restarted its sound before (agent-linux       *)
(* audio.rs: next_samples, start, read).                                    *)
PlayingIsRecorded == SoundFairness =>
    \A n \in Views : <>[](Captured(n) /\ appPlays # 0) => <>[](recorded = appPlays)

(* "A window's audio track arrives a little after its stream starts, and    *)
(* only if the host captures its sound; until then this times out."         *)
(* (client-core lib.rs, next_audio): the play thread ends only with its own *)
(* track.                                                                   *)
UntilThenThisTimesOut == \A n \in Views : player[n] = "ended" => feed[n] = "over"

-----------------------------------------------------------------------------
(* The microphone. *)

MicThreads == 1 .. MaxMicThreads

VARIABLES
    switch,     \* the app's Option<Microphone>: the number of its thread, 0 for none
    appAt,      \* inside the app's lock: "idle", "attached", "joining"
    micThread,  \* "none", "running", "leaving", "detaching", "gone"
    micStopped, \* Microphone.stop of each
    micState,   \* ClientSession.microphone is there
    micTrack,   \* the attached track: its number, 0 for none
    micTracks,  \* tracks attached so far
    announced,  \* tracks the host knows and has not opened a sink for
    sinkOf,     \* virtual microphones: "none", "opening", "playing", "failed", "unloading", "gone"
    modules,    \* the modules each has loaded
    speakers    \* the default sink is the desktop's

micVars == <<switch, appAt, micThread, micStopped, micState, micTrack, micTracks, announced, sinkOf, modules,
             speakers>>
micHost == <<announced, sinkOf, modules, speakers>>
micClient == <<switch, appAt, micThread, micStopped, micState, micTrack, micTracks>>

MicInit ==
    /\ switch = 0 /\ appAt = "idle"
    /\ micThread = [n \in MicThreads |-> "none"]
    /\ micStopped = [n \in MicThreads |-> FALSE]
    /\ micState = FALSE /\ micTrack = 0 /\ micTracks = 0
    /\ announced = {}
    /\ sinkOf = [n \in MicThreads |-> "none"]
    /\ modules = [n \in MicThreads |-> {}]
    /\ speakers = TRUE

\* set_microphone(true): Microphone::start attaches the track, ...
AttachesMicrophone ==
    /\ appAt = "idle" /\ switch = 0 /\ micTracks < MaxMicThreads
    /\ appAt' = "attached"
    /\ IF micTrack = 0
         THEN micTracks' = micTracks + 1 /\ micTrack' = micTracks + 1
         ELSE UNCHANGED <<micTracks, micTrack>>
    /\ UNCHANGED <<switch, micThread, micStopped, micState, micHost>>

\* ... start_microphone makes the encoder, and the thread starts.
StartMicrophone == micState' = TRUE
StartsMicrophone ==
    /\ appAt = "attached"
    /\ appAt' = "idle"
    /\ StartMicrophone
    /\ switch' = micTracks
    /\ micThread' = [micThread EXCEPT ![micTracks] = "running"]
    /\ UNCHANGED <<micStopped, micTrack, micTracks, micHost>>

\* set_microphone(false), and the session's end: the Microphone is dropped,
\* which stops its thread and waits for it.
DropsMicrophone ==
    /\ appAt = "idle" /\ switch # 0
    /\ appAt' = "joining"
    /\ micStopped' = [micStopped EXCEPT ![switch] = TRUE]
    /\ UNCHANGED <<switch, micThread, micState, micTrack, micTracks, micHost>>
Joined(n) == micThread[n] = "gone"
JoinsMicrophone ==
    /\ appAt = "joining" /\ Joined(switch)
    /\ appAt' = "idle" /\ switch' = 0
    /\ UNCHANGED <<micThread, micStopped, micState, micTrack, micTracks, micHost>>

\* microphone_error, every picture of the app: a thread that failed is taken.
MicFailed(n) == n # 0 /\ micThread[n] = "gone"
TakesFailed ==
    /\ appAt = "idle" /\ MicFailed(switch)
    /\ switch' = 0
    /\ UNCHANGED <<appAt, micThread, micStopped, micState, micTrack, micTracks, micHost>>

\* run: a packet of send_microphone, or the end of the loop; the device may
\* fail at any time.
SendMicrophone ==
    /\ micState /\ micTrack # 0
    /\ announced' = IF sinkOf[micTrack] = "none" THEN announced \union {micTrack} ELSE announced
RunsMicrophone(n) ==
    /\ micThread[n] = "running" /\ ~micStopped[n]
    /\ \/ SendMicrophone /\ UNCHANGED micThread
       \/ micThread' = [micThread EXCEPT ![n] = "leaving"] /\ UNCHANGED announced
    /\ UNCHANGED <<switch, appAt, micStopped, micState, micTrack, micTracks, sinkOf, modules, speakers>>
LeavesMicrophone(n) ==
    /\ micThread[n] = "running" /\ micStopped[n]
    /\ micThread' = [micThread EXCEPT ![n] = "leaving"]
    /\ UNCHANGED <<switch, appAt, micStopped, micState, micTrack, micTracks, micHost>>

\* stop_microphone: the state is taken, then the track detached.
StopsMicrophone(n) ==
    /\ micThread[n] = "leaving"
    /\ micThread' = [micThread EXCEPT ![n] = "detaching"]
    /\ micState' = FALSE
    /\ UNCHANGED <<switch, appAt, micStopped, micTrack, micTracks, micHost>>
DetachesMicrophone(n) ==
    /\ micThread[n] = "detaching"
    /\ micThread' = [micThread EXCEPT ![n] = "gone"]
    /\ micTrack' = 0
    /\ UNCHANGED <<switch, appAt, micStopped, micState, micTracks, micHost>>

\* receive_microphone: one sink is opened after another; Device::open.
OpensSink(n) ==
    /\ n \in announced /\ \A m \in MicThreads : sinkOf[m] # "opening"
    /\ announced' = announced \ {n}
    /\ sinkOf' = [sinkOf EXCEPT ![n] = "opening"]
    /\ UNCHANGED <<micClient, modules, speakers>>

\* load: the null sink first, which the server may make the default, ...
LoadsModule(n) ==
    /\ sinkOf[n] = "opening" /\ modules[n] # {"sink", "source"}
    /\ \/ /\ modules' = [modules EXCEPT ![n] = IF @ = {} THEN {"sink"} ELSE {"sink", "source"}]
          /\ speakers' \in IF modules[n] = {} THEN {speakers, FALSE} ELSE {speakers}
          /\ UNCHANGED sinkOf
       \/ /\ sinkOf' = [sinkOf EXCEPT ![n] = "failed"]
          /\ UNCHANGED <<modules, speakers>>
    /\ UNCHANGED <<micClient, announced>>

\* ... keep_speakers undoes that, and the sink plays.
KeepsSpeakers(n) ==
    /\ sinkOf[n] = "opening" /\ modules[n] = {"sink", "source"}
    /\ speakers' = TRUE
    /\ sinkOf' = [sinkOf EXCEPT ![n] = "playing"]
    /\ UNCHANGED <<micClient, announced, modules>>

DeviceOpens(n) == LoadsModule(n) \/ KeepsSpeakers(n)

\* The track ends with the renegotiation that removed it; the play thread ends,
\* and with it the device's thread, which unloads what it loaded.
RemoteEnds(n) ==
    /\ sinkOf[n] = "playing" /\ micTrack # n
    /\ sinkOf' = [sinkOf EXCEPT ![n] = "unloading"]
    /\ UNCHANGED <<micClient, announced, modules, speakers>>
UnloadsModules(n) ==
    /\ sinkOf[n] = "unloading"
    /\ sinkOf' = [sinkOf EXCEPT ![n] = "gone"]
    /\ modules' = [modules EXCEPT ![n] = {}]
    /\ UNCHANGED <<micClient, announced, speakers>>

MicNext ==
    \/ AttachesMicrophone \/ StartsMicrophone \/ DropsMicrophone \/ JoinsMicrophone \/ TakesFailed
    \/ \E n \in MicThreads :
          \/ RunsMicrophone(n) \/ LeavesMicrophone(n) \/ StopsMicrophone(n) \/ DetachesMicrophone(n)
          \/ OpensSink(n) \/ DeviceOpens(n) \/ RemoteEnds(n) \/ UnloadsModules(n)

MicSpec == MicInit /\ [][MicNext]_micVars

(* The switch and what is sent agree: off, nothing is attached; on with a   *)
(* thread that runs, that thread's encoder and track are there, whatever    *)
(* threads before it still had to undo (client-windows microphone.rs Drop,  *)
(* client-core stop_microphone).                                            *)
MicrophoneIsAsSwitched ==
    appAt = "idle" =>
        IF switch = 0 THEN ~micState /\ micTrack = 0
        ELSE micThread[switch] = "running" => micState /\ micTrack = switch

(* Sound and microphone follow what the user switched, whatever threads of     *)
(* earlier streams still have to undo (audio.rs, microphone.rs).               *)
SoundFollowsTheUser == PlayingIsRecorded /\ []MicrophoneIsAsSwitched
=============================================================================
