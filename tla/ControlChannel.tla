---------------------------- MODULE ControlChannel ----------------------------
(***************************************************************************)
(* A session's control channel (transport/src/lib.rs): one reliable ordered *)
(* WebRTC data channel, a FIFO queue in each direction.  What it carries    *)
(* here is what concerns ONE window's stream; other windows' messages are   *)
(* handled alike and independently.                                         *)
(***************************************************************************)
EXTENDS Naturals, Sequences

CONSTANTS
    Kinds,      \* the backends in play, a set of BackendKind names
    MaxGen,     \* bound: carrier generations a client asks for
    MaxGenAny,  \* the bound when it is not calm
    Calm        \* the values `calm` may have

ASSUME ChannelAssumption ==
    /\ "Native" \in Kinds
    /\ Kinds \subseteq {"Native", "Desktop", "Rdp"}
    /\ MaxGen \in Nat
    /\ MaxGenAny \in 0 .. MaxGen
    /\ Calm \subseteq BOOLEAN

Gens == 1 .. MaxGen

\* A carrier of the window's stream: Carrier in client-core, an entry of
\* WindowStreams.carriers in host-core.
Carrier == [gen : Gens, kind : Kinds]

\* session_track: whether a carrier sends on the session's video track
\* rather than over a connection of its own.
SessionTrack(kind) == kind \in {"Native", "Desktop"}

\* ControlMessage, client to host.
StartRequest(g, k) == [type |-> "Start", gen |-> g, kind |-> k]
CarrierStop(g) == [type |-> "CarrierStop", gen |-> g]
StopRequest == [type |-> "Stop"]

\* ControlMessage, host to client.  "Sound" stands for the renegotiation
\* offer that brings the window's audio track.
StartResponse(g, k, ok) == [type |-> "Answer", gen |-> g, kind |-> k, ok |-> ok]
TrackEnded == [type |-> "TrackEnded"]
StreamStopped == [type |-> "StreamStopped"]
SoundOffer == [type |-> "Sound"]

ToHost == [type : {"Start"}, gen : Gens, kind : Kinds]
          \cup [type : {"CarrierStop"}, gen : Gens]
          \cup {StopRequest}
ToClient == [type : {"Answer"}, gen : Gens, kind : Kinds, ok : BOOLEAN]
            \cup {TrackEnded, StreamStopped, SoundOffer}

VARIABLES
    toHost,     \* sent by the client, not yet taken by the session loop
    toClient,   \* sent by the host, not yet taken by pump_events
    calm        \* whether nothing unexpected happens beside the user's requests:
                \* no window closes by itself, no carrier needs longer than
                \* SWITCH_WITHIN to start, no switch begins while a stop is on its way

channel == <<toHost, toClient>>

ChannelTypeOK ==
    /\ toHost \in Seq(ToHost)
    /\ toClient \in Seq(ToClient)
    /\ calm \in BOOLEAN

ChannelInit ==
    /\ toHost = <<>>
    /\ toClient = <<>>
    /\ calm \in Calm
=============================================================================
