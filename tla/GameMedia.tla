------------------------------ MODULE GameMedia -------------------------------
(* GameStream video from the host's packetizer to the client's decoder         *)
(* (src/gamestream/src/video.rs, the frame loop of stream.rs and the video and *)
(* control threads of session.rs). A frame is PACKETS packets and windowcast   *)
(* sends no parity: a packet lost loses its frame, and every frame after it    *)
(* builds on it until the next keyframe. The network keeps order and may lose  *)
(* packets; the control stream is reliable.                                    *)
EXTENDS Integers, Sequences, FiniteSets, FiniteSetsExt

CONSTANTS PACKETS,         \* packets of a frame
          FRAME_QUEUE,     \* the client's queue of frames
          LostPerFrame,    \* bound: how many packets of one frame are lost
          MaxGameFrames    \* bound: frames the host sends

\* A frame may be lost whole.
ASSUME VideoAssumption ==
    /\ PACKETS \in Nat \ {0} /\ LostPerFrame \in 0 .. PACKETS
    /\ MaxGameFrames \in Nat

VARIABLES
    \* host
    sentFrames, hostWants,
    \* the network: video packets, a keyframe request on the control stream
    videoNet, lostOf, idrAsked,
    \* client: Depacketizer, the frame queue, wants_keyframe
    assembling, shards, nextFrame, frameQueue, clientWants,
    \* what the program that takes the frames can decode
    decoded, decodes,
    keyDecoded,    \* the last keyframe it decoded
    keyframes      \* indices of the keyframes sent

videoVars == <<sentFrames, hostWants, videoNet, lostOf, idrAsked, assembling, shards, nextFrame,
               frameQueue, clientWants, decoded, decodes, keyDecoded, keyframes>>

NoFrame == 0

\* Both ends begin with a keyframe: the host's flag, the client's first request.
GameVideoInit ==
    /\ sentFrames = 0 /\ hostWants = TRUE
    /\ videoNet = <<>> /\ lostOf = [f \in 1 .. MaxGameFrames |-> 0] /\ idrAsked = TRUE
    /\ assembling = NoFrame /\ shards = {} /\ nextFrame = 0
    /\ frameQueue = <<>> /\ clientWants = FALSE
    /\ decoded = 0 /\ decodes = FALSE /\ keyDecoded = 0 /\ keyframes = {}

\* A frame is taken, a keyframe if one is wanted, and sent.
SendFrame ==
    /\ sentFrames < MaxGameFrames /\ Len(videoNet) <= PACKETS
    /\ LET f == sentFrames + 1
       IN /\ sentFrames' = f
          /\ videoNet' = videoNet \o [i \in 1 .. PACKETS |-> [frame |-> f, shard |-> i]]
          /\ keyframes' = IF hostWants THEN keyframes \union {f} ELSE keyframes
    /\ hostWants' = FALSE
    /\ UNCHANGED <<lostOf, idrAsked, assembling, shards, nextFrame, frameQueue, clientWants, decoded, decodes, keyDecoded>>

LosePacket ==
    /\ videoNet # <<>>
    /\ lostOf[Head(videoNet).frame] < LostPerFrame
    /\ lostOf' = [lostOf EXCEPT ![Head(videoNet).frame] = @ + 1]
    /\ videoNet' = Tail(videoNet)
    /\ UNCHANGED <<sentFrames, hostWants, idrAsked, assembling, shards, nextFrame, frameQueue, clientWants, decoded, decodes, keyDecoded, keyframes>>

\* REQUEST_IDR at the host.
TakeIdrRequest ==
    /\ idrAsked
    /\ idrAsked' = FALSE /\ hostWants' = TRUE
    /\ UNCHANGED <<sentFrames, videoNet, lostOf, assembling, shards, nextFrame, frameQueue, clientWants, decoded, decodes, keyDecoded, keyframes>>

\* The client's control thread.
AskForIdr ==
    /\ clientWants
    /\ clientWants' = FALSE /\ idrAsked' = TRUE
    /\ UNCHANGED <<sentFrames, hostWants, videoNet, lostOf, assembling, shards, nextFrame, frameQueue, decoded, decodes, keyDecoded, keyframes>>

\* Whatever was being put together when a new frame begins is lost.
StartsAnew(f) == f >= nextFrame /\ assembling # f
OnlyLaterLosses(f) == StartsAnew(f) /\ assembling # NoFrame /\ f > assembling + 1
LosesCurrent(f) == StartsAnew(f) /\ assembling # NoFrame /\ shards # {}

\* Depacketizer::add_shard and complete: the shards of the frame with this one.
HeldShards(p) == (IF StartsAnew(p.frame) THEN {} ELSE shards) \union {p.shard}

\* The video thread takes one packet. A frame that finds the queue full is
\* dropped; that, and a loss, wants a keyframe.
TakePacket ==
    /\ videoNet # <<>>
    /\ videoNet' = Tail(videoNet)
    /\ LET p == Head(videoNet)
           whole == Cardinality(HeldShards(p)) = PACKETS
           full == Len(frameQueue) = FRAME_QUEUE
       IN IF ~StartsAnew(p.frame) /\ assembling # p.frame
          THEN UNCHANGED <<assembling, shards, nextFrame, frameQueue, clientWants>>
          ELSE /\ assembling' = IF whole THEN NoFrame ELSE p.frame
               /\ shards' = IF whole THEN {} ELSE HeldShards(p)
               /\ nextFrame' = IF whole THEN p.frame + 1 ELSE nextFrame
               /\ frameQueue' = IF whole /\ ~full THEN Append(frameQueue, p.frame) ELSE frameQueue
               /\ clientWants' = (clientWants \/ LosesCurrent(p.frame) \/ (whole /\ full))
    /\ UNCHANGED <<sentFrames, hostWants, lostOf, idrAsked, decoded, decodes, keyDecoded, keyframes>>

\* The program decodes the next frame: a keyframe always, any other if the
\* frame before it was decoded.
Decode ==
    /\ frameQueue # <<>>
    /\ frameQueue' = Tail(frameQueue)
    /\ decoded' = Head(frameQueue)
    /\ decodes' = (Head(frameQueue) \in keyframes \/ (decodes /\ Head(frameQueue) = decoded + 1))
    /\ keyDecoded' = IF Head(frameQueue) \in keyframes THEN Head(frameQueue) ELSE keyDecoded
    /\ UNCHANGED <<sentFrames, hostWants, videoNet, lostOf, idrAsked, assembling, shards, nextFrame, clientWants, keyframes>>

GameVideoNext ==
    SendFrame \/ LosePacket \/ TakeIdrRequest \/ AskForIdr \/ TakePacket \/ Decode

GameVideoSpec == GameVideoInit /\ [][GameVideoNext]_videoVars
-----------------------------------------------------------------------------
\* The next packet of a frame that was given up is a straggler.
GivenUp(f) == f < nextFrame \/ f < assembling

\* A keyframe is wanted at either end, asked for, or sent and not given up.
KeyframeOnItsWay ==
    \/ clientWants \/ idrAsked \/ hostWants
    \/ \E k \in keyframes :
          k > decoded /\ (~ GivenUp(k) \/ \E i \in DOMAIN frameQueue : frameQueue[i] = k)

\* Since the last keyframe the program decoded, a frame was lost of which not one
\* packet came: Depacketizer::add never had it as `current`.
LostUnnoticed ==
    \E f \in DOMAIN lostOf : f > keyDecoded /\ GivenUp(f) /\ lostOf[f] = PACKETS

(* While the picture cannot be decoded, a keyframe is on its way. Losses of    *)
(* keyframes, of frames while a request is under way and frames dropped        *)
(* because nobody takes them are no exception; a frame that was lost whole     *)
(* since the last keyframe decoded is, and nothing else is: Depacketizer::add  *)
(* does not compare the number of a frame with that of the last one.           *)
LossAsksForKeyframe ==
    ~decodes /\ decoded # 0 => KeyframeOnItsWay \/ LostUnnoticed

(* "a lost packet loses the frame, and the client asks for a keyframe"         *)
(* (the module's doc, video.rs), whichever packets of a frame are lost.        *)
EveryLossAsksForKeyframe ==
    ~decodes /\ decoded # 0 => KeyframeOnItsWay

-----------------------------------------------------------------------------
(* GameStream sound (src/gamestream/src/audio.rs, fec.rs): packets numbered in *)
(* SEQ, DATA_SHARDS of them a block, each block followed by PARITY_SHARDS      *)
(* parity packets from which as many lost ones are rebuilt. The network loses, *)
(* repeats and reorders packets. A payload is the number it was sent with,     *)
(* which the packet itself carries only modulo SEQ.                            *)

CONSTANTS DATA_SHARDS, PARITY_SHARDS,
          SEQ,               \* 2^16 in the code, where DATA_SHARDS is 4: half of it is blocks
          MaxSounds,         \* bound: packets of sound
          AudioReach         \* bound: how far behind the newest a packet may arrive, and
                             \* what is played: the numbers must not wrap in between

ASSUME AudioAssumption ==
    /\ DATA_SHARDS \in Nat \ {0} /\ PARITY_SHARDS \in Nat /\ SEQ \in Nat \ {0}
    /\ SEQ % (2 * DATA_SHARDS) = 0
    /\ AudioReach \in Nat /\ 2 * AudioReach < SEQ

SoundShards == 0 .. DATA_SHARDS + PARITY_SHARDS - 1
Absent == -1

VARIABLES
    soundsSent,   \* how many packets of sound the host has sent
    audioNet,     \* packets that may still arrive: [base, shard, block]
    \* client: AudioDepacketizer
    nextSound,    \* the number that plays next, or Absent
    blocks,       \* [base -> [SoundShards -> payload or Absent]]
    soundAt,      \* nextSound before it was cut to SEQ
    played        \* the last sound played before the newest packet and what that packet
                  \* let play, each with the number it was played as

audioVars == <<soundsSent, audioNet, nextSound, soundAt, blocks, played>>

EmptyBlock == [s \in SoundShards |-> Absent]
BlockOf(seq) == seq - (seq % DATA_SHARDS)

\* after(a, b): the signed distance of two 16-bit numbers.
After(a, b) == LET d == (a - b) % SEQ IN IF d < SEQ \div 2 THEN d ELSE d - SEQ

GameAudioInit ==
    /\ soundsSent = 0 /\ audioNet = {}
    /\ nextSound = Absent /\ soundAt = 0 /\ blocks = [b \in {} |-> EmptyBlock] /\ played = <<>>

\* What a shard carries: its own payload, or parity of the whole block.
Carries(p) == IF p.shard < DATA_SHARDS THEN p.first + p.shard ELSE p.first
BaseOf(p) == p.first % SEQ

\* AudioPacketizer::packets. Parity follows the last packet of a block.
SendSound ==
    /\ soundsSent < MaxSounds /\ soundsSent - soundAt < AudioReach
    /\ LET i == soundsSent % DATA_SHARDS
           first == soundsSent - i
           all == IF i = DATA_SHARDS - 1 THEN {i} \union (DATA_SHARDS .. DATA_SHARDS + PARITY_SHARDS - 1) ELSE {i}
       IN audioNet' = {p \in audioNet : p.first + DATA_SHARDS - 1 + AudioReach > soundsSent}
                          \union {[first |-> first, shard |-> s] : s \in all}
    /\ soundsSent' = soundsSent + 1
    /\ UNCHANGED <<nextSound, soundAt, blocks, played>>

LoseSound(p) ==
    /\ p \in audioNet
    /\ audioNet' = audioNet \ {p}
    /\ UNCHANGED <<soundsSent, nextSound, soundAt, blocks, played>>

Present(b) == {s \in SoundShards : b[s] # Absent}

\* fec::recover: any DATA_SHARDS shards give the block. The first payload of
\* the block is what a shard that has arrived tells of it.
FirstOf(b) == LET s == Min(Present(b)) IN IF s < DATA_SHARDS THEN b[s] - s ELSE b[s]
Recovered(b) ==
    IF Cardinality(Present(b)) < DATA_SHARDS THEN b
    ELSE [s \in SoundShards |-> IF s < DATA_SHARDS /\ b[s] = Absent THEN FirstOf(b) + s ELSE b[s]]

At(bs, base) == IF base \in DOMAIN bs THEN bs[base] ELSE EmptyBlock
Put(bs, base, b) == [k \in DOMAIN bs \union {base} |-> IF k = base THEN b ELSE bs[k]]
WithoutSound(bs, base) == [k \in DOMAIN bs \ {base} |-> bs[k]]

\* A later block has enough to play: this one is waited for no longer.
Ahead(bs, base) ==
    \E k \in DOMAIN bs : After(k, base) > 0 /\ Cardinality(Present(bs[k])) >= DATA_SHARDS

\* One round of drain, as a step on [next, at, blocks, played, on].
DrainOnce(d) ==
    LET base == BlockOf(d.next)
        i == d.next - base
        b == At(d.blocks, base)
        r == IF b[i] = Absent THEN Recovered(b) ELSE b
        bs == Put(d.blocks, base, r)
        next == (d.next + 1) % SEQ
        left == IF next % DATA_SHARDS = 0 THEN WithoutSound(bs, base) ELSE bs
    IN CASE ~d.on -> d
         [] d.on /\ r[i] # Absent ->
            [d EXCEPT !.next = next, !.at = @ + 1, !.blocks = left, !.played = Append(@, [sound |-> r[i], as |-> d.next])]
         [] d.on /\ r[i] = Absent /\ Ahead(bs, base) -> [d EXCEPT !.next = next, !.at = @ + 1, !.blocks = left]
         [] d.on /\ r[i] = Absent /\ ~Ahead(bs, base) -> [d EXCEPT !.blocks = bs, !.on = FALSE]

\* drain ends by itself: it plays or gives up at most what is in the blocks.
SoundDrained(d) ==
    LET run[n \in 0 .. 2 * SEQ] == IF n = 0 THEN d ELSE DrainOnce(run[n - 1])
    IN run[2 * SEQ]

LastOf(s) == IF s = <<>> THEN s ELSE <<s[Len(s)]>>

\* AudioDepacketizer::add. A packet stays on the network: it may come again.
TakeSound(p) ==
    /\ p \in audioNet
    /\ LET base == BaseOf(p)
           seq == (p.first + p.shard) % SEQ
           next == IF nextSound # Absent THEN nextSound
                   ELSE IF p.shard < DATA_SHARDS THEN seq ELSE base
           bs == Put(blocks, base, [At(blocks, base) EXCEPT ![p.shard] = Carries(p)])
           at == IF nextSound # Absent THEN soundAt ELSE p.first + (IF p.shard < DATA_SHARDS THEN p.shard ELSE 0)
           d == SoundDrained([next |-> next, at |-> at, blocks |-> bs, played |-> LastOf(played), on |-> TRUE])
       IN IF After(base, BlockOf(next)) < 0
          THEN nextSound' = next /\ soundAt' = at /\ UNCHANGED <<blocks, played>>
          ELSE nextSound' = d.next /\ soundAt' = d.at /\ blocks' = d.blocks /\ played' = d.played
    /\ UNCHANGED <<soundsSent, audioNet>>

GameAudioNext == SendSound \/ \E p \in audioNet : LoseSound(p) \/ TakeSound(p)

GameAudioSpec == GameAudioInit /\ [][GameAudioNext]_audioVars
-----------------------------------------------------------------------------
(* Sound is played in the order it was sent, nothing twice, and every packet   *)
(* with the number it was encrypted for, although packets come late, twice and *)
(* rebuilt from parity while their numbers wrap (AudioDepacketizer::add).      *)
SoundInOrder ==
    /\ \A i \in 1 .. Len(played) - 1 : played[i].sound < played[i + 1].sound
    /\ \A i \in DOMAIN played : played[i].sound % SEQ = played[i].as

(* What a GameStream client shows and plays after losses: a picture that does  *)
(* not decode is being replaced, unless a frame was lost whole (video.rs), and *)
(* the sound is in order (audio.rs).                                           *)
MediaInStep == LossAsksForKeyframe /\ SoundInOrder
=============================================================================
