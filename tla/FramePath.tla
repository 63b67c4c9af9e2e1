------------------------------ MODULE FramePath -------------------------------
(* One window's frames from the encoder thread to the program that shows     *)
(* them:                                                                     *)
(*                                                                           *)
(*  - host-core's feed asks the encoder for frames, a keyframe when the      *)
(*    client asked for one, and writes each to the track as RTP packets;     *)
(*  - the network loses and swaps packets, and loses keyframe requests;      *)
(*  - transport's RemoteWindow puts frames together, drops what follows a    *)
(*    gap until a keyframe, and asks for one with every frame it drops;      *)
(*  - client-core's pump_frames puts them in the window's slot, a queue of   *)
(*    FRAME_QUEUE, skipping to the next keyframe when the program is slow;   *)
(*  - the program takes frames with next_frame, may put one back             *)
(*    (hold_frame) and may ask for a keyframe itself.                        *)
(*                                                                           *)
(* A frame is its number, a keyframe or one that needs the frame before it.  *)
(* Frames and sequence numbers count modulo FRAMES and SEQUENCES, both       *)
(* larger than anything under way, so behaviours go on for ever.             *)
EXTENDS Naturals, Sequences

CONSTANTS
    FRAMES,       \* frame numbers
    SEQUENCES,    \* RTP sequence numbers (2^16 in the code)
    KEY_PACKETS,  \* packets of a keyframe; any other frame has one
    GOP,          \* frames from one keyframe the encoder makes by itself to the next
    WIRE,         \* packets under way
    FRAME_QUEUE,  \* frames a slot holds
    MaxFaults     \* losses, swaps, frames put back and requests, in all

(* Sequence numbers do not come round within what is under way or was lost:  *)
(* a gap of all 2^16 of them would look like none.                           *)
ASSUME FramesAssumption ==
    /\ {FRAMES, SEQUENCES, KEY_PACKETS} \subseteq Nat \ {0}
    /\ {WIRE, FRAME_QUEUE, MaxFaults} \subseteq Nat
    /\ WIRE + MaxFaults < SEQUENCES

VARIABLES
    feeding,     \* the encoder thread
    onWire,      \* packets under way, first to arrive first
    request,     \* a keyframe request is under way to the host
    remote,      \* the RemoteWindow
    pump,        \* pump_frames
    slot,        \* the window's slot: queue, held frame, whether its sender is there
    viewed,      \* what the program took last, and what picture it makes
    faults       \* faults so far

frameVars == <<feeding, onWire, request, remote, pump, slot, viewed, faults>>

NoFrame == [n |-> 0, key |-> FALSE, whole |-> FALSE]
NoSequence == SEQUENCES

FrameInit ==
    /\ feeding = [want |-> TRUE, n |-> 0, sequence |-> 0, on |-> TRUE]
    /\ onWire = <<>>
    /\ request = FALSE
    /\ remote = [last |-> NoSequence, pieces |-> <<>>, damaged |-> FALSE, awaiting |-> TRUE,
                 on |-> TRUE]
    /\ pump = [skipping |-> FALSE, asked |-> FALSE]
    /\ slot = [queue |-> <<>>, held |-> <<>>, open |-> TRUE]
    /\ viewed = [frame |-> NoFrame, picture |-> "clean", ended |-> FALSE]
    /\ faults = 0

(* --- the host ---------------------------------------------------------------- *)

(* The packets of one frame, each at its place; the last carries the marker. *)
PacketsOf(n, key, from) ==
    LET count == IF key THEN KEY_PACKETS ELSE 1
    IN  [i \in 1 .. count |-> [sequence |-> (from + i - 1) % SEQUENCES, n |-> n, key |-> key,
                               at |-> i, marker |-> i = count]]

(* The encoders make a keyframe every two seconds without being asked.       *)
NeverDue(n) == FALSE
KeyframeDue(n) == n % GOP = 0

(* One turn of feed: a frame is encoded, a keyframe when one is wanted or    *)
(* due, and its packets go to the track.                                     *)
FeedTurn ==
    /\ feeding.on
    /\ LET packets == PacketsOf(feeding.n, feeding.want \/ KeyframeDue(feeding.n),
                                feeding.sequence)
       IN  /\ Len(onWire) + Len(packets) <= WIRE
           /\ onWire' = onWire \o packets
           /\ feeding' = [feeding EXCEPT !.want = FALSE,
                                         !.n = (@ + 1) % FRAMES,
                                         !.sequence = (@ + Len(packets)) % SEQUENCES]
    /\ UNCHANGED <<request, remote, pump, slot, viewed, faults>>

(* The window closes or the stream is stopped: the track ends.               *)
FeedEnds ==
    /\ feeding.on
    /\ feeding' = [feeding EXCEPT !.on = FALSE]
    /\ UNCHANGED <<onWire, request, remote, pump, slot, viewed, faults>>

(* The watcher task keeps a request for the encoder thread's next turn.      *)
RequestArrives ==
    /\ request
    /\ request' = FALSE
    /\ feeding' = [feeding EXCEPT !.want = TRUE]
    /\ UNCHANGED <<onWire, remote, pump, slot, viewed, faults>>

(* --- the network --------------------------------------------------------------- *)

PacketLost ==
    /\ faults < MaxFaults
    /\ \E i \in 1 .. Len(onWire) :
          onWire' = SubSeq(onWire, 1, i - 1) \o SubSeq(onWire, i + 1, Len(onWire))
    /\ faults' = faults + 1
    /\ UNCHANGED <<feeding, request, remote, pump, slot, viewed>>

PacketsSwapped ==
    /\ faults < MaxFaults /\ Len(onWire) >= 2
    /\ onWire' = <<onWire[2], onWire[1]>> \o SubSeq(onWire, 3, Len(onWire))
    /\ faults' = faults + 1
    /\ UNCHANGED <<feeding, request, remote, pump, slot, viewed>>

RequestLost ==
    /\ faults < MaxFaults /\ request
    /\ request' = FALSE
    /\ faults' = faults + 1
    /\ UNCHANGED <<feeding, onWire, remote, pump, slot, viewed>>

(* --- putting frames together ---------------------------------------------------- *)

(* RemoteWindow with one more packet: a gap in the numbers damages the frame. *)
WithPacket(r, p) ==
    [r EXCEPT !.last = p.sequence,
              !.pieces = Append(@, p),
              !.damaged = @ \/ (r.last # NoSequence /\ p.sequence # (r.last + 1) % SEQUENCES)]

(* The pieces are one frame, all of it.                                      *)
IsWhole(pieces) ==
    /\ \A i \in 1 .. Len(pieces) : pieces[i].n = pieces[1].n /\ pieces[i].at = i
    /\ pieces[Len(pieces)].marker

(* is_keyframe looks for the header of a key picture anywhere in the data:   *)
(* a fragment of one may or may not still show it, and one that does is taken *)
(* for a keyframe whatever else of it is missing.                            *)
LooksKey(pieces) ==
    IF IsWhole(pieces) THEN {pieces[1].key}
    ELSE IF \E i \in 1 .. Len(pieces) : pieces[i].key THEN BOOLEAN ELSE {FALSE}

(* What is skipped once the queue was full: everything up to a keyframe.     *)
SkipsOne(p, frame) == FALSE
SkipsToKeyframe(p, frame) == p.skipping /\ ~frame.key

(* One turn of pump_frames with the frame RemoteWindow gave it.              *)
PumpTurn(frame) ==
    IF SkipsToKeyframe(pump, frame)
    THEN /\ pump' = [pump EXCEPT !.asked = FALSE]
         /\ request' = (request \/ pump.asked)
         /\ UNCHANGED slot
    ELSE IF Len(slot.queue) < FRAME_QUEUE
    THEN /\ pump' = [skipping |-> FALSE, asked |-> FALSE]
         /\ slot' = [slot EXCEPT !.queue = Append(@, frame)]
         /\ request' = (request \/ pump.asked)
    ELSE /\ pump' = [skipping |-> TRUE, asked |-> FALSE]
         /\ request' = TRUE
         /\ UNCHANGED slot

(* A packet arrives.  At the marker the frame is done: after damage nothing  *)
(* but a keyframe goes on, and every frame dropped asks for one.             *)
PacketArrives ==
    /\ remote.on /\ onWire # <<>>
    /\ onWire' = Tail(onWire)
    /\ LET r == WithPacket(remote, Head(onWire))
           done == [r EXCEPT !.pieces = <<>>, !.damaged = FALSE]
           awaiting == r.awaiting \/ r.damaged
       IN  IF ~Head(onWire).marker
           THEN remote' = r /\ UNCHANGED <<request, pump, slot>>
           ELSE \E key \in LooksKey(r.pieces) :
                   IF awaiting /\ ~key
                   THEN /\ remote' = [done EXCEPT !.awaiting = TRUE]
                        /\ request' = TRUE
                        /\ UNCHANGED <<pump, slot>>
                   ELSE /\ remote' = [done EXCEPT !.awaiting = FALSE]
                        /\ PumpTurn([n |-> Head(onWire).n, key |-> key,
                                     whole |-> IsWhole(r.pieces)])
    /\ UNCHANGED <<feeding, viewed, faults>>

(* The end of the track reaches the client: the pump ends with it, and the   *)
(* queue's sender is gone.                                                   *)
TrackEnds ==
    /\ ~feeding.on /\ remote.on
    /\ remote' = [remote EXCEPT !.on = FALSE]
    /\ slot' = [slot EXCEPT !.open = FALSE]
    /\ UNCHANGED <<feeding, onWire, request, pump, viewed, faults>>

(* --- the slot -------------------------------------------------------------------- *)

(* The program's decoder: a keyframe stands alone, and the picture is torn    *)
(* when it has a hole; any other frame needs the one before it, and makes as  *)
(* good a picture as that one; without it the picture is lost.                *)
PictureWith(frame) ==
    IF frame.key THEN IF frame.whole THEN "clean" ELSE "torn"
    ELSE IF frame.whole /\ frame.n = (viewed.frame.n + 1) % FRAMES THEN viewed.picture
    ELSE "lost"

TakesFrame ==
    /\ slot.held = <<>> /\ slot.queue # <<>>
    /\ slot' = [slot EXCEPT !.queue = Tail(@)]
    /\ viewed' = [viewed EXCEPT !.frame = Head(slot.queue),
                                !.picture = PictureWith(Head(slot.queue))]
    /\ UNCHANGED <<feeding, onWire, request, remote, pump, faults>>

(* A frame put back comes first.                                             *)
TakesHeldFrame ==
    /\ slot.held # <<>>
    /\ slot' = [slot EXCEPT !.held = <<>>]
    /\ viewed' = [viewed EXCEPT !.frame = slot.held[1]]
    /\ UNCHANGED <<feeding, onWire, request, remote, pump, faults>>

(* The caller's buffer was too small: the frame comes again.                 *)
HoldsFrame ==
    /\ slot.held = <<>> /\ viewed.frame # NoFrame /\ ~viewed.ended
    /\ faults < MaxFaults
    /\ slot' = [slot EXCEPT !.held = <<viewed.frame>>]
    /\ faults' = faults + 1
    /\ UNCHANGED <<feeding, onWire, request, remote, pump, viewed>>

(* request_keyframe leaves a flag for the pump's next frame.                 *)
ProgramAsks ==
    /\ slot.open /\ ~pump.asked /\ faults < MaxFaults
    /\ pump' = [pump EXCEPT !.asked = TRUE]
    /\ faults' = faults + 1
    /\ UNCHANGED <<feeding, onWire, request, remote, slot, viewed>>

(* Nothing is left and the sender is gone: the slot is removed.              *)
StreamEnded ==
    /\ ~slot.open /\ slot.queue = <<>> /\ slot.held = <<>> /\ ~viewed.ended
    /\ viewed' = [viewed EXCEPT !.ended = TRUE]
    /\ UNCHANGED <<feeding, onWire, request, remote, pump, slot, faults>>

FrameNext ==
    \/ FeedTurn \/ FeedEnds \/ RequestArrives
    \/ PacketLost \/ PacketsSwapped \/ RequestLost
    \/ PacketArrives \/ TrackEnds
    \/ TakesFrame \/ TakesHeldFrame \/ HoldsFrame \/ ProgramAsks \/ StreamEnded

(* Threads and tasks go on, packets under way arrive, the program polls.     *)
FrameFairness ==
    /\ WF_frameVars(FeedTurn) /\ WF_frameVars(RequestArrives)
    /\ WF_frameVars(PacketArrives) /\ WF_frameVars(TrackEnds)
    /\ WF_frameVars(TakesFrame) /\ WF_frameVars(TakesHeldFrame)
    /\ WF_frameVars(StreamEnded)

FrameSpec == FrameInit /\ [][FrameNext]_frameVars

(* --- properties -------------------------------------------------------------------- *)

(* A frame the program takes that is no keyframe is whole and comes right    *)
(* after the one it took before: neither a loss nor a full queue leaves a    *)
(* hole behind which frames go on.  What they go back to is a keyframe that  *)
(* is whole or, which next_frame lets pass (media.rs:416), one that lost a   *)
(* packet and shows its header: see FramesDecode.                            *)
FramesFollowEachOther == viewed.picture # "lost"

(* "A frame with a sequence gap is dropped, and so is everything after it    *)
(* until the next keyframe" (media.rs:10): what the program takes decodes.   *)
FramesDecode == viewed.picture = "clean"

(* Losses that stop do not stop the picture: as long as the stream runs the  *)
(* program gets frames again.  A slow program's request for a keyframe is    *)
(* sent once and may be lost; the picture then waits for the encoder's own.  *)
PictureComesBack == FrameFairness =>
    []<>(viewed.ended \/ ~feeding.on) \/ []<><<TakesFrame>>_frameVars

-----------------------------------------------------------------------------
(* How a host fits a stream to the network (host-core's quality.rs, Adapting *)
(* and the session's ping).  Once a second the stream's thread looks at what *)
(* it sent, the loss the client reported since, and the round trip; the      *)
(* controller cuts the bitrate it aims at when packets are lost or late,     *)
(* lets it grow again when they are not, and forgets it when it reached what *)
(* the stream took before it was held.  With too few bits for a pixel it     *)
(* takes a step down in frame rate and scale, with plenty one up.            *)
(*                                                                           *)
(* Bitrates are small whole numbers (the floor is 2, and what grows grows by *)
(* one at least), scales are in percent, and a turn of the model is one      *)
(* second.  Turns are more than 900 ms apart, so a cut is always allowed.    *)
(* What is reported to the client for show is left out.                      *)

CONSTANTS
    Demands,          \* what the encoder makes of the window when nothing holds it
    Caps,             \* bitrate limits a client sets; 0 is none
    FrameLimits,      \* frame rate limits a client sets; 0 is none
    HOST_FPS,         \* the frame rate of the host's settings
    PIXELS,           \* size of the window
    RTT_TURNS,        \* turns a round trip is remembered (30 in the code)
    DOWN_AFTER,       \* turns before a step down (3) ...
    UP_AFTER,         \* ... and up (10)
    MaxLimitChanges   \* bound of the model

VARIABLES
    controller,   \* target, step, round trips, timers, what was sent unheld
    adapting,     \* the quality the encoder was told
    limits,       \* the client's limits, and how often it set them
    network,      \* clear or not, and how much the window makes to send
    pinged        \* the ping under way and the last round trip

qualityVars == <<controller, adapting, limits, network, pinged>>

FLOOR == 2
NoLimit == 0

(* fps and scale of each step; 1000 stands for the frame rate of the host.   *)
Steps == << <<1000, 100>>, <<30, 100>>, <<30, 75>>, <<30, 50>>, <<20, 50>>, <<15, 50>> >>

Lower(a, b) == IF a < b THEN a ELSE b
Higher(a, b) == IF a > b THEN a ELSE b

(* A limit of 0 is none.                                                     *)
HeldTo(n, limit) == IF limit = NoLimit THEN n ELSE Lower(n, limit)

QualityInit ==
    /\ controller = [target |-> NoLimit, step |-> 1, rtts |-> <<>>, thin |-> NoLimit,
                     roomy |-> NoLimit, unheld |-> NoLimit]
    /\ adapting = [bitrate |-> NoLimit, fps |-> NoLimit, scale |-> 100]
    /\ limits = [cap |-> NoLimit, fps |-> NoLimit, sets |-> 0]
    /\ network \in [clear : BOOLEAN, demand : Demands]
    /\ pinged = [waiting |-> FALSE, last |-> NoLimit]

(* --- the controller ------------------------------------------------------------ *)

(* The least round trip remembered, with this one.                           *)
Baseline(rtts) ==
    LET seen == {rtts[i] : i \in 1 .. Len(rtts)}
    IN  CHOOSE least \in seen : \A r \in seen : least <= r

Remembered(rtts, rtt) ==
    LET all == Append(rtts, rtt)
    IN  IF Len(all) > RTT_TURNS THEN Tail(all) ELSE all

StepAt(step) ==
    [fps |-> Higher(HeldTo(Lower(Steps[step][1], HOST_FPS), limits.fps), 1),
     scale |-> Steps[step][2]]

(* Bits for a pixel at a step, times 1000.                                   *)
BitsPerPixel(budget, step) ==
    LET at == StepAt(step)
    IN  (budget * 100000) \div Higher(PIXELS * ((at.scale * at.scale) \div 100) * at.fps, 1)

(* What the stream takes when nothing holds it, averaged.                    *)
Unheld(sent) ==
    IF controller.target # NoLimit THEN controller.unheld
    ELSE IF controller.unheld = NoLimit THEN sent
    ELSE (7 * controller.unheld + 3 * sent) \div 10

Fills(sent, target) == sent * 10 > 4 * target

Grown(target, unheld) ==
    LET grown == Higher((target * 108) \div 100, target + 1)
    IN  IF unheld # NoLimit /\ grown * 4 >= unheld * 5 THEN NoLimit ELSE grown

(* The target after one observation; loss is "none" when no report came.     *)
Target(sent, loss, delayed) ==
    LET held  == controller.target
        from  == HeldTo(Higher(sent, FLOOR), held)
        share == IF loss = "high" THEN 70 ELSE 85
        aimed ==
            IF loss = "high" \/ delayed THEN Higher((from * share) \div 100, FLOOR)
            ELSE IF held # NoLimit /\ loss = "low" /\ Fills(sent, held)
            THEN Grown(held, Unheld(sent))
            ELSE held
    IN  IF aimed # NoLimit THEN HeldTo(aimed, limits.cap) ELSE NoLimit

(* A timer is the seconds since its cause was first seen, plus one.          *)
Older(timer, limit) == IF timer = NoLimit THEN NoLimit ELSE Lower(timer + 1, limit + 1)
Started(timer) == IF timer = NoLimit THEN 1 ELSE timer

(* The step and its timers.  They are left alone, and so go on, while        *)
(* nothing holds the stream.                                                 *)
StepTaken(target, good) ==
    LET budget  == IF target # NoLimit THEN target ELSE limits.cap
        step    == controller.step
        thin    == Older(controller.thin, DOWN_AFTER)
        roomy   == Older(controller.roomy, UP_AFTER)
        settled == [step |-> step, thin |-> NoLimit, roomy |-> NoLimit]
    IN  IF budget = NoLimit THEN [step |-> 1, thin |-> thin, roomy |-> roomy]
        ELSE IF BitsPerPixel(budget, step) < 40 /\ step < Len(Steps)
        THEN IF thin > DOWN_AFTER THEN [settled EXCEPT !.step = step + 1]
             ELSE [settled EXCEPT !.thin = Started(thin)]
        ELSE IF step > 1 /\ good /\ BitsPerPixel(budget, step - 1) > 90
        THEN IF roomy > UP_AFTER THEN [settled EXCEPT !.step = step - 1]
             ELSE [settled EXCEPT !.roomy = Started(roomy)]
        ELSE settled

Observed(sent, loss, rtt) ==
    LET rtts    == IF rtt = NoLimit THEN controller.rtts ELSE Remembered(controller.rtts, rtt)
        delayed == rtt # NoLimit /\ rtt > Baseline(rtts)
        target  == Target(sent, loss, delayed)
        taken   == StepTaken(target, loss # "high" /\ ~delayed)
    IN  [target |-> target, step |-> taken.step, rtts |-> rtts, thin |-> taken.thin,
         roomy |-> taken.roomy, unheld |-> Unheld(sent)]

(* What the encoder is told; a frame rate as high as the host's is none.     *)
QualityOf(c) ==
    LET at == StepAt(c.step)
    IN  [bitrate |-> IF c.target # NoLimit THEN c.target ELSE limits.cap,
         fps |-> IF at.fps < HOST_FPS THEN at.fps ELSE NoLimit,
         scale |-> at.scale]

(* --- a second of the stream ------------------------------------------------------ *)

(* What goes out: what the window makes, as far as the encoder is not held.  *)
Sent == HeldTo(network.demand, adapting.bitrate)

(* Adapting::sent.                                                            *)
SecondWith(loss) ==
    /\ controller' = Observed(Sent, loss, pinged.last)
    /\ adapting' = QualityOf(controller')
    /\ UNCHANGED <<limits, network, pinged>>

(* No report since the last second, or one of the loss there was.            *)
Second == \E loss \in {"none", "low"} \cup (IF network.clear THEN {} ELSE {"high"}) :
             SecondWith(loss)

(* A client reports a clear network again and again.                         *)
GoodSecond == network.clear /\ SecondWith("low")

SetStreamLimits ==
    /\ limits.sets < MaxLimitChanges
    /\ \E cap \in Caps, fps \in FrameLimits :
          limits' = [cap |-> cap, fps |-> fps, sets |-> limits.sets + 1]
    /\ UNCHANGED <<controller, adapting, network, pinged>>

(* --- the ping ---------------------------------------------------------------------- *)

(* Sent again once the last was answered.                                    *)
SendsPing ==
    /\ ~pinged.waiting
    /\ pinged' = [pinged EXCEPT !.waiting = TRUE]
    /\ UNCHANGED <<controller, adapting, limits, network>>

(* The answer comes in time on a clear network, and in time or late else.    *)
PingAnswered ==
    /\ pinged.waiting
    /\ \E rtt \in IF network.clear THEN {1} ELSE {1, 2} :
          pinged' = [waiting |-> FALSE, last |-> rtt]
    /\ UNCHANGED <<controller, adapting, limits, network>>

(* A ping that waits longer than the last round trip is the round trip.      *)
PingWaits ==
    /\ pinged.waiting /\ pinged.last = 1 /\ ~network.clear
    /\ pinged' = [pinged EXCEPT !.last = 2]
    /\ UNCHANGED <<controller, adapting, limits, network>>

NetworkChanges ==
    /\ network' \in [clear : BOOLEAN, demand : Demands]
    /\ network' # network
    /\ UNCHANGED <<controller, adapting, limits, pinged>>

QualityNext ==
    \/ Second \/ SetStreamLimits
    \/ SendsPing \/ PingAnswered \/ PingWaits \/ NetworkChanges

QualityFairness ==
    /\ WF_qualityVars(GoodSecond) /\ WF_qualityVars(SendsPing)
    /\ WF_qualityVars(PingAnswered)

QualitySpec == QualityInit /\ [][QualityNext]_qualityVars

(* --- properties ---------------------------------------------------------------------- *)

=============================================================================
