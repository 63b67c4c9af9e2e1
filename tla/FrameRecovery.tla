---------------------------- MODULE FrameRecovery ----------------------------
(***************************************************************************)
(* One media stream over a bud link: frames are cut into data and parity     *)
(* shards (bud/src/fragment.rs), put back together by the Reassembler, asked *)
(* for again by the LossDetector and answered by the Retransmitter           *)
(* (bud/src/recovery.rs).  The network reorders, delays and loses; it does   *)
(* not repeat, because the Opener accepts a packet once (SealedPackets).     *)
(* The sender is honest: packets the format forbids are left out.            *)
(*                                                                           *)
(* Times are kept as ages, cut off where a comparison can no longer change.  *)
(***************************************************************************)
EXTENDS Integers, FiniteSets, Sequences

CONSTANTS
    WRAP,           \* frame numbers are counted modulo this (2^32)
    FIRST,          \* the number of the first frame
    Links,          \* the links considered: [frames, parity, rtt]
    BLOCKS,         \* blocks of a frame (parity::blocks)
    K,              \* data shards of a block
    MAX_IN_FLIGHT,  \* unfinished frames held
    MEMORY,         \* frames the Retransmitter has room for
    MAX_RESENDS, MAX_NACKS,
    HOLD, DEADLINE, REFRESH_GAP         \* Timing

ASSUME RecoveryAssumption ==
    /\ \A n \in {WRAP, BLOCKS, K, MAX_IN_FLIGHT, MEMORY, DEADLINE, REFRESH_GAP} : n \in Nat \ {0}
    /\ \A n \in {FIRST, MAX_RESENDS, MAX_NACKS, HOLD} : n \in Nat
    /\ FIRST < WRAP
    /\ \A l \in Links : l.frames \in Nat \ {0} /\ l.parity \in Nat /\ l.rtt \in Nat
    /\ \A l \in Links : 2 * l.frames < WRAP    \* frames in flight span less than
                                              \* half the numbers

Number(i) == (FIRST + i) % WRAP
Numbers == {Number(i) : i \in UNION {0 .. l.frames - 1 : l \in Links}}

Data == (1 .. BLOCKS) \X (1 .. K)
NothingYet == -1

VARIABLES
    link,           \* the frames sent (a bound), the parity shards the sender adds to a
                    \* block and the round trip the receiver measured
    framesSent,           \* frames sent so far
    resends,        \* Stored.resends, by frame and data shard
    packets,            \* packets [frame, shard, copy] on their way; one that stays is lost
    nacks,          \* Nack messages [frame, fragments] on their way; equal ones are one
    lastDelivered,  \* StreamState.last_delivered, or None
    pending,        \* StreamState.pending: the frames being put together, looked up by number
    have,           \* the shards of each pending frame
    droppedFrames,        \* Reassembler.dropped
    seen,           \* LossDetector.seen: frame -> [age, nacks, since]
    sinceRefresh,   \* age of last_refresh; REFRESH_GAP when none or long ago
    delivered,      \* history: the frames delivered
    started         \* history: how often a frame became pending

senderVars == <<framesSent, resends, packets>>
frameVars == <<lastDelivered, pending, have, droppedFrames, delivered, started>>
detectorVars == <<seen, sinceRefresh>>
recoveryVars == <<link, senderVars, nacks, frameVars, detectorVars>>

Parity == (1 .. BLOCKS) \X (K + 1 .. K + link.parity)
Shards == Data \cup Parity

\* How long LossDetector::poll waits before it asks for a frame again.
NACK_GAP == (link.rtt * 3) \div 2

SeenRecords == [age : 0 .. DEADLINE, nacks : 0 .. MAX_NACKS, since : 0 .. NACK_GAP]

RecoveryTypes ==
    /\ link \in Links
    /\ framesSent \in 0 .. link.frames
    /\ resends \in [Numbers -> [Data -> 0 .. MAX_RESENDS]]
    /\ \A p \in packets : p.frame \in Numbers /\ p.shard \in Shards /\ p.copy \in 0 .. MAX_RESENDS
    /\ \A n \in nacks : n.frame \in Numbers /\ n.fragments \subseteq Data
    /\ lastDelivered \in Numbers \cup {NothingYet}
    /\ pending \subseteq Numbers
    /\ Cardinality(pending) <= MAX_IN_FLIGHT
    /\ have \in [Numbers -> SUBSET Shards]
    /\ DOMAIN seen \subseteq Numbers
    /\ \A f \in DOMAIN seen : seen[f] \in SeenRecords
    /\ sinceRefresh \in 0 .. REFRESH_GAP

RecoveryInit ==
    /\ link \in Links
    /\ framesSent = 0
    /\ resends = [f \in Numbers |-> [d \in Data |-> 0]]
    /\ packets = {}
    /\ nacks = {}
    /\ lastDelivered = NothingYet
    /\ pending = {}
    /\ have = [f \in Numbers |-> {}]
    /\ droppedFrames = 0
    /\ seen = <<>>
    /\ sinceRefresh = REFRESH_GAP
    /\ delivered = <<>>
    /\ started = 0

-----------------------------------------------------------------------------
(* The sending side. *)

\* fragment_with_parity, and Retransmitter::remember (see Remembered).
Send ==
    /\ framesSent < link.frames
    /\ packets' = packets \cup {[frame |-> Number(framesSent), shard |-> s, copy |-> 0] : s \in Shards}
    /\ framesSent' = framesSent + 1
    /\ UNCHANGED <<resends, nacks, frameVars, detectorVars>>

\* The frames the Retransmitter still has: the last MEMORY sent.
Remembered == {Number(i) : i \in {j \in 0 .. framesSent - 1 : j >= framesSent - MEMORY}}

\* Retransmitter::respond.
Respond(n) ==
    LET again == IF n.frame \in Remembered
                   THEN {d \in n.fragments : resends[n.frame][d] < MAX_RESENDS}
                   ELSE {}
    IN /\ n \in nacks
       /\ nacks' = nacks \ {n}
       /\ packets' = packets \cup {[frame |-> n.frame, shard |-> d, copy |-> resends[n.frame][d] + 1] : d \in again}
       /\ resends' = [resends EXCEPT ![n.frame] =
                        [d \in Data |-> IF d \in again THEN @[d] + 1 ELSE @[d]]]
       /\ UNCHANGED <<framesSent, frameVars, detectorVars>>

-----------------------------------------------------------------------------
(* The receiving side. *)

\* Bug to catch: numbers compared as they are, the wrap forgotten.
NewerPlain(a, b) == a > b

\* newer: later, counting past the wrap.
Newer(a, b) == a # b /\ (a - b) % WRAP < WRAP \div 2

\* Pending::recover: a block with K shards, of any kind, is whole.
Whole(held, b) == Cardinality({s \in held : s[1] = b}) >= K

\* Reassembler::incomplete: the data shards neither held nor rebuilt.
Missing(f) == {d \in Data \ have[f] : ~ Whole(have[f], d[1])}

\* The unfinished frame that makes room for another.
Oldest == CHOOSE f \in pending : \A g \in pending : ~ Newer(f, g)

\* The frames pending once a packet of `f` is let in.
Start(f) ==
    IF f \in pending THEN pending
    ELSE {f} \cup (IF Cardinality(pending) >= MAX_IN_FLIGHT THEN pending \ {Oldest} ELSE pending)

\* What is left once `f` was delivered: nothing older.
Overtaken(frames, f) == {g \in frames : Newer(g, f)}

\* Reassembler::push for a packet the Opener let through.
Push(p) ==
    LET f == p.frame
        held == Start(f)
        with == IF f \in pending THEN have[f] \cup {p.shard} ELSE {p.shard}
        new == IF f \in pending THEN 0 ELSE 1
        keep(frames) == [g \in Numbers |->
            IF g \notin frames THEN {} ELSE IF g = f THEN with ELSE have[g]]
        evicted == Cardinality(pending \ held)
    IN /\ p \in packets
       /\ packets' = packets \ {p}
       /\ \/ /\ lastDelivered # NothingYet /\ ~ Newer(f, lastDelivered)
             /\ UNCHANGED frameVars
          \/ /\ lastDelivered # NothingYet => Newer(f, lastDelivered)
             /\ \E b \in 1 .. BLOCKS : ~ Whole(with, b)
             /\ pending' = held
             /\ have' = keep(held)
             /\ droppedFrames' = droppedFrames + evicted
             /\ started' = started + new
             /\ UNCHANGED <<lastDelivered, delivered>>
          \/ /\ lastDelivered # NothingYet => Newer(f, lastDelivered)
             /\ \A b \in 1 .. BLOCKS : Whole(with, b)
             /\ pending' = Overtaken(held, f)
             /\ have' = keep(Overtaken(held, f))
             /\ droppedFrames' = droppedFrames + evicted + Cardinality((held \ {f}) \ Overtaken(held, f))
             /\ started' = started + new
             /\ lastDelivered' = f
             /\ delivered' = Append(delivered, f)
       /\ UNCHANGED <<framesSent, resends, nacks, detectorVars>>

\* A frame that is no longer worth waiting for.
Past(s) == s.age >= DEADLINE

\* Reassembler::abandon counts each frame.
Abandoned(late) == Cardinality(late)

\* A frame worth a NACK now.
Askable(s) ==
    /\ s.age >= HOLD
    /\ s.nacks < MAX_NACKS
    /\ s.nacks = 0 \/ s.since >= NACK_GAP
    /\ s.age + link.rtt <= DEADLINE

\* One more than `n`, up to `top`.
Older(n, top) == IF n < top THEN n + 1 ELSE top

\* LossDetector::poll.
Poll ==
    LET looked == [f \in pending |-> IF f \in DOMAIN seen THEN seen[f]
                                  ELSE [age |-> 0, nacks |-> 0, since |-> 0]]
        late == {f \in pending : Past(looked[f])}
        ask == {f \in pending \ late : Askable(looked[f])}
        due == late # {} /\ sinceRefresh = REFRESH_GAP
    IN /\ pending # {} \/ seen # <<>>
       /\ pending' = pending \ late
       /\ have' = [f \in Numbers |-> IF f \in late THEN {} ELSE have[f]]
       /\ droppedFrames' = droppedFrames + Abandoned(late)
       /\ seen' = [f \in pending \ late |->
                     IF f \in ask THEN [looked[f] EXCEPT !.nacks = @ + 1, !.since = 0] ELSE looked[f]]
       /\ nacks' = nacks \cup {[frame |-> f, fragments |-> Missing(f)] : f \in ask}
       /\ sinceRefresh' = IF due THEN 0 ELSE sinceRefresh
       /\ UNCHANGED <<senderVars, lastDelivered, delivered, started>>

\* Time passes; last_nack_us is read only after a first NACK.
Tick ==
    /\ seen' = [f \in DOMAIN seen |->
                  [seen[f] EXCEPT !.age = Older(@, DEADLINE),
                                  !.since = IF seen[f].nacks = 0 THEN 0 ELSE Older(@, NACK_GAP)]]
    /\ sinceRefresh' = Older(sinceRefresh, REFRESH_GAP)
    /\ <<seen', sinceRefresh'>> # <<seen, sinceRefresh>>
    /\ UNCHANGED <<senderVars, nacks, frameVars>>

RecoveryNext ==
    /\ UNCHANGED link
    /\ \/ Send \/ Poll \/ Tick
       \/ \E n \in nacks : Respond(n)
       \/ \E p \in packets : Push(p)

RecoverySpec == RecoveryInit /\ [][RecoveryNext]_recoveryVars

-----------------------------------------------------------------------------
Index(f) == (f - FIRST) % WRAP

\* Frames are handed on in the order they were sent, each once, over the wrap
\* of the frame number too.
DeliveredInOrder ==
    \A i, j \in DOMAIN delivered : i < j => Index(delivered[i]) < Index(delivered[j])

\* Nothing the stream has moved past is held: an unfinished frame is later than
\* the last one delivered and has not all it needs, and of others nothing is kept.
NothingStaleHeld ==
    /\ \A f \in pending :
         /\ lastDelivered # NothingYet => Index(f) > Index(lastDelivered)
         /\ Missing(f) # {}
    /\ \A f \in Numbers \ pending : have[f] = {}

\* "Frames given up on: evicted unfinished, or overtaken" (Reassembler::dropped):
\* every frame that started was delivered, is waiting or is counted.
DropsAreCounted == started = droppedFrames + Len(delivered) + Cardinality(pending)

\* Reassembler (fragment.rs) across the wrap of the frame number: frames come out
\* in order, what they overtook is let go, and each one begun is accounted for.
FramesAccountedFor == RecoveryTypes /\ DeliveredInOrder /\ NothingStaleHeld /\ DropsAreCounted
=============================================================================
