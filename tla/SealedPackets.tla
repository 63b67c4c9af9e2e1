---------------------------- MODULE SealedPackets ----------------------------
(***************************************************************************)
(* One direction of a bud link: the Sealer numbers datagrams, the network    *)
(* loses, reorders and repeats them, the Opener accepts each once through    *)
(* its replay window (bud/src/packet.rs), and the LossMeter turns the        *)
(* Opener's counts into the reports that steer parity                        *)
(* (bud/src/recovery.rs).                                                    *)
(***************************************************************************)
EXTENDS ReplayWindow

VARIABLES
    next,           \* Sealer.next
    net,            \* datagrams in the network; one may arrive many times
    lastHighest,    \* LossMeter.last_highest, or None
    lastAccepted,   \* LossMeter.last_accepted
    sent, lost      \* history: sums over the reports made

meterVars == <<lastHighest, lastAccepted, sent, lost>>
vars == <<windowVars, next, net, meterVars>>

TypeOK ==
    /\ WindowTypeOK
    /\ next \in 0 .. MaxPacket
    /\ net \subseteq Packets
    /\ lastHighest \in Packets \cup {None}
    /\ lastAccepted \in Nat
    /\ sent \in Nat
    /\ lost \in Nat

Init ==
    /\ WindowInit
    /\ next = 0
    /\ net = {}
    /\ lastHighest = None
    /\ lastAccepted = 0
    /\ sent = 0
    /\ lost = 0

\* Sealer::seal: refuses (Exhausted) rather than use MaxPacket.
Seal ==
    /\ next # MaxPacket
    /\ net' = net \cup {next}
    /\ next' = next + 1
    /\ UNCHANGED <<windowVars, meterVars>>

\* The network loses a datagram, or every copy of it has arrived.
Lose(p) ==
    /\ p \in net
    /\ net' = net \ {p}
    /\ UNCHANGED <<windowVars, next, meterVars>>

Arrive(p) ==
    /\ p \in net
    /\ Open(p)
    /\ UNCHANGED <<next, net, meterVars>>

\* Saturating subtraction.
Less(a, b) == IF a >= b THEN a - b ELSE 0

\* Bug to catch: the first period forgets packet 0.
SampleFromZero ==
    /\ highest # None
    /\ LET n == IF lastHighest = None THEN highest ELSE Less(highest, lastHighest) IN
         /\ sent' = sent + n
         /\ lost' = lost + Less(n, Less(accepted, lastAccepted))
    /\ lastHighest' = highest
    /\ lastAccepted' = accepted
    /\ UNCHANGED <<windowVars, next, net>>

\* LossMeter::sample; a period in which nothing new was numbered makes no
\* report, but its late arrivals are counted as seen.
Sample ==
    /\ highest # None
    /\ LET n == IF lastHighest = None THEN highest + 1 ELSE Less(highest, lastHighest) IN
         /\ sent' = sent + n
         /\ lost' = lost + Less(n, Less(accepted, lastAccepted))
    /\ lastHighest' = highest
    /\ lastAccepted' = accepted
    /\ UNCHANGED <<windowVars, next, net>>

Next ==
    \/ Seal \/ Sample
    \/ \E p \in Packets : Lose(p) \/ Arrive(p)

Spec == Init /\ [][Next]_vars

-----------------------------------------------------------------------------
\* The reports cover every packet number up to the last sample once, and never
\* understate the loss: late packets may make them run high ("so the figure
\* runs a little high on a network that reorders"), never low.
LossNotUnderstated ==
    /\ sent = lastHighest + 1
    /\ lost + lastAccepted >= sent

\* The Sealer never gives a number out twice under one key: what is in the
\* network or was accepted has a number below the next one.
NumbersAreFresh ==
    \A p \in net \cup opened : p < next
=============================================================================
