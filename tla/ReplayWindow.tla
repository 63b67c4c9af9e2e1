---------------------------- MODULE ReplayWindow ----------------------------
(***************************************************************************)
(* What the receiver's replay window promises (bud/src/replay.rs and the    *)
(* Opener of bud/src/packet.rs), with the bitmap as the set of distances    *)
(* back from the highest number at which a packet was seen.  Packets come   *)
(* in any order and any number of times.  ReplayWords has the bitmap as the *)
(* code keeps it.                                                           *)
(***************************************************************************)
EXTENDS Integers, FiniteSets

CONSTANTS
    WINDOW,     \* how many numbers back from the highest are remembered
    MaxPacket   \* u64::MAX: the number a Sealer never uses

ASSUME WindowAssumption ==
    /\ WINDOW \in Nat \ {0}
    /\ MaxPacket \in Nat

Packets == 0 .. MaxPacket - 1
None == -1

VARIABLES
    highest,    \* the highest packet number accepted, or None
    bits,       \* the distances k for which highest - k was seen
    accepted,   \* how many packets were accepted
    opened      \* history: the numbers of the packets accepted

windowVars == <<highest, bits, accepted, opened>>

WindowTypeOK ==
    /\ highest \in Packets \cup {None}
    /\ bits \subseteq 0 .. WINDOW - 1
    /\ accepted \in Nat
    /\ opened \subseteq Packets

WindowInit ==
    /\ highest = None
    /\ bits = {}
    /\ accepted = 0
    /\ opened = {}

\* Bug to catch: a number too old to be remembered counts as new.
CheckForgets(p) ==
    \/ highest = None
    \/ p > highest
    \/ p <= highest /\ highest - p \notin bits

\* ReplayWindow::check.
Check(p) ==
    \/ highest = None
    \/ p > highest
    \/ p <= highest /\ highest - p < WINDOW /\ highest - p \notin bits

\* ReplayWindow::shift: what moves past the window is forgotten.
Shift(by) == {k \in 0 .. WINDOW - 1 : k - by \in bits}

\* ReplayWindow::accept.
Accept(p) ==
    /\ accepted' = accepted + 1
    /\ opened' = opened \cup {p}
    /\ \/ /\ highest = None
          /\ highest' = p
          /\ bits' = bits \cup {0}
       \/ /\ highest # None /\ p > highest
          /\ highest' = p
          /\ bits' = Shift(p - highest) \cup {0}
       \/ /\ highest # None /\ p <= highest
          /\ bits' = IF highest - p < WINDOW THEN bits \cup {highest - p} ELSE bits
          /\ UNCHANGED highest

\* Opener::open, for a datagram that authenticates; nothing else moves the
\* window.
Open(p) ==
    /\ Check(p)
    /\ Accept(p)

WindowNext == \E p \in Packets : Open(p)

WindowSpec == WindowInit /\ [][WindowNext]_windowVars

-----------------------------------------------------------------------------
\* The window remembers exactly the packets accepted that it can hold, after
\* any order of arrivals and any jump ahead.
WindowIsExact ==
    /\ highest = None => opened = {} /\ bits = {}
    /\ highest # None =>
         /\ highest \in opened
         /\ \A p \in opened : p <= highest
         /\ \A k \in 0 .. WINDOW - 1 : k \in bits <=> highest - k \in opened

\* "A packet number is accepted once" (replay.rs): no packet is counted, and
\* handed on, a second time.
AcceptedOnce == accepted = Cardinality(opened)
=============================================================================
