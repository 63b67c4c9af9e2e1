------------------------------- MODULE Pairing -------------------------------
(***************************************************************************)
(* PIN pairing and the admission of clients by a host (host-core/src/lib.rs *)
(* Pairing, HostControl, Serving::open; transport/src/signaling.rs accept). *)
(*                                                                          *)
(* The PIN sits in a slot behind a lock; the failure counter beside it is a *)
(* separate atomic that is reset AFTER the lock is let go.  Every           *)
(* connection copies the PIN and the trust list when it arrives and proves  *)
(* itself against those copies later, while other connections, the host's   *)
(* owner and the lockout timers change the originals.                       *)
(***************************************************************************)
EXTENDS Naturals, FiniteSets

CONSTANTS
    Clients,                \* client devices, each with one connection at a time
    PairedEarlier,          \* those already in the trust list at start
    MAX_PAIRING_FAILURES,   \* failures before the PIN is withdrawn
    MaxPins,                \* bound: PINs generated in one behaviour
    MaxCalls                \* bound: calls between the slot and the counter

ASSUME PairingAssumption ==
    /\ PairedEarlier \subseteq Clients
    /\ MAX_PAIRING_FAILURES \in Nat \ {0}
    /\ MaxPins \in Nat
    /\ MaxCalls \in Nat

\* PINs are numbered in the order they are generated; generate_pin never
\* repeats one here, as six random digits do only by accident.
NoPin == 0
Pins == 1 .. MaxPins

VARIABLES
    pin,        \* Pairing.pin: the PIN on screen, or NoPin
    failures,   \* Pairing.failures
    issued,     \* how many PINs were generated so far
    storing,    \* PINs generated and shown, not yet stored in the slot
    resets,     \* calls that changed the slot and have yet to zero `failures`
    timers,     \* lockout timers sleeping
    trust,      \* the trusted-client list
    conn,       \* the connection of each client, as its task sees it
    withdrawn,  \* history: PINs that left the slot
    reissued,   \* history: PINs generated by a lockout timer
    owner       \* history: whether pairing was last opened or closed on purpose

vars == <<pin, failures, issued, storing, resets, timers, trust, conn,
          withdrawn, reissued, owner>>
slot == <<pin, failures, issued, storing, resets, timers, withdrawn, reissued, owner>>

\* Where a connection's task stands.  "opened": Serving::open took its
\* copies; "proving": the hellos are exchanged; "proved": accept returned a
\* paired client; "closing": paired() emptied the slot; "pinning": paired()
\* returned; "failing": accept returned AuthenticationFailed; "in": serving.
Places == {"none", "opened", "proving", "proved", "closing", "pinning", "failing", "in"}
Modes == {"Pair", "Resume"}
Idle == [at |-> "none", mode |-> "Resume", pin |-> NoPin, known |-> FALSE, lan |-> TRUE]

TypeOK ==
    /\ pin \in Pins \cup {NoPin}
    /\ failures \in Nat
    /\ issued \in 0 .. MaxPins
    /\ storing \subseteq Pins
    /\ resets \in Nat
    /\ timers \in Nat
    /\ trust \subseteq Clients
    /\ conn \in [Clients -> [at : Places, mode : Modes,
                             pin : Pins \cup {NoPin}, known : BOOLEAN, lan : BOOLEAN]]
    /\ withdrawn \subseteq Pins
    /\ reissued \subseteq Pins
    /\ owner \in {"open", "closed"}

\* Pairing::new: with pairing open the first PIN is in the slot at once.
Init ==
    /\ \E open \in BOOLEAN :
         /\ pin = IF open /\ MaxPins > 0 THEN 1 ELSE NoPin
         /\ issued = pin
         /\ owner = IF open THEN "open" ELSE "closed"
    /\ failures = 0
    /\ storing = {}
    /\ resets = 0
    /\ timers = 0
    /\ trust = PairedEarlier
    /\ conn = [c \in Clients |-> Idle]
    /\ withdrawn = {}
    /\ reissued = {}

\* The slot takes `new`; the PIN it held has left for good.
SetPin(new) ==
    /\ pin' = new
    /\ withdrawn' = withdrawn \cup ({pin} \ {NoPin})

-----------------------------------------------------------------------------
\* Issuing a PIN: generate and show it, store it under the lock, then zero
\* the counter.  Pairing::reopen and the timer's task do the same.

\* Bug to catch: the PIN generated last is shown once more.
GenerateOld ==
    /\ issued < MaxPins
    /\ issued' = issued + 1
    /\ storing' = storing \cup (Pins \cap {issued})

Generate ==
    /\ issued < MaxPins
    /\ issued' = issued + 1
    /\ storing' = storing \cup {issued'}

\* HostControl::open_pairing -> Pairing::reopen, first statement.
OpenPairing ==
    /\ Generate
    /\ UNCHANGED <<pin, failures, resets, timers, trust, conn, withdrawn, reissued, owner>>

\* The task spawned by Pairing::failed wakes after PAIRING_LOCKOUT.
LockoutOver ==
    /\ timers > 0
    /\ Generate
    /\ timers' = timers - 1
    /\ reissued' = reissued \cup {issued'}
    /\ UNCHANGED <<pin, failures, resets, trust, conn, withdrawn, owner>>

StorePin(p) ==
    /\ p \in storing
    /\ SetPin(p)
    /\ storing' = storing \ {p}
    /\ resets' = resets + 1
    /\ owner' = IF p \in reissued THEN owner ELSE "open"
    /\ UNCHANGED <<failures, issued, timers, trust, conn, reissued>>

ResetFailures ==
    /\ resets > 0
    /\ failures' = 0
    /\ resets' = resets - 1
    /\ UNCHANGED <<pin, issued, storing, timers, trust, conn, withdrawn, reissued, owner>>

\* HostControl::close_pairing -> Pairing::paired, up to the counter.
ClosePairing ==
    /\ resets < MaxCalls
    /\ SetPin(NoPin)
    /\ resets' = resets + 1
    /\ owner' = "closed"
    /\ UNCHANGED <<failures, issued, storing, timers, trust, conn, reissued>>

-----------------------------------------------------------------------------
\* One connection.

\* Serving::open: the trust list and the PIN as they are now.  A connection
\* from away from the LAN (serve_over, serve_remote) is given no PIN.
Open(c, lan) ==
    /\ conn[c].at = "none"
    /\ conn' = [conn EXCEPT ![c] =
                  [at |-> "opened", mode |-> "Resume", known |-> c \in trust,
                   pin |-> IF lan THEN pin ELSE NoPin, lan |-> lan]]
    /\ UNCHANGED <<slot, trust>>

\* accept_inner: the client's hello names a mode; a mode the copies do not
\* allow is refused and counts as nothing.
Hello(c, mode) ==
    /\ conn[c].at = "opened"
    /\ IF mode = "Pair" THEN conn[c].pin # NoPin ELSE conn[c].known
    /\ conn' = [conn EXCEPT ![c].at = "proving", ![c].mode = mode]
    /\ UNCHANGED <<slot, trust>>

\* Refused at the hello, or gone, or timed out: no failure is counted.
GiveUp(c) ==
    /\ conn[c].at \in {"opened", "proving"}
    /\ conn' = [conn EXCEPT ![c] = Idle]
    /\ UNCHANGED <<slot, trust>>

\* receive_description verifies: while pairing, the tag made with the PIN the
\* user typed is checked with the copy taken when the connection opened, so
\* a PIN that has left the slot since still proves.
Prove(c) ==
    /\ conn[c].at = "proving"
    /\ conn' = [conn EXCEPT ![c].at = IF conn[c].mode = "Pair" THEN "proved" ELSE "in"]
    /\ UNCHANGED <<slot, trust>>

\* AuthenticationFailed: another PIN was typed, or the signature is bad.
\* Only serve_with, the LAN's listener, goes on to count it.
FailProof(c) ==
    /\ conn[c].at = "proving"
    /\ conn' = [conn EXCEPT ![c] = IF @.lan THEN [@ EXCEPT !.at = "failing"] ELSE Idle]
    /\ UNCHANGED <<slot, trust>>

\* Bug to catch: one attempt more than the limit.
CountFailureLate ==
    /\ pin # NoPin
    /\ failures' = failures + 1
    /\ IF failures > MAX_PAIRING_FAILURES
         THEN SetPin(NoPin) /\ timers' = timers + 1
         ELSE UNCHANGED <<pin, timers, withdrawn>>

\* Bug to catch: no task waits for the end of the lockout.
CountFailureForever ==
    /\ pin # NoPin
    /\ failures' = failures + 1
    /\ IF failures + 1 >= MAX_PAIRING_FAILURES THEN SetPin(NoPin) ELSE UNCHANGED <<pin, withdrawn>>
    /\ UNCHANGED timers

\* Pairing::failed, under the slot's lock: nothing to count without a PIN;
\* the failure that reaches the limit withdraws it and starts the timer.
CountFailure ==
    \/ /\ pin = NoPin
       /\ UNCHANGED <<pin, failures, timers, withdrawn>>
    \/ /\ pin # NoPin
       /\ failures + 1 < MAX_PAIRING_FAILURES
       /\ failures' = failures + 1
       /\ UNCHANGED <<pin, timers, withdrawn>>
    \/ /\ pin # NoPin
       /\ failures + 1 >= MAX_PAIRING_FAILURES
       /\ failures' = failures + 1
       /\ SetPin(NoPin)
       /\ timers' = timers + 1

\* serve_with counts the failure and the connection is over.
Failed(c) ==
    /\ conn[c].at = "failing"
    /\ conn' = [conn EXCEPT ![c] = Idle]
    /\ CountFailure
    /\ UNCHANGED <<issued, storing, resets, trust, reissued, owner>>

\* Serving::open after accept: Pairing::paired, then pin_client.
Paired(c) ==
    /\ conn[c].at = "proved"
    /\ SetPin(NoPin)
    /\ owner' = "closed"
    /\ conn' = [conn EXCEPT ![c].at = "closing"]
    /\ UNCHANGED <<failures, issued, storing, resets, timers, trust, reissued>>

PairedReset(c) ==
    /\ conn[c].at = "closing"
    /\ failures' = 0
    /\ conn' = [conn EXCEPT ![c].at = "pinning"]
    /\ UNCHANGED <<pin, issued, storing, resets, timers, trust, withdrawn, reissued, owner>>

PinClient(c) ==
    /\ conn[c].at = "pinning"
    /\ trust' = trust \cup {c}
    /\ conn' = [conn EXCEPT ![c].at = "in"]
    /\ UNCHANGED slot

\* serve_session returned: the session ended.
Leave(c) ==
    /\ conn[c].at = "in"
    /\ conn' = [conn EXCEPT ![c] = Idle]
    /\ UNCHANGED <<slot, trust>>

\* HostControl::forget.
Forget(c) ==
    /\ c \in trust
    /\ trust' = trust \ {c}
    /\ UNCHANGED <<slot, conn>>

-----------------------------------------------------------------------------
Next ==
    \/ OpenPairing \/ LockoutOver \/ ResetFailures \/ ClosePairing
    \/ \E p \in Pins : StorePin(p)
    \/ \E c \in Clients :
         \/ GiveUp(c) \/ Prove(c) \/ FailProof(c) \/ Failed(c)
         \/ Paired(c) \/ PairedReset(c) \/ PinClient(c) \/ Leave(c) \/ Forget(c)
         \/ \E mode \in Modes : Hello(c, mode)
         \/ \E lan \in BOOLEAN : Open(c, lan)

\* Tasks that were started run on (tokio schedules every ready task); what
\* clients and the owner do is up to them.
Fairness ==
    /\ WF_vars(LockoutOver)
    /\ WF_vars(ResetFailures)
    /\ \A p \in Pins : WF_vars(StorePin(p))

Spec == Init /\ [][Next]_vars

-----------------------------------------------------------------------------
\* A PIN that left the slot (withdrawn after failures, used, closed or
\* replaced) is never shown again, whatever order racing reopen calls and
\* lockout timers store theirs in.
WithdrawnPinsStayGone ==
    /\ pin \notin withdrawn
    /\ storing \cap withdrawn = {}

\* Pairing::failed leaves no PIN on screen once the limit is reached: the
\* only PIN beside a full counter is one whose counter is about to be zeroed.
FullCounterMeansNoPin ==
    pin # NoPin /\ failures >= MAX_PAIRING_FAILURES => resets > 0

\* "a new PIN follows": while pairing was not closed on purpose, a slot that
\* repeated failures emptied is filled again.
PauseEnds == Fairness =>
    (owner = "open" /\ pin = NoPin /\ issued < MaxPins)
        ~> (pin # NoPin \/ owner = "closed")

\* "Closes pairing: only clients paired earlier can connect"
\* (HostControl::close_pairing): once it was closed, by the owner or by a
\* pairing, there is no PIN until the owner opens pairing again.
ClosedMeansNoPin ==
    owner = "closed" => pin = NoPin
=============================================================================
