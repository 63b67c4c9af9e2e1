----------------------------- MODULE HostProofs -----------------------------
(***************************************************************************)
(* Who is let in, and the selector.  Pairing, for every set of clients,     *)
(* failure limit and bound; the automatic selection of a window's carrier,  *)
(* for every interval, backoff and estimate of motion; accounts, for every  *)
(* set of devices, tokens, sources and rules, and the flows that sign in to *)
(* them, for every set of machines that may answer; and the pairing of     *)
(* GameStream devices (GameHost), for every set of devices, ids and PINs.   *)
(***************************************************************************)
EXTENDS Pairing, Selector, Accounts, GameHost, SequenceTheorems, FiniteSetTheorems,
        WellFoundedInduction, TLAPS

-----------------------------------------------------------------------------
(* Pairing.                                                                *)

\* The strengthening that makes WithdrawnPinsStayGone inductive: PINs leave
\* the generator once.  What is in the slot, on its way there or withdrawn
\* was generated, and the three never overlap.
PinsMoveOn ==
    /\ pin \notin withdrawn
    /\ storing \cap withdrawn = {}
    /\ pin \notin storing
    /\ pin <= issued
    /\ \A p \in storing \cup withdrawn : p <= issued

IInv == TypeOK /\ PinsMoveOn /\ FullCounterMeansNoPin

\* The initial states satisfy the inductive invariant (Pairing::new).
LEMMA InitIInv == Init => IInv
<1> SUFFICES ASSUME Init PROVE IInv
  OBVIOUS
<1>1. pin \in Pins \cup {NoPin} /\ issued = pin /\ owner \in {"open", "closed"}
  BY PairingAssumption DEF Init, Pins, NoPin
<1>2. conn \in [Clients -> [at : Places, mode : Modes, pin : Pins \cup {NoPin},
                            known : BOOLEAN, lan : BOOLEAN]]
  BY DEF Init, Idle, Places, Modes
<1>3. TypeOK
  BY <1>1, <1>2, PairingAssumption DEF Init, TypeOK, Pins, NoPin
<1> QED
  BY <1>1, <1>3, PairingAssumption DEF Init, IInv, PinsMoveOn, FullCounterMeansNoPin, Pins, NoPin

\* What Pairing::failed does: it leaves the slot alone and a counter below
\* the limit (or no PIN), or it withdraws the PIN.
LEMMA CountFailureOutcomes ==
    ASSUME TypeOK, CountFailure
    PROVE  /\ failures' \in Nat /\ timers' \in Nat
           /\ \/ UNCHANGED <<pin, withdrawn>> /\ (pin = NoPin \/ failures' < MAX_PAIRING_FAILURES)
              \/ pin # NoPin /\ pin' = NoPin /\ withdrawn' = withdrawn \cup {pin}
           /\ pin' \in Pins \cup {NoPin}
           /\ withdrawn' \subseteq Pins
<1>1. MAX_PAIRING_FAILURES \in Nat /\ failures \in Nat /\ timers \in Nat
  BY PairingAssumption DEF TypeOK
<1>2. pin \in Pins \cup {NoPin} /\ withdrawn \subseteq Pins
  BY DEF TypeOK
<1>3. CASE pin = NoPin
  BY <1>1, <1>2, <1>3 DEF CountFailure
<1>4. CASE pin # NoPin /\ failures + 1 < MAX_PAIRING_FAILURES
  BY <1>1, <1>2, <1>4 DEF CountFailure
<1>5. CASE pin # NoPin /\ ~(failures + 1 < MAX_PAIRING_FAILURES)
  BY <1>1, <1>2, <1>5 DEF CountFailure, SetPin
<1> QED
  BY <1>3, <1>4, <1>5

\* Every step of a connection or of the owner preserves types.
LEMMA NextType == TypeOK /\ [Next]_vars => TypeOK'
<1> SUFFICES ASSUME TypeOK, [Next]_vars PROVE TypeOK'
  OBVIOUS
<1> USE PairingAssumption DEF TypeOK, Pins, NoPin
<1>1. CASE OpenPairing
  BY <1>1 DEF OpenPairing, Generate
<1>2. CASE LockoutOver
  BY <1>2 DEF LockoutOver, Generate
<1>3. CASE ResetFailures
  BY <1>3 DEF ResetFailures
<1>4. CASE ClosePairing
  BY <1>4 DEF ClosePairing, SetPin
<1>5. ASSUME NEW p \in Pins, StorePin(p) PROVE TypeOK'
  BY <1>5 DEF StorePin, SetPin
<1>6. ASSUME NEW c \in Clients, GiveUp(c) PROVE TypeOK'
  BY <1>6 DEF GiveUp, slot, Idle, Places, Modes
<1>7. ASSUME NEW c \in Clients, Prove(c) PROVE TypeOK'
  BY <1>7 DEF Prove, slot, Places
<1>8. ASSUME NEW c \in Clients, FailProof(c) PROVE TypeOK'
  BY <1>8 DEF FailProof, slot, Idle, Places, Modes
<1>9. ASSUME NEW c \in Clients, Failed(c) PROVE TypeOK'
  <2>1. conn' \in [Clients -> [at : Places, mode : Modes, pin : Pins \cup {NoPin},
                                known : BOOLEAN, lan : BOOLEAN]]
    BY <1>9 DEF Failed, Idle, Places, Modes
  <2>2. CountFailure
    BY <1>9 DEF Failed
  <2>3. /\ pin' \in Pins \cup {NoPin}
        /\ failures' \in Nat
        /\ timers' \in Nat
        /\ withdrawn' \subseteq Pins
    BY <2>2, CountFailureOutcomes
  <2> QED
    BY <1>9, <2>1, <2>3 DEF Failed
<1>10. ASSUME NEW c \in Clients, Paired(c) PROVE TypeOK'
  BY <1>10 DEF Paired, SetPin, Places
<1>11. ASSUME NEW c \in Clients, PairedReset(c) PROVE TypeOK'
  BY <1>11 DEF PairedReset, Places
<1>12. ASSUME NEW c \in Clients, PinClient(c) PROVE TypeOK'
  BY <1>12 DEF PinClient, slot, Places
<1>13. ASSUME NEW c \in Clients, Leave(c) PROVE TypeOK'
  BY <1>13 DEF Leave, slot, Idle, Places, Modes
<1>14. ASSUME NEW c \in Clients, Forget(c) PROVE TypeOK'
  BY <1>14 DEF Forget, slot
<1>15. ASSUME NEW c \in Clients, NEW mode \in Modes, Hello(c, mode) PROVE TypeOK'
  <2>1. conn' = [conn EXCEPT ![c] = [conn[c] EXCEPT !.at = "proving", !.mode = mode]]
    BY <1>15 DEF Hello
  <2> QED
    BY <1>15, <2>1 DEF Hello, slot, Places
<1>16. ASSUME NEW c \in Clients, NEW lan \in BOOLEAN, Open(c, lan) PROVE TypeOK'
  BY <1>16 DEF Open, slot, Places, Modes
<1>17. CASE UNCHANGED vars
  BY <1>17 DEF vars
<1> QED
  BY <1>1, <1>2, <1>3, <1>4, <1>5, <1>6, <1>7, <1>8, <1>9, <1>10, <1>11, <1>12,
     <1>13, <1>14, <1>15, <1>16, <1>17 DEF Next

\* No step brings a withdrawn PIN back or leaves one on screen beside a full
\* counter.
LEMMA NextPins ==
    IInv /\ [Next]_vars => PinsMoveOn' /\ FullCounterMeansNoPin'
<1> SUFFICES ASSUME IInv, [Next]_vars PROVE PinsMoveOn' /\ FullCounterMeansNoPin'
  OBVIOUS
<1> USE PairingAssumption DEF IInv, TypeOK, PinsMoveOn, FullCounterMeansNoPin, Pins, NoPin
<1>1. CASE OpenPairing
  BY <1>1 DEF OpenPairing, Generate
<1>2. CASE LockoutOver
  BY <1>2 DEF LockoutOver, Generate
<1>3. CASE ResetFailures
  BY <1>3 DEF ResetFailures
<1>4. CASE ClosePairing
  BY <1>4 DEF ClosePairing, SetPin
<1>5. ASSUME NEW p \in Pins, StorePin(p) PROVE PinsMoveOn' /\ FullCounterMeansNoPin'
  BY <1>5 DEF StorePin, SetPin
<1>6. ASSUME NEW c \in Clients, Failed(c) PROVE PinsMoveOn' /\ FullCounterMeansNoPin'
  <2>1. CountFailure /\ UNCHANGED <<issued, storing, resets>>
    BY <1>6 DEF Failed
  <2>2. CASE UNCHANGED <<pin, withdrawn>>
    BY <2>1, <2>2, CountFailureOutcomes
  <2>3. CASE pin # NoPin /\ pin' = NoPin /\ withdrawn' = withdrawn \cup {pin}
    BY <2>1, <2>3
  <2> QED
    BY <2>1, <2>2, <2>3, CountFailureOutcomes
<1>7. ASSUME NEW c \in Clients, Paired(c) PROVE PinsMoveOn' /\ FullCounterMeansNoPin'
  BY <1>7 DEF Paired, SetPin
<1>8. ASSUME NEW c \in Clients, PairedReset(c) PROVE PinsMoveOn' /\ FullCounterMeansNoPin'
  BY <1>8 DEF PairedReset
<1>9. ASSUME UNCHANGED slot PROVE PinsMoveOn' /\ FullCounterMeansNoPin'
  BY <1>9 DEF slot
<1>10. ASSUME NEW c \in Clients,
              \/ GiveUp(c) \/ Prove(c) \/ FailProof(c) \/ PinClient(c)
              \/ Leave(c) \/ Forget(c)
              \/ \E mode \in Modes : Hello(c, mode)
              \/ \E lan \in BOOLEAN : Open(c, lan)
       PROVE  UNCHANGED slot
  BY <1>10 DEF GiveUp, Prove, FailProof, PinClient, Leave, Forget, Hello, Open
<1>11. CASE UNCHANGED vars
  BY <1>11 DEF vars
<1> QED
  BY <1>1, <1>2, <1>3, <1>4, <1>5, <1>6, <1>7, <1>8, <1>9, <1>10, <1>11 DEF Next

\* The strengthened invariant holds in every reachable state.
LEMMA PairingInductive == Spec => []IInv
<1>1. IInv /\ [Next]_vars => IInv'
  BY NextType, NextPins DEF IInv
<1> QED
  BY InitIInv, <1>1, PTL DEF Spec

\* The state of pairing and of every connection keeps its type.
THEOREM PairingTypes == Spec => []TypeOK
BY PairingInductive, PTL DEF IInv

\* A withdrawn PIN never comes back, however reopen calls, lockout timers,
\* pairings and failures interleave.
THEOREM WithdrawnPins == Spec => []WithdrawnPinsStayGone
<1>1. IInv => WithdrawnPinsStayGone
  BY DEF IInv, PinsMoveOn, WithdrawnPinsStayGone
<1> QED
  BY PairingInductive, <1>1, PTL

\* No PIN stays on screen once the failure limit is reached.
THEOREM FullCounter == Spec => []FullCounterMeansNoPin
<1>1. IInv => FullCounterMeansNoPin
  BY DEF IInv
<1> QED
  BY PairingInductive, <1>1, PTL
-----------------------------------------------------------------------------
(* Automatic selection.                                                    *)

Events == [what : {"refused", "stopped"}, generation : 0 .. MaxGen]

\* A carrier that is started has a generation; an event that a switch was
\* refused is about one that was started.
StartedCarriers ==
    /\ next # NoCarrier => next.generation # 0 /\ next.backend \in Kinds
    /\ pending # NoCarrier => pending.generation # 0 /\ pending.backend \in Kinds
    /\ \A i \in DOMAIN events : events[i].what = "refused" => events[i].generation # 0

\* What a window nobody has looked at knows: the age of its last switch begins
\* when it is looked at first.
UnknownIsFresh == ~ known => better = NoKind /\ sinceSwitch = 0

\* A choice stands for a moment in which other threads of the app may act; what
\* made it ripe stays so until the switch begins.
ChoiceStaysRipe ==
    choice # NoKind => known /\ sinceSwitch >= MIN_INTERVAL /\ left[choice] = 0

\* The wait after a failure is at least BACKOFF, and runs out no sooner than that.
BackoffIsKept ==
    \A k \in Kinds :
        /\ wait[k] = 0 \/ wait[k] >= BACKOFF
        /\ left[k] + sinceFailed[k] >= BACKOFF

SelectorIInv ==
    /\ SelectorTypes /\ StartedCarriers /\ UnknownIsFresh
    /\ ChoiceStaysRipe /\ BackoffIsKept /\ PendingIsLive

-----------------------------------------------------------------------------
(* The carriers and the events about them.                                   *)

\* An event that is added leaves the ones before it where they are.
LEMMA AddedEvent ==
    ASSUME events \in Seq(Events), NEW e \in Events, events' = Append(events, e)
    PROVE  /\ events' \in Seq(Events)
           /\ \A i \in DOMAIN events : i \in DOMAIN events' /\ events'[i] = events[i]
           /\ \E i \in DOMAIN events' : events'[i] = e
           /\ \A i \in DOMAIN events' : i \in DOMAIN events \/ events'[i] = e
<1>1. /\ events' \in Seq(Events) /\ Len(events') = Len(events) + 1
      /\ \A i \in 1 .. Len(events) : events'[i] = events[i]
      /\ events'[Len(events) + 1] = e
  BY AppendProperties
<1>2. DOMAIN events = 1 .. Len(events) /\ DOMAIN events' = 1 .. Len(events') /\ Len(events) \in Nat
  BY <1>1
<1> QED
  BY <1>1, <1>2

\* The first event that is taken: the others move up.
LEMMA TakenEvent ==
    ASSUME events \in Seq(Events), events # <<>>, events' = Tail(events)
    PROVE  /\ events' \in Seq(Events)
           /\ Head(events) \in Events /\ Head(events) = events[1] /\ 1 \in DOMAIN events
           /\ \A i \in DOMAIN events' : i + 1 \in DOMAIN events /\ events'[i] = events[i + 1]
           /\ \A i \in DOMAIN events : i # 1 => i - 1 \in DOMAIN events' /\ events'[i - 1] = events[i]
<1>1. /\ Tail(events) \in Seq(Events) /\ Len(Tail(events)) = Len(events) - 1
      /\ \A i \in 1 .. Len(Tail(events)) : Tail(events)[i] = events[i + 1]
      /\ Head(events) \in Events /\ Head(events) = events[1] /\ Len(events) \in Nat \ {0}
  BY HeadTailProperties, EmptySeq
<1>2. DOMAIN events = 1 .. Len(events) /\ DOMAIN events' = 1 .. Len(events')
  BY <1>1
<1>3. ASSUME NEW i \in DOMAIN events, i # 1
      PROVE  i - 1 \in DOMAIN events' /\ events'[i - 1] = events[i]
  <2>1. i \in Nat /\ i - 1 \in 1 .. Len(Tail(events)) /\ (i - 1) + 1 = i
    BY <1>1, <1>2, <1>3
  <2> QED
    BY <1>1, <1>2, <2>1
<1>4. ASSUME NEW i \in DOMAIN events'
      PROVE  i + 1 \in DOMAIN events /\ events'[i] = events[i + 1]
  BY <1>1, <1>2
<1>5. 1 \in DOMAIN events
  BY <1>1, <1>2
<1> QED
  BY <1>1, <1>3, <1>4, <1>5

\* A step that leaves events, choice and what the selector knows alone, and
\* takes no switch away that it waits for.
LEMMA CarriersKeep ==
    ASSUME SelectorIInv, UNCHANGED <<windowVars, choice, events, sinceFailed>>,
           gen' \in 0 .. MaxGen, shown' \in Carriers, next' \in Carriers,
           next' # NoCarrier => next'.generation # 0 /\ next'.backend \in Kinds,
           next = pending => next' = next \/ pending = NoCarrier,
           rdpPossible' \in BOOLEAN, autoSwitch' \in BOOLEAN
    PROVE  SelectorIInv'
<1>1. SelectorTypes'
  BY DEF SelectorIInv, SelectorTypes, windowVars
<1>2. StartedCarriers' /\ UnknownIsFresh' /\ ChoiceStaysRipe' /\ BackoffIsKept'
  BY DEF SelectorIInv, StartedCarriers, UnknownIsFresh, ChoiceStaysRipe, BackoffIsKept, windowVars
<1>3. PendingIsLive'
  BY DEF SelectorIInv, PendingIsLive, windowVars
<1> QED
  BY <1>1, <1>2, <1>3 DEF SelectorIInv

\* What a new carrier is.
LEMMA NewCarrier ==
    ASSUME SelectorIInv, NEW k \in Kinds, gen < MaxGen
    PROVE  /\ gen + 1 \in 0 .. MaxGen /\ gen + 1 # 0
           /\ [generation |-> gen + 1, backend |-> k] \in Carriers
           /\ [generation |-> gen + 1, backend |-> k] # NoCarrier
           /\ NoCarrier \in Carriers
<1>1. gen + 1 \in 0 .. MaxGen /\ gen + 1 # 0 /\ 0 \in 0 .. MaxGen
  BY SelectorAssumption DEF SelectorIInv, SelectorTypes
<1> QED
  BY <1>1 DEF Carriers, NoCarrier

\* The times of a window nobody has looked at yet.
LEMMA FreshTimes ==
    /\ [k \in Kinds |-> 0] \in [Kinds -> 0 .. MAX_BACKOFF]
    /\ [k \in Kinds |-> BACKOFF] \in [Kinds -> 0 .. BACKOFF]
    /\ 0 \in 0 .. DWELL /\ 0 \in 0 .. MIN_INTERVAL /\ 0 \in 0 .. MaxGen
<1>1. 0 \in 0 .. MAX_BACKOFF /\ BACKOFF \in 0 .. BACKOFF
  BY SelectorAssumption
<1> QED
  BY <1>1, SelectorAssumption

LEMMA NoCarrierTyped == NoCarrier \in Carriers /\ NoCarrier.generation = 0
BY SelectorAssumption DEF Carriers, NoCarrier

\* The end of a carrier with the event that tells of it.
LEMMA EndsWithEvent ==
    ASSUME SelectorIInv, NEW e \in Events, events' = Append(events, e),
           UNCHANGED <<gen, settingVars, windowVars, choice, sinceFailed>>,
           shown' \in Carriers, next' = NoCarrier,
           e.what = "refused" => e.generation # 0,
           next = pending /\ pending # NoCarrier =>
               e.what = "stopped" \/ e.generation = pending.generation
    PROVE  SelectorIInv'
<1>0. events \in Seq(Events)
  BY DEF SelectorIInv, SelectorTypes, Events
<1>1. /\ events' \in Seq(Events)
      /\ \A i \in DOMAIN events : i \in DOMAIN events' /\ events'[i] = events[i]
      /\ \E i \in DOMAIN events' : events'[i] = e
      /\ \A i \in DOMAIN events' : i \in DOMAIN events \/ events'[i] = e
  BY <1>0, AddedEvent
<1>2. SelectorTypes'
  BY <1>1, NoCarrierTyped DEF SelectorIInv, SelectorTypes, windowVars, settingVars, Events
<1>3. StartedCarriers' /\ UnknownIsFresh' /\ ChoiceStaysRipe' /\ BackoffIsKept'
  BY <1>1 DEF SelectorIInv, StartedCarriers, UnknownIsFresh, ChoiceStaysRipe, BackoffIsKept, windowVars
<1>4. PendingIsLive'
  <2>1. e.what \in {"refused", "stopped"}
    BY DEF Events
  <2>2. pending' = pending
    BY DEF windowVars
  <2>3. CASE pending # NoCarrier /\ next = pending
    BY <1>1, <2>1, <2>2, <2>3 DEF PendingIsLive
  <2>4. CASE pending # NoCarrier /\ next # pending
    BY <1>1, <2>2, <2>4 DEF SelectorIInv, PendingIsLive
  <2> QED
    BY <2>2, <2>3, <2>4 DEF PendingIsLive
<1> QED
  BY <1>2, <1>3, <1>4 DEF SelectorIInv

LEMMA WindowSteps ==
    ASSUME SelectorIInv,
           (\E k \in Kinds : StartWindow(k)) \/ StopWindow \/ AbandonSwitch \/ Settings
    PROVE  SelectorIInv'
<1>0. SelectorTypes /\ StartedCarriers
  BY DEF SelectorIInv
<1>1. ASSUME NEW k \in Kinds, StartWindow(k)
      PROVE  SelectorIInv'
  BY <1>0, <1>1, NewCarrier, CarriersKeep
  DEF StartWindow, SelectorTypes, StartedCarriers, settingVars, historyVars
<1>2. CASE StopWindow
  <2>1. [what |-> "stopped", generation |-> 0] \in Events
    BY SelectorAssumption DEF Events
  <2> QED
    BY <1>0, <1>2, <2>1, EndsWithEvent, NoCarrierTyped DEF StopWindow, SelectorTypes, historyVars
<1>3. CASE AbandonSwitch
  <2>1. next.generation \in 0 .. MaxGen /\ next.generation # 0
    BY <1>0, <1>3 DEF AbandonSwitch, SelectorTypes, StartedCarriers, Carriers
  <2>2. [what |-> "refused", generation |-> next.generation] \in Events
    BY <2>1 DEF Events
  <2> QED
    BY <1>0, <1>3, <2>1, <2>2, EndsWithEvent DEF AbandonSwitch, SelectorTypes, historyVars
<1>4. CASE Settings
  BY <1>0, <1>4, CarriersKeep DEF Settings, SelectorTypes, StartedCarriers, carrierVars, historyVars
<1> QED
  BY <1>1, <1>2, <1>3, <1>4

-----------------------------------------------------------------------------
(* The selector.                                                             *)

LEMMA LookKeeps ==
    ASSUME SelectorIInv, NEW c \in Contents, NEW m \in Motions, NEW r \in BOOLEAN, Look(c, m, r)
    PROVE  SelectorIInv'
<1>0. SelectorTypes
  BY DEF SelectorIInv
<1>1. /\ known' = TRUE /\ pinned' \in BOOLEAN /\ choice = NoKind
      /\ sinceSwitch' \in 0 .. MIN_INTERVAL
      /\ UNCHANGED <<gen, shown, next, rdpPossible, autoSwitch, left, wait, pending, events, sinceFailed>>
  BY <1>0, SelectorAssumption
  DEF Look, SelectorTypes, carrierVars, settingVars, historyVars
<1>2. /\ better' \in Kinds \cup {NoKind} /\ dwelt' \in 0 .. DWELL
      /\ choice' \in Kinds \cup {NoKind}
      /\ choice' # NoKind => choice' \in Kinds /\ better = choice' /\ Ripe /\ left[choice'] = 0
  BY <1>0, <1>1, SelectorAssumption DEF Look, SelectorTypes, Better
<1>3. SelectorTypes'
  BY <1>0, <1>1, <1>2 DEF SelectorTypes
<1>4. ChoiceStaysRipe'
  <2> SUFFICES ASSUME choice' # NoKind
               PROVE  sinceSwitch' >= MIN_INTERVAL /\ left'[choice'] = 0
    BY <1>1 DEF ChoiceStaysRipe
  <2>1. known
    BY <1>2 DEF SelectorIInv, UnknownIsFresh, NoKind, Kinds
  <2>2. sinceSwitch' = sinceSwitch
    BY <2>1 DEF Look
  <2> QED
    BY <1>1, <1>2, <2>2 DEF Ripe
<1>5. StartedCarriers' /\ UnknownIsFresh' /\ BackoffIsKept' /\ PendingIsLive'
  BY <1>1 DEF SelectorIInv, StartedCarriers, UnknownIsFresh, BackoffIsKept, PendingIsLive
<1> QED
  BY <1>3, <1>4, <1>5 DEF SelectorIInv

\* What a failed switch to k leaves: the waits it sets are longer than BACKOFF.
LEMMA FailureBacksOff ==
    ASSUME SelectorIInv, NEW k \in Kinds, SwitchFailed(k)
    PROVE  /\ left' \in [Kinds -> 0 .. MAX_BACKOFF] /\ wait' \in [Kinds -> 0 .. MAX_BACKOFF]
           /\ sinceFailed' \in [Kinds -> 0 .. BACKOFF]
           /\ sinceSwitch' \in 0 .. MIN_INTERVAL /\ sinceSwitch' = 0
           /\ dwelt' \in 0 .. DWELL /\ better' = NoKind
           /\ BackoffIsKept'
<1> DEFINE w == IF wait[k] = 0 THEN BACKOFF
                ELSE IF 2 * wait[k] < MAX_BACKOFF THEN 2 * wait[k] ELSE MAX_BACKOFF
<1>0. SelectorTypes /\ BackoffIsKept
  BY DEF SelectorIInv
<1>1. w \in 0 .. MAX_BACKOFF /\ w >= BACKOFF
  <2>1. wait[k] \in 0 .. MAX_BACKOFF /\ (wait[k] = 0 \/ wait[k] >= BACKOFF)
    BY <1>0 DEF SelectorTypes, BackoffIsKept
  <2> QED
    BY <2>1, SelectorAssumption
<1>2. /\ left' = [left EXCEPT ![k] = w] /\ wait' = [wait EXCEPT ![k] = w]
      /\ sinceFailed' = [sinceFailed EXCEPT ![k] = 0]
      /\ better' = NoKind /\ dwelt' = 0 /\ sinceSwitch' = 0
  BY DEF SwitchFailed
<1> HIDE DEF w
<1>3. 0 \in 0 .. BACKOFF /\ 0 \in 0 .. MIN_INTERVAL /\ 0 \in 0 .. DWELL
  BY SelectorAssumption
<1>4. /\ left' \in [Kinds -> 0 .. MAX_BACKOFF] /\ wait' \in [Kinds -> 0 .. MAX_BACKOFF]
      /\ sinceFailed' \in [Kinds -> 0 .. BACKOFF]
  BY <1>0, <1>1, <1>2, <1>3 DEF SelectorTypes
<1>5. ASSUME NEW j \in Kinds
      PROVE  /\ wait'[j] = 0 \/ wait'[j] >= BACKOFF
             /\ left'[j] + sinceFailed'[j] >= BACKOFF
  <2>1. CASE j = k
    <3>1. wait'[j] = w /\ left'[j] = w /\ sinceFailed'[j] = 0
      BY <1>0, <1>2, <2>1 DEF SelectorTypes
    <3> QED
      BY <1>1, <3>1, SelectorAssumption
  <2>2. CASE j # k
    <3>1. wait'[j] = wait[j] /\ left'[j] = left[j] /\ sinceFailed'[j] = sinceFailed[j]
      BY <1>0, <1>2, <2>2 DEF SelectorTypes
    <3> QED
      BY <1>0, <3>1 DEF BackoffIsKept
  <2> QED
    BY <2>1, <2>2
<1> QED
  BY <1>2, <1>3, <1>4, <1>5 DEF BackoffIsKept

\* What a switch that began leaves; it was not in its backoff.
LEMMA SwitchedKeeps ==
    ASSUME SelectorIInv, NEW k \in Kinds, left[k] = 0, Switched(k)
    PROVE  /\ left' \in [Kinds -> 0 .. MAX_BACKOFF] /\ wait' \in [Kinds -> 0 .. MAX_BACKOFF]
           /\ sinceFailed' \in [Kinds -> 0 .. BACKOFF]
           /\ sinceSwitch' \in 0 .. MIN_INTERVAL /\ sinceSwitch' = 0
           /\ dwelt' \in 0 .. DWELL /\ better' = NoKind
           /\ BackoffIsKept'
<1>0. SelectorTypes /\ BackoffIsKept
  BY DEF SelectorIInv
<1>1. 0 \in 0 .. MAX_BACKOFF /\ 0 \in 0 .. MIN_INTERVAL /\ 0 \in 0 .. DWELL
  BY SelectorAssumption
<1>2. /\ left' = [left EXCEPT ![k] = 0] /\ wait' = [wait EXCEPT ![k] = 0]
      /\ sinceFailed' = sinceFailed /\ better' = NoKind /\ dwelt' = 0 /\ sinceSwitch' = 0
  BY DEF Switched, historyVars
<1>3. \A j \in Kinds : left'[j] = left[j] /\ (wait'[j] = 0 \/ wait'[j] = wait[j])
  BY <1>0, <1>2 DEF SelectorTypes
<1>4. BackoffIsKept'
  BY <1>0, <1>2, <1>3 DEF BackoffIsKept
<1> QED
  BY <1>0, <1>1, <1>2, <1>4 DEF SelectorTypes

LEMMA BeginSwitchKeeps ==
    ASSUME SelectorIInv, BeginSwitch
    PROVE  SelectorIInv'
<1>0. SelectorTypes /\ StartedCarriers /\ ChoiceStaysRipe /\ PendingIsLive
  BY DEF SelectorIInv
<1>1. /\ choice \in Kinds /\ choice' = NoKind /\ left[choice] = 0
      /\ UNCHANGED <<rdpPossible, autoSwitch, known, pinned, events>>
  BY <1>0 DEF BeginSwitch, SelectorTypes, ChoiceStaysRipe, settingVars
<1>2. CASE StartSwitch(choice) /\ pending' = next' /\ Switched(choice)
  <2>1. /\ next' = [generation |-> gen + 1, backend |-> choice]
        /\ gen' = gen + 1 /\ gen < MaxGen /\ shown' = shown
    BY <1>2 DEF StartSwitch
  <2>2. /\ next' \in Carriers /\ gen' \in 0 .. MaxGen /\ next' # NoCarrier
        /\ next'.generation # 0 /\ next'.backend = choice
    BY <1>1, <2>1, NewCarrier
  <2>3. SelectorTypes'
    BY <1>0, <1>1, <1>2, <2>1, <2>2, SwitchedKeeps DEF SelectorTypes
  <2>4. BackoffIsKept' /\ UnknownIsFresh'
    BY <1>1, <1>2, SwitchedKeeps DEF UnknownIsFresh
  <2>5. StartedCarriers' /\ ChoiceStaysRipe' /\ PendingIsLive'
    BY <1>0, <1>1, <1>2, <2>2 DEF StartedCarriers, ChoiceStaysRipe, PendingIsLive
  <2> QED
    BY <2>3, <2>4, <2>5 DEF SelectorIInv
<1>3. CASE SwitchFailed(choice) /\ UNCHANGED <<carrierVars, pending>>
  <2>3. SelectorTypes'
    BY <1>0, <1>1, <1>3, FailureBacksOff DEF SelectorTypes, carrierVars
  <2>4. BackoffIsKept' /\ UnknownIsFresh'
    BY <1>1, <1>3, FailureBacksOff DEF UnknownIsFresh
  <2>5. StartedCarriers' /\ ChoiceStaysRipe' /\ PendingIsLive'
    BY <1>0, <1>1, <1>3 DEF StartedCarriers, ChoiceStaysRipe, PendingIsLive, carrierVars
  <2> QED
    BY <2>3, <2>4, <2>5 DEF SelectorIInv
<1> QED
  BY <1>2, <1>3 DEF BeginSwitch

LEMMA SwitchWindowKeeps ==
    ASSUME SelectorIInv, NEW k \in Kinds, SwitchWindow(k)
    PROVE  SelectorIInv'
<1>0. SelectorTypes /\ StartedCarriers /\ ChoiceStaysRipe /\ PendingIsLive
  BY DEF SelectorIInv
<1>1. /\ known' = TRUE /\ pinned' = TRUE /\ sinceSwitch' \in 0 .. MIN_INTERVAL
      /\ known => sinceSwitch' = sinceSwitch
      /\ UNCHANGED <<rdpPossible, autoSwitch, better, dwelt, left, wait, pending, choice, events,
                     sinceFailed>>
  BY <1>0, SelectorAssumption DEF SwitchWindow, SelectorTypes, settingVars, historyVars
<1>2. /\ gen' \in 0 .. MaxGen /\ shown' = shown /\ next' \in Carriers
      /\ next' # NoCarrier => next'.generation # 0 /\ next'.backend \in Kinds
      /\ next' = next \/ next = NoCarrier
  <2>1. CASE StartSwitch(k)
    BY <2>1, NewCarrier DEF StartSwitch, Startable
  <2>2. CASE UNCHANGED carrierVars
    BY <1>0, <2>2 DEF SelectorTypes, StartedCarriers, carrierVars
  <2> QED
    BY <2>1, <2>2 DEF SwitchWindow
<1>3. SelectorTypes'
  BY <1>0, <1>1, <1>2 DEF SelectorTypes
<1>4. ChoiceStaysRipe' /\ UnknownIsFresh' /\ BackoffIsKept'
  BY <1>0, <1>1 DEF SelectorIInv, ChoiceStaysRipe, UnknownIsFresh, BackoffIsKept
<1>5. StartedCarriers' /\ PendingIsLive'
  BY <1>0, <1>1, <1>2 DEF StartedCarriers, PendingIsLive
<1> QED
  BY <1>3, <1>4, <1>5 DEF SelectorIInv

LEMMA CarrierShownKeeps ==
    ASSUME SelectorIInv, NEW g \in 1 .. gen, CarrierShown(g)
    PROVE  SelectorIInv'
<1>0. SelectorTypes /\ StartedCarriers /\ ChoiceStaysRipe /\ PendingIsLive
  BY DEF SelectorIInv
<1>1. /\ UNCHANGED <<gen, rdpPossible, autoSwitch, known, better, dwelt, sinceSwitch, left, wait,
                     pinned, choice, events, sinceFailed>>
      /\ pending' = IF pending.generation = g THEN NoCarrier ELSE pending
      /\ next' \in {next, NoCarrier} /\ shown' \in {shown, next}
      /\ next.generation # g => next' = next
  BY DEF CarrierShown, settingVars
<1>2. SelectorTypes'
  BY <1>0, <1>1, NoCarrierTyped DEF SelectorTypes
<1>3. StartedCarriers' /\ ChoiceStaysRipe' /\ UnknownIsFresh' /\ BackoffIsKept'
  BY <1>1 DEF SelectorIInv, StartedCarriers, ChoiceStaysRipe, UnknownIsFresh, BackoffIsKept
<1>4. PendingIsLive'
  BY <1>0, <1>1 DEF PendingIsLive
<1> QED
  BY <1>2, <1>3, <1>4 DEF SelectorIInv

LEMMA NextEventKeeps ==
    ASSUME SelectorIInv, NextEvent
    PROVE  SelectorIInv'
<1>0. SelectorTypes /\ StartedCarriers /\ ChoiceStaysRipe /\ PendingIsLive
  BY DEF SelectorIInv
<1>1. /\ choice = NoKind /\ choice' = NoKind /\ events' = Tail(events) /\ events # <<>>
      /\ UNCHANGED <<gen, shown, next, rdpPossible, autoSwitch>>
  BY DEF NextEvent, carrierVars, settingVars
<1>2. events \in Seq(Events)
  BY <1>0 DEF SelectorTypes, Events
<1>3. /\ events' \in Seq(Events)
      /\ Head(events) = events[1] /\ 1 \in DOMAIN events
      /\ \A i \in DOMAIN events' : i + 1 \in DOMAIN events /\ events'[i] = events[i + 1]
      /\ \A i \in DOMAIN events : i # 1 => i - 1 \in DOMAIN events' /\ events'[i - 1] = events[i]
  BY <1>1, <1>2, TakenEvent
<1>4. \A i \in DOMAIN events' : events'[i].what = "refused" => events'[i].generation # 0
  BY <1>0, <1>3 DEF StartedCarriers
<1>5. ChoiceStaysRipe'
  BY <1>1 DEF ChoiceStaysRipe
<1>6. CASE Head(events).what = "stopped" /\ known' = FALSE /\ FreshWindow
  <2>1. /\ better' = NoKind /\ dwelt' = 0 /\ sinceSwitch' = 0 /\ pinned' = FALSE
        /\ pending' = NoCarrier
        /\ left' = [k \in Kinds |-> 0] /\ wait' = [k \in Kinds |-> 0]
        /\ sinceFailed' = [k \in Kinds |-> BACKOFF]
    BY <1>6 DEF FreshWindow
  <2>2. SelectorTypes'
    BY <1>0, <1>1, <1>3, <1>6, <2>1, NoCarrierTyped, FreshTimes
    DEF SelectorTypes, Events
  <2>3. BackoffIsKept'
    BY <2>1, SelectorAssumption DEF BackoffIsKept
  <2> QED
    BY <1>0, <1>1, <1>4, <1>5, <2>1, <2>2, <2>3
    DEF SelectorIInv, StartedCarriers, UnknownIsFresh, PendingIsLive
<1>7. CASE /\ Head(events).what = "refused"
           /\ pending.generation = Head(events).generation
           /\ pending' = NoCarrier
           /\ SwitchFailed(pending.backend)
           /\ UNCHANGED <<known, pinned>>
  <2>1. pending.backend \in Kinds
    BY <1>0, <1>3, <1>7, NoCarrierTyped DEF StartedCarriers
  <2>2. SelectorTypes'
    BY <1>0, <1>1, <1>3, <1>7, <2>1, NoCarrierTyped, FailureBacksOff DEF SelectorTypes, Events
  <2>3. BackoffIsKept' /\ UnknownIsFresh'
    BY <1>7, <2>1, FailureBacksOff DEF UnknownIsFresh
  <2> QED
    BY <1>0, <1>1, <1>4, <1>5, <1>7, <2>2, <2>3
    DEF SelectorIInv, StartedCarriers, PendingIsLive
<1>8. CASE /\ Head(events).what = "refused"
           /\ pending.generation # Head(events).generation
           /\ UNCHANGED <<windowVars, historyVars>>
  <2>1. SelectorTypes'
    BY <1>0, <1>1, <1>3, <1>8 DEF SelectorTypes, Events, windowVars, historyVars
  <2>2. StartedCarriers' /\ UnknownIsFresh' /\ BackoffIsKept'
    BY <1>1, <1>4, <1>8
    DEF SelectorIInv, StartedCarriers, UnknownIsFresh, BackoffIsKept, windowVars, historyVars
  <2>3. PendingIsLive'
    <3>1. pending' = pending /\ next' = next
      BY <1>1, <1>8 DEF windowVars
    <3>2. ASSUME NEW i \in DOMAIN events,
                 \/ events[i].what = "stopped"
                 \/ events[i].what = "refused" /\ events[i].generation = pending.generation
          PROVE  i - 1 \in DOMAIN events' /\ events'[i - 1] = events[i]
      BY <1>3, <1>8, <3>2
    <3> QED
      BY <1>0, <3>1, <3>2 DEF PendingIsLive
  <2> QED
    BY <1>5, <2>1, <2>2, <2>3 DEF SelectorIInv
<1> QED
  BY <1>6, <1>7, <1>8 DEF NextEvent

LEMMA SecondPassesKeeps ==
    ASSUME SelectorIInv, SecondPasses
    PROVE  SelectorIInv'
<1>0. SelectorTypes /\ StartedCarriers /\ ChoiceStaysRipe /\ PendingIsLive
  BY DEF SelectorIInv
<1>1. /\ UNCHANGED <<gen, shown, next, rdpPossible, autoSwitch, known, better, wait, pinned,
                     pending, choice, events>>
      /\ left' = [k \in Kinds |-> Fewer(left[k])]
      /\ sinceFailed' = [k \in Kinds |-> More(sinceFailed[k], BACKOFF)]
      /\ dwelt' = IF better = NoKind THEN 0 ELSE More(dwelt, DWELL)
      /\ sinceSwitch' = IF known THEN More(sinceSwitch, MIN_INTERVAL) ELSE 0
  BY DEF SecondPasses, carrierVars, settingVars
<1>2. /\ dwelt' \in 0 .. DWELL /\ sinceSwitch' \in 0 .. MIN_INTERVAL
      /\ sinceSwitch >= MIN_INTERVAL /\ known => sinceSwitch' >= MIN_INTERVAL
      /\ ~ known => sinceSwitch' = 0
  BY <1>0, <1>1, SelectorAssumption DEF SelectorTypes, More
<1>3. ASSUME NEW k \in Kinds
      PROVE  /\ left'[k] \in 0 .. MAX_BACKOFF /\ sinceFailed'[k] \in 0 .. BACKOFF
             /\ left[k] = 0 => left'[k] = 0
             /\ left'[k] + sinceFailed'[k] >= BACKOFF
  <2>1. left[k] \in 0 .. MAX_BACKOFF /\ sinceFailed[k] \in 0 .. BACKOFF
        /\ left[k] + sinceFailed[k] >= BACKOFF
    BY <1>0 DEF SelectorIInv, SelectorTypes, BackoffIsKept
  <2>2. left'[k] = Fewer(left[k]) /\ sinceFailed'[k] = More(sinceFailed[k], BACKOFF)
    BY <1>1
  <2> QED
    BY <2>1, <2>2, SelectorAssumption DEF Fewer, More
<1>4. left' \in [Kinds -> 0 .. MAX_BACKOFF] /\ sinceFailed' \in [Kinds -> 0 .. BACKOFF]
  BY <1>1, <1>3
<1>5. SelectorTypes'
  BY <1>0, <1>1, <1>2, <1>4 DEF SelectorTypes
<1>6. ChoiceStaysRipe' /\ UnknownIsFresh' /\ BackoffIsKept'
  BY <1>0, <1>1, <1>2, <1>3
  DEF SelectorIInv, SelectorTypes, ChoiceStaysRipe, UnknownIsFresh, BackoffIsKept
<1>7. StartedCarriers' /\ PendingIsLive'
  BY <1>0, <1>1 DEF StartedCarriers, PendingIsLive
<1> QED
  BY <1>5, <1>6, <1>7 DEF SelectorIInv

-----------------------------------------------------------------------------
LEMMA SelectorInitial == SelectorInit => SelectorIInv
<1> SUFFICES ASSUME SelectorInit
             PROVE  SelectorIInv
  OBVIOUS
<1>1. SelectorTypes
  <2>1. events \in Seq([what : {"refused", "stopped"}, generation : 0 .. MaxGen])
    BY EmptySeq DEF SelectorInit
  <2> QED
    BY <2>1, NoCarrierTyped, FreshTimes DEF SelectorInit, SelectorTypes
<1>2. BackoffIsKept
  BY SelectorAssumption DEF SelectorInit, BackoffIsKept
<1> QED
  BY <1>1, <1>2
  DEF SelectorInit, SelectorIInv, StartedCarriers, UnknownIsFresh, ChoiceStaysRipe, PendingIsLive

LEMMA SelectorStep == SelectorIInv /\ [SelectorNext]_selectorVars => SelectorIInv'
<1> SUFFICES ASSUME SelectorIInv, [SelectorNext]_selectorVars
             PROVE  SelectorIInv'
  OBVIOUS
<1>1. CASE UNCHANGED selectorVars
  BY <1>1
  DEF selectorVars, carrierVars, settingVars, windowVars, historyVars, SelectorIInv, SelectorTypes,
      StartedCarriers, UnknownIsFresh, ChoiceStaysRipe, BackoffIsKept, PendingIsLive
<1>2. CASE (\E k \in Kinds : StartWindow(k)) \/ StopWindow \/ AbandonSwitch \/ Settings
  BY <1>2, WindowSteps
<1>3. ASSUME NEW c \in Contents, NEW m \in Motions, NEW r \in BOOLEAN, Look(c, m, r)
      PROVE  SelectorIInv'
  BY <1>3, LookKeeps
<1>4. CASE BeginSwitch
  BY <1>4, BeginSwitchKeeps
<1>5. ASSUME NEW k \in Kinds, SwitchWindow(k)
      PROVE  SelectorIInv'
  BY <1>5, SwitchWindowKeeps
<1>6. ASSUME NEW g \in 1 .. gen, CarrierShown(g)
      PROVE  SelectorIInv'
  BY <1>6, CarrierShownKeeps
<1>7. CASE NextEvent
  BY <1>7, NextEventKeeps
<1>8. CASE SecondPasses
  BY <1>8, SecondPassesKeeps
<1> QED
  BY <1>1, <1>2, <1>3, <1>4, <1>5, <1>6, <1>7, <1>8 DEF SelectorNext

\* The only switch the selector starts is the one it chose.
LEMMA OnlyChosenSwitches ==
    ASSUME SelectorIInv, [SelectorNext]_selectorVars, AutoSwitch
    PROVE  sinceSwitch >= MIN_INTERVAL /\ sinceFailed[pending'.backend] >= BACKOFF
<1>1. pending' # NoCarrier /\ pending' # pending
  BY DEF AutoSwitch
<1>2. BeginSwitch
  BY <1>1
  DEF SelectorNext, StopWindow, AbandonSwitch, Settings, NextEvent, SecondPasses, StartWindow,
      SwitchWindow, Look, CarrierShown, FreshWindow, selectorVars, windowVars
<1>3. StartSwitch(choice) /\ pending' = next' /\ choice # NoKind
  BY <1>1, <1>2 DEF BeginSwitch
<1>4. pending'.backend = choice
  BY <1>3 DEF StartSwitch
<1>5. choice \in Kinds /\ sinceSwitch >= MIN_INTERVAL /\ left[choice] = 0
  BY <1>3 DEF SelectorIInv, SelectorTypes, ChoiceStaysRipe
<1>6. sinceFailed[choice] \in 0 .. BACKOFF /\ left[choice] + sinceFailed[choice] >= BACKOFF
  BY <1>5 DEF SelectorIInv, SelectorTypes, BackoffIsKept
<1> QED
  BY <1>4, <1>5, <1>6, SelectorAssumption

\* The selector beside the user's own switches: the switch it waits for is going
\* on, or the event that ends it is on its way; and it starts none before the
\* minimum interval or within the backoff of one that failed.
THEOREM SelectorStaysInStep == SelectorSpec => SwitchesInStep
<1>1. SelectorIInv => SelectorTypes /\ PendingIsLive
  BY DEF SelectorIInv
<1>2. SelectorIInv /\ [SelectorNext]_selectorVars =>
        [AutoSwitch => /\ sinceSwitch >= MIN_INTERVAL
                       /\ sinceFailed[pending'.backend] >= BACKOFF]_selectorVars
  BY OnlyChosenSwitches
<1> QED
  BY <1>1, <1>2, SelectorInitial, SelectorStep, PTL
  DEF SelectorSpec, SwitchesInStep, SwitchesAreSpaced

-----------------------------------------------------------------------------
(* Signing in from a client.                                                *)

Hosts == Machines \cup {NoMachine}

Codes ==
    [phase : {"none", "idle", "waiting", "token"}, interval : Nat, nextPoll : Nat,
     expires : Nat, deadline : Nat, cancelled : BOOLEAN, accept : Hosts]

Histories ==
    [flows : Nat, confirmed : SUBSET Machines, sent : SUBSET Machines,
     lastPoll : Nat, tooSoon : BOOLEAN, stale : BOOLEAN]

FlowTypes ==
    /\ wall \in Nat
    /\ pinnedHosts \subseteq Machines
    /\ flow \in [stage : {"none", "confirm", "choose"}, host : Hosts, accept : Hosts]
    /\ flow.stage = "confirm" => flow.host \in Machines
    /\ browser \in [Tries -> [phase : {"none", "waiting", "token", "failed"}, accept : Hosts]]
    /\ code \in Codes
    /\ connecting \subseteq Hosts
    /\ told \in Histories

\* A host that is accepted, by the dialogs, an attempt of the browser, the code or a
\* call that connects, is none or was confirmed; a pinned one was.
Confirmed(h) == h = NoMachine \/ h \in told.confirmed

AcceptedAreConfirmed ==
    /\ pinnedHosts \subseteq told.confirmed
    /\ Confirmed(flow.accept) /\ Confirmed(code.accept)
    /\ \A a \in Tries : Confirmed(browser[a].accept)
    /\ \A h \in connecting : Confirmed(h)

\* The next poll is due an interval after the last one, or later.
PollIsLater ==
    code.phase \in {"idle", "waiting"} => code.nextPoll >= told.lastPoll + code.interval

FlowInv ==
    /\ FlowTypes /\ AcceptedAreConfirmed /\ PollIsLater
    /\ CredentialsGoToKnownHosts /\ PollsAreSpaced /\ NoStaleToken

\* The states the flows start in satisfy it.
LEMMA FlowStarts ==
    ASSUME FlowInit
    PROVE  FlowInv
<1>1. /\ wall = 0 /\ pinnedHosts = {} /\ flow = NoFlow /\ code = NoCode /\ connecting = {}
      /\ browser = [a \in Tries |-> [phase |-> "none", accept |-> NoMachine]]
      /\ told = [flows |-> 0, confirmed |-> {}, sent |-> {}, lastPoll |-> 0,
                 tooSoon |-> FALSE, stale |-> FALSE]
  BY DEF FlowInit
<1>2. FlowTypes
  BY <1>1 DEF FlowTypes, NoFlow, NoCode, Hosts, Codes, Histories
<1>3. AcceptedAreConfirmed /\ PollIsLater
  BY <1>1 DEF AcceptedAreConfirmed, Confirmed, PollIsLater, NoFlow, NoCode
<1>4. CredentialsGoToKnownHosts /\ PollsAreSpaced /\ NoStaleToken
  BY <1>1 DEF CredentialsGoToKnownHosts, PollsAreSpaced, NoStaleToken
<1> QED
  BY <1>2, <1>3, <1>4 DEF FlowInv

\* The dialogs: the host that answers is shown, and accepted once it is confirmed.
LEMMA DialogsKeep ==
    ASSUME FlowInv, AsksForOffer \/ ConfirmsHost \/ ChoosesPassword
    PROVE  FlowInv'
<1> USE DEF FlowInv
<1>1. CASE AsksForOffer
  <2>1. /\ told' = [told EXCEPT !.flows = @ + 1]
        /\ flow' \in {flow} \cup {OfferedBy(h) : h \in Machines}
        /\ UNCHANGED <<wall, pinnedHosts, browser, code, connecting>>
    BY <1>1 DEF AsksForOffer
  <2>2. /\ flow' \in [stage : {"none", "confirm", "choose"}, host : Hosts, accept : Hosts]
        /\ flow'.stage = "confirm" => flow'.host \in Machines
        /\ flow'.accept \in {flow.accept, NoMachine}
    BY <2>1 DEF OfferedBy, FlowTypes, Hosts
  <2>3. /\ told' \in Histories
        /\ told'.confirmed = told.confirmed /\ told'.sent = told.sent
        /\ told'.lastPoll = told.lastPoll /\ told'.tooSoon = told.tooSoon
        /\ told'.stale = told.stale
    BY <2>1 DEF FlowTypes, Histories
  <2>4. FlowTypes'
    BY <2>1, <2>2, <2>3 DEF FlowTypes, Tries
  <2>5. AcceptedAreConfirmed' /\ PollIsLater'
    BY <2>1, <2>2, <2>3 DEF AcceptedAreConfirmed, Confirmed, PollIsLater
  <2> QED
    BY <2>3, <2>4, <2>5 DEF CredentialsGoToKnownHosts, PollsAreSpaced, NoStaleToken
<1>2. CASE ConfirmsHost
  <2>1. CASE flow' = NoFlow /\ UNCHANGED told
    <3>1. UNCHANGED <<wall, pinnedHosts, browser, code, connecting>>
      BY <1>2 DEF ConfirmsHost
    <3>2. FlowTypes'
      BY <2>1, <3>1 DEF FlowTypes, NoFlow, Hosts
    <3>3. AcceptedAreConfirmed' /\ PollIsLater'
      BY <2>1, <3>1 DEF AcceptedAreConfirmed, Confirmed, PollIsLater, NoFlow
    <3> QED
      BY <2>1, <3>2, <3>3 DEF CredentialsGoToKnownHosts, PollsAreSpaced, NoStaleToken
  <2>2. CASE /\ flow' = [flow EXCEPT !.stage = "choose", !.accept = flow.host]
             /\ told' = [told EXCEPT !.confirmed = @ \cup {flow.host}]
    <3>1. /\ UNCHANGED <<wall, pinnedHosts, browser, code, connecting>>
          /\ flow.host \in Machines
      BY <1>2 DEF ConfirmsHost, FlowTypes
    <3>2. /\ flow' \in [stage : {"none", "confirm", "choose"}, host : Hosts, accept : Hosts]
          /\ flow'.stage = "choose" /\ flow'.accept = flow.host
      BY <2>2, <3>1 DEF FlowTypes, Hosts
    <3>3. /\ told' \in Histories
          /\ told'.confirmed = told.confirmed \cup {flow.host} /\ told'.sent = told.sent
          /\ told'.lastPoll = told.lastPoll /\ told'.tooSoon = told.tooSoon
          /\ told'.stale = told.stale
      BY <2>2, <3>1 DEF FlowTypes, Histories
    <3>4. FlowTypes'
      BY <3>1, <3>2, <3>3 DEF FlowTypes, Tries
    <3>5. AcceptedAreConfirmed' /\ PollIsLater'
      BY <3>1, <3>2, <3>3 DEF AcceptedAreConfirmed, Confirmed, PollIsLater
    <3> QED
      BY <3>3, <3>4, <3>5 DEF CredentialsGoToKnownHosts, PollsAreSpaced, NoStaleToken
  <2> QED
    BY <1>2, <2>1, <2>2 DEF ConfirmsHost
<1>3. CASE ChoosesPassword
  <2>1. /\ flow' = NoFlow
        /\ connecting' \subseteq connecting \cup {flow.accept}
        /\ UNCHANGED <<wall, pinnedHosts, browser, code, told>>
    BY <1>3 DEF ChoosesPassword
  <2>2. FlowTypes'
    BY <2>1 DEF FlowTypes, NoFlow, Hosts
  <2>3. AcceptedAreConfirmed' /\ PollIsLater'
    BY <2>1 DEF AcceptedAreConfirmed, Confirmed, PollIsLater, NoFlow
  <2> QED
    BY <2>1, <2>2, <2>3 DEF CredentialsGoToKnownHosts, PollsAreSpaced, NoStaleToken
<1> QED
  BY <1>1, <1>2, <1>3

\* A step that moves the time of the last poll only.
SameHistory ==
    /\ told'.sent = told.sent /\ told'.confirmed = told.confirmed
    /\ told'.tooSoon = told.tooSoon /\ told'.stale = told.stale

\* What a step has to show that leaves the history of the hosts and the polls alone.
LEMMA QuietFlow ==
    ASSUME FlowInv, UNCHANGED <<wall, pinnedHosts, told>>, FlowTypes',
           AcceptedAreConfirmed', PollIsLater'
    PROVE  FlowInv'
BY DEF FlowInv, CredentialsGoToKnownHosts, PollsAreSpaced, NoStaleToken

\* An attempt of the browser carries the host it was begun for; only the current one
\* connects.
LEMMA BrowserKeeps ==
    ASSUME FlowInv,
           \/ BeginsBrowser \/ CancelsBrowser
           \/ \E a \in Tries : BrowserFinishes(a) \/ BrowserPosted(a)
    PROVE  FlowInv'
<1> USE DEF FlowInv
<1>1. CASE BeginsBrowser
  <2>1. PICK n : n = attempts.counter + 1
    OBVIOUS
  <2>2. /\ browser' = [browser EXCEPT ![n] = [phase |-> "waiting", accept |-> flow.accept]]
        /\ flow' = NoFlow
        /\ UNCHANGED <<wall, pinnedHosts, code, connecting, told>>
    BY <1>1, <2>1 DEF BeginsBrowser
  <2>3. FlowTypes'
    BY <2>2 DEF FlowTypes, NoFlow, Hosts
  <2>4. AcceptedAreConfirmed' /\ PollIsLater'
    BY <2>2 DEF AcceptedAreConfirmed, Confirmed, PollIsLater, NoFlow, FlowTypes
  <2> QED
    BY <2>2, <2>3, <2>4, QuietFlow
<1>2. CASE CancelsBrowser
  <2>1. UNCHANGED <<wall, pinnedHosts, flow, browser, code, connecting, told>>
    BY <1>2 DEF CancelsBrowser
  <2>2. FlowTypes' /\ AcceptedAreConfirmed' /\ PollIsLater'
    BY <2>1 DEF FlowTypes, AcceptedAreConfirmed, Confirmed, PollIsLater
  <2> QED
    BY <2>1, <2>2, QuietFlow
<1>3. ASSUME NEW a \in Tries, BrowserFinishes(a) PROVE FlowInv'
  <2>1. /\ browser' = [browser EXCEPT ![a].phase = "token"]
           \/ browser' = [browser EXCEPT ![a].phase = "failed"]
        /\ UNCHANGED <<wall, pinnedHosts, flow, code, connecting, told>>
    BY <1>3 DEF BrowserFinishes
  <2>2. FlowTypes'
    BY <2>1 DEF FlowTypes, Histories
  <2>3. AcceptedAreConfirmed' /\ PollIsLater'
    BY <2>1 DEF AcceptedAreConfirmed, Confirmed, PollIsLater, FlowTypes
  <2> QED
    BY <2>1, <2>2, <2>3, QuietFlow
<1>4. ASSUME NEW a \in Tries, BrowserPosted(a) PROVE FlowInv'
  <2>1. /\ browser' = [browser EXCEPT ![a].phase = "none"]
        /\ UNCHANGED <<wall, pinnedHosts, flow, code>>
    BY <1>4 DEF BrowserPosted
  <2>2. /\ connecting' \subseteq connecting \cup {browser[a].accept}
        /\ told' = told \/ told' = [told EXCEPT !.stale = @ \/ FALSE]
    BY <1>4 DEF BrowserPosted, TakesResult
  <2>3. UNCHANGED told
    <3>1. told.stale \in BOOLEAN
      BY DEF FlowTypes, Histories
    <3>2. (told.stale \/ FALSE) = told.stale
      BY <3>1
    <3> QED
      BY <2>2, <3>2 DEF FlowTypes, Histories
  <2>4. FlowTypes'
    BY <2>1, <2>2, <2>3 DEF FlowTypes
  <2>5. AcceptedAreConfirmed' /\ PollIsLater'
    BY <2>1, <2>2, <2>3 DEF AcceptedAreConfirmed, Confirmed, PollIsLater, FlowTypes
  <2> QED
    BY <2>1, <2>3, <2>4, <2>5, QuietFlow
<1> QED
  BY <1>1, <1>2, <1>3, <1>4

\* The code: a poll moves the next one an interval away, the longer one after
\* slow_down, and one that came too soon would be seen.
LEMMA CodeKeeps ==
    ASSUME FlowInv,
           \/ BeginsCode \/ CodeWaits \/ CodeExpires \/ CodeWaitOver \/ CodePolls
           \/ CancelsCode \/ CodePosted
    PROVE  FlowInv'
<1> USE DEF FlowInv
<1>1. CASE BeginsCode
  <2>1. /\ flow' = NoFlow
        /\ UNCHANGED <<wall, pinnedHosts, browser, connecting>>
        /\ \/ /\ code' = [phase |-> "idle", interval |-> INTERVAL, nextPoll |-> wall + INTERVAL,
                          expires |-> wall + EXPIRY, deadline |-> 0, cancelled |-> FALSE,
                          accept |-> flow.accept]
              /\ told' = [told EXCEPT !.lastPoll = wall]
           \/ UNCHANGED <<code, told>>
    BY <1>1 DEF BeginsCode
  <2>2. CASE UNCHANGED <<code, told>>
    <3>1. FlowTypes' /\ AcceptedAreConfirmed' /\ PollIsLater'
      BY <2>1, <2>2 DEF FlowTypes, NoFlow, Hosts, AcceptedAreConfirmed, Confirmed, PollIsLater
    <3> QED
      BY <2>1, <2>2, <3>1, QuietFlow
  <2>3. CASE /\ told' = [told EXCEPT !.lastPoll = wall]
             /\ code' = [phase |-> "idle", interval |-> INTERVAL, nextPoll |-> wall + INTERVAL,
                         expires |-> wall + EXPIRY, deadline |-> 0, cancelled |-> FALSE,
                         accept |-> flow.accept]
    <3>1. /\ wall \in Nat /\ wall + INTERVAL \in Nat /\ wall + EXPIRY \in Nat /\ INTERVAL \in Nat
          /\ flow.accept \in Hosts
      BY FlowAssumption DEF FlowTypes
    <3>2. /\ code' \in Codes /\ code'.accept = flow.accept
          /\ code'.nextPoll = wall + code'.interval
      BY <2>3, <3>1 DEF Codes
    <3>3. /\ told' \in Histories /\ SameHistory /\ told'.lastPoll = wall
      BY <2>3, <3>1 DEF FlowTypes, Histories, SameHistory
    <3>4. FlowTypes'
      BY <2>1, <3>2, <3>3 DEF FlowTypes, NoFlow, Hosts
    <3>5. AcceptedAreConfirmed'
      BY <2>1, <3>2, <3>3 DEF AcceptedAreConfirmed, Confirmed, NoFlow, SameHistory
    <3>6. PollIsLater'
      BY <3>1, <3>2, <3>3 DEF PollIsLater, Codes
    <3> QED
      BY <3>3, <3>4, <3>5, <3>6
         DEF SameHistory, CredentialsGoToKnownHosts, PollsAreSpaced, NoStaleToken
  <2> QED
    BY <2>1, <2>2, <2>3
<1>2. CASE CodeWaits \/ CodeExpires \/ CodeWaitOver \/ CancelsCode
  <2>1. /\ UNCHANGED <<wall, pinnedHosts, flow, browser, connecting, told>>
        /\ \/ code.phase = "idle" /\ code' = [code EXCEPT !.phase = "waiting",
                                                         !.deadline = wall + WITHIN]
           \/ code' = NoCode
           \/ code.phase = "waiting" /\ code' = [code EXCEPT !.phase = "idle"]
           \/ code' = [code EXCEPT !.cancelled = TRUE]
    BY <1>2 DEF CodeWaits, CodeExpires, CodeWaitOver, CancelsCode
  <2>2. wall + WITHIN \in Nat /\ code \in Codes
    BY FlowAssumption DEF FlowTypes
  <2>3. /\ code' \in Codes /\ code'.accept \in {code.accept, NoMachine}
        /\ code'.phase \in {"idle", "waiting"} =>
              /\ code.phase \in {"idle", "waiting"}
              /\ code'.nextPoll = code.nextPoll /\ code'.interval = code.interval
    <3>1. NoCode \in Codes /\ NoCode.accept = NoMachine /\ NoCode.phase = "none"
      BY DEF NoCode, Codes, Hosts
    <3>2. PICK until : until = wall + WITHIN
      OBVIOUS
    <3>3. CASE code.phase = "idle" /\ code' = [code EXCEPT !.phase = "waiting", !.deadline = until]
      BY <2>2, <3>2, <3>3 DEF Codes
    <3>4. CASE code' = NoCode
      BY <3>1, <3>4
    <3>5. CASE code.phase = "waiting" /\ code' = [code EXCEPT !.phase = "idle"]
      BY <2>2, <3>5 DEF Codes
    <3>6. CASE code' = [code EXCEPT !.cancelled = TRUE]
      BY <2>2, <3>6 DEF Codes
    <3> QED
      BY <2>1, <3>2, <3>3, <3>4, <3>5, <3>6
  <2>4. FlowTypes'
    BY <2>1, <2>3 DEF FlowTypes
  <2>5. AcceptedAreConfirmed' /\ PollIsLater'
    BY <2>1, <2>3 DEF AcceptedAreConfirmed, Confirmed, PollIsLater
  <2> QED
    BY <2>1, <2>4, <2>5, QuietFlow
<1>3. CASE CodePolls
  <2>1. /\ code.phase = "waiting" /\ wall >= code.nextPoll
        /\ told' = [told EXCEPT !.lastPoll = wall,
                                !.tooSoon = @ \/ wall < told.lastPoll + code.interval]
        /\ UNCHANGED <<wall, pinnedHosts, flow, browser, connecting>>
    BY <1>3 DEF CodePolls
  <2>2. /\ wall \in Nat /\ code \in Codes /\ told \in Histories /\ SLOWER \in Nat
        /\ code.interval \in Nat /\ code.nextPoll \in Nat /\ told.lastPoll \in Nat
    BY FlowAssumption DEF FlowTypes, Codes, Histories
  <2>3. ~ (wall < told.lastPoll + code.interval)
    BY <2>1, <2>2 DEF PollIsLater
  <2>4. told' = [told EXCEPT !.lastPoll = wall]
    <3>1. (told.tooSoon \/ wall < told.lastPoll + code.interval) = told.tooSoon
      BY <2>2, <2>3 DEF Histories
    <3> QED
      BY <2>1, <2>2, <3>1 DEF Histories
  <2>5. told' \in Histories /\ SameHistory /\ told'.lastPoll = wall
    BY <2>2, <2>4 DEF Histories, SameHistory
  <2>6. PICK soon : soon = wall + code.interval
    OBVIOUS
  <2>7. PICK interval : interval = code.interval + SLOWER
    OBVIOUS
  <2>8. PICK late : late = wall + code.interval + SLOWER
    OBVIOUS
  <2>9. /\ soon \in Nat /\ interval \in Nat /\ late \in Nat
        /\ soon >= wall + code.interval /\ late >= wall + interval
    BY <2>2, <2>6, <2>7, <2>8
  <2>10. PICK p \in {"idle", "waiting"} :
           \/ code' = [code EXCEPT !.nextPoll = soon, !.phase = p]
           \/ code' = [code EXCEPT !.interval = interval, !.nextPoll = late, !.phase = p]
           \/ code' = [code EXCEPT !.phase = "token"]
           \/ code' = NoCode
    <3>1. \A q : AfterPoll(q) \in {[q EXCEPT !.phase = "idle"], [q EXCEPT !.phase = "waiting"]}
      BY DEF AfterPoll
    <3>2. Slower = [code EXCEPT !.interval = interval, !.nextPoll = late]
      BY <2>7, <2>8 DEF Slower
    <3>3. \/ code' = AfterPoll([code EXCEPT !.nextPoll = soon])
          \/ code' = AfterPoll([code EXCEPT !.interval = interval, !.nextPoll = late])
          \/ code' = [code EXCEPT !.phase = "token"]
          \/ code' = NoCode
      BY <1>3, <2>6, <3>2 DEF CodePolls, SlowsDown
    <3> QED
      BY <2>2, <3>1, <3>3 DEF Codes
  <2>11. /\ code' \in Codes /\ code'.accept \in {code.accept, NoMachine}
         /\ code'.phase \in {"idle", "waiting"} => code'.nextPoll >= wall + code'.interval
    <3>1. NoCode \in Codes /\ NoCode.accept = NoMachine /\ NoCode.phase = "none"
      BY DEF NoCode, Codes, Hosts
    <3>2. ASSUME NEW poll, NEW pace \in Nat, poll \in Nat, poll >= wall + pace,
                 code' = [code EXCEPT !.interval = pace, !.nextPoll = poll, !.phase = p]
          PROVE  /\ code' \in Codes /\ code'.accept = code.accept
                 /\ code'.nextPoll >= wall + code'.interval
      BY <2>2, <3>2 DEF Codes
    <3>3. CASE code' = [code EXCEPT !.nextPoll = soon, !.phase = p]
      <4>1. code' = [code EXCEPT !.interval = code.interval, !.nextPoll = soon, !.phase = p]
        BY <2>2, <3>3 DEF Codes
      <4> QED
        BY <2>2, <2>9, <3>2, <4>1
    <3>4. CASE code' = [code EXCEPT !.interval = interval, !.nextPoll = late, !.phase = p]
      BY <2>9, <3>2, <3>4
    <3>5. CASE code' = [code EXCEPT !.phase = "token"]
      BY <2>2, <3>5 DEF Codes
    <3>6. CASE code' = NoCode
      BY <3>1, <3>6
    <3> QED
      BY <2>10, <3>3, <3>4, <3>5, <3>6
  <2>12. FlowTypes'
    BY <2>1, <2>5, <2>11 DEF FlowTypes
  <2>13. AcceptedAreConfirmed'
    BY <2>1, <2>5, <2>11 DEF AcceptedAreConfirmed, Confirmed, SameHistory
  <2>14. PollIsLater'
    BY <2>5, <2>11 DEF PollIsLater
  <2> QED
    BY <2>5, <2>12, <2>13, <2>14
       DEF SameHistory, CredentialsGoToKnownHosts, PollsAreSpaced, NoStaleToken
<1>4. CASE CodePosted
  <2>1. /\ code' = NoCode
        /\ connecting' \subseteq connecting \cup {code.accept}
        /\ UNCHANGED <<wall, pinnedHosts, flow, browser, told>>
    BY <1>4 DEF CodePosted
  <2>2. FlowTypes'
    BY <2>1 DEF FlowTypes, NoCode, Hosts, Codes
  <2>3. AcceptedAreConfirmed' /\ PollIsLater'
    BY <2>1 DEF AcceptedAreConfirmed, Confirmed, PollIsLater, NoCode, FlowTypes, Codes
  <2> QED
    BY <2>1, <2>2, <2>3, QuietFlow
<1> QED
  BY <1>1, <1>2, <1>3, <1>4

\* A credential is sent to a pinned host or the one accepted, both confirmed.
LEMMA ConnectionKeeps ==
    ASSUME FlowInv, ConnectsAccount \/ ForgetsHost \/ WallClock
    PROVE  FlowInv'
<1> USE DEF FlowInv
<1>1. CASE ConnectsAccount
  <2>1. PICK accept \in connecting :
           /\ connecting' = connecting \ {accept}
           /\ \/ UNCHANGED <<pinnedHosts, told>>
              \/ \E h \in Machines :
                    /\ SendsTo(h, accept)
                    /\ told' = [told EXCEPT !.sent = @ \cup {h}]
                    /\ pinnedHosts' \in {pinnedHosts, pinnedHosts \cup {h}}
           /\ UNCHANGED <<wall, flow, attempts, browser, code>>
    BY <1>1 DEF ConnectsAccount
  <2>2. CASE UNCHANGED <<pinnedHosts, told>>
    <3>1. FlowTypes' /\ AcceptedAreConfirmed' /\ PollIsLater'
      BY <2>1, <2>2 DEF FlowTypes, AcceptedAreConfirmed, Confirmed, PollIsLater
    <3> QED
      BY <2>1, <2>2, <3>1, QuietFlow
  <2>3. ASSUME NEW h \in Machines, SendsTo(h, accept),
               told' = [told EXCEPT !.sent = @ \cup {h}],
               pinnedHosts' \in {pinnedHosts, pinnedHosts \cup {h}}
        PROVE  FlowInv'
    <3>1. h \in told.confirmed
      BY <2>1, <2>3, FlowAssumption DEF SendsTo, MaySend, AcceptedAreConfirmed, Confirmed
    <3>2. /\ told' \in Histories
          /\ told'.sent = told.sent \cup {h} /\ told'.confirmed = told.confirmed
          /\ told'.lastPoll = told.lastPoll /\ told'.tooSoon = told.tooSoon
          /\ told'.stale = told.stale
      BY <2>3 DEF FlowTypes, Histories
    <3>3. FlowTypes'
      BY <2>1, <2>3, <3>2 DEF FlowTypes
    <3>4. AcceptedAreConfirmed' /\ PollIsLater'
      BY <2>1, <2>3, <3>1, <3>2 DEF AcceptedAreConfirmed, Confirmed, PollIsLater
    <3> QED
      BY <3>1, <3>2, <3>3, <3>4 DEF CredentialsGoToKnownHosts, PollsAreSpaced, NoStaleToken
  <2> QED
    BY <2>1, <2>2, <2>3
<1>2. CASE ForgetsHost
  <2>1. /\ pinnedHosts' \subseteq pinnedHosts
        /\ told' = [told EXCEPT !.flows = @ + 1]
        /\ UNCHANGED <<wall, flow, browser, code, connecting>>
    BY <1>2 DEF ForgetsHost
  <2>2. /\ told' \in Histories
        /\ told'.sent = told.sent /\ told'.confirmed = told.confirmed
        /\ told'.lastPoll = told.lastPoll /\ told'.tooSoon = told.tooSoon
        /\ told'.stale = told.stale
    BY <2>1 DEF FlowTypes, Histories
  <2>3. FlowTypes' /\ AcceptedAreConfirmed' /\ PollIsLater'
    BY <2>1, <2>2 DEF FlowTypes, AcceptedAreConfirmed, Confirmed, PollIsLater
  <2> QED
    BY <2>2, <2>3 DEF CredentialsGoToKnownHosts, PollsAreSpaced, NoStaleToken
<1>3. CASE WallClock
  <2>1. /\ wall' = wall + 1
        /\ UNCHANGED <<pinnedHosts, flow, browser, code, connecting, told>>
    BY <1>3 DEF WallClock
  <2>2. FlowTypes' /\ AcceptedAreConfirmed' /\ PollIsLater'
    BY <2>1 DEF FlowTypes, AcceptedAreConfirmed, Confirmed, PollIsLater
  <2> QED
    BY <2>1, <2>2 DEF CredentialsGoToKnownHosts, PollsAreSpaced, NoStaleToken
<1> QED
  BY <1>1, <1>2, <1>3

\* Whatever machine answers, a credential goes to a host the user confirmed, the
\* provider is not polled too soon and no token of an attempt that is over signs in
\* (SignInFlow.kt, oidc.rs, connect_account).
THEOREM FlowsAreSound ==
    FlowSpec => [](CredentialsGoToKnownHosts /\ PollsAreSpaced /\ NoStaleToken)
<1>1. FlowInit => FlowInv
  BY FlowStarts
<1>2. FlowInv /\ [FlowNext]_flowVars => FlowInv'
  <2> SUFFICES ASSUME FlowInv, [FlowNext]_flowVars PROVE FlowInv'
    OBVIOUS
  <2>1. CASE FlowNext
    BY <2>1, DialogsKeep, BrowserKeeps, CodeKeeps, ConnectionKeeps DEF FlowNext
  <2>2. CASE UNCHANGED flowVars
    BY <2>2 DEF flowVars, FlowInv, FlowTypes, AcceptedAreConfirmed, Confirmed, PollIsLater,
       CredentialsGoToKnownHosts, PollsAreSpaced, NoStaleToken
  <2> QED
    BY <2>1, <2>2
<1>3. FlowInv => CredentialsGoToKnownHosts /\ PollsAreSpaced /\ NoStaleToken
  BY DEF FlowInv
<1> QED
  BY <1>1, <1>2, <1>3, PTL DEF FlowSpec

-----------------------------------------------------------------------------
(* Tokens at the host.                                                      *)

\* A device's sign-in; what its account is does not matter here.
IsSignIn(r) ==
    /\ r = [phase |-> r.phase, credential |-> r.credential, account |-> r.account]
    /\ r.phase \in {"none", "checking", "verified", "accepted"}
    /\ r.credential \in Credentials \cup {[method |-> "none"]}
    /\ r.phase = "verified" => r.credential \in [method : {"oidc"}, token : Tokens]

AccountShapes ==
    /\ clock \in Nat
    /\ signIn = [d \in Devices |-> signIn[d]]
    /\ \A d \in Devices : IsSignIn(signIn[d])
    /\ seen = [failures |-> seen.failures, by |-> seen.by, signIns |-> seen.signIns,
               settings |-> seen.settings]
    /\ seen.by \in [Tokens -> SUBSET Devices]
    /\ seen.settings \in Nat

\* A device has a token's account, or is about to: its check came back with it.
Holds(r, t) == r.phase = "accepted" /\ r.credential = [method |-> "oidc", token |-> t]
Claims(d, t) == d \in seen.by[t] \/ Holds(signIn[d], t)

\* While they are remembered, a token claimed is among those used, and one device
\* claims it.
Remembrance(t) == [token |-> t, until |-> EXPIRES]

TokensAreUsedOnce ==
    Remembers =>
      /\ used \subseteq {Remembrance(t) : t \in Tokens}
      /\ \A t \in Tokens, d \in Devices : Claims(d, t) => Remembrance(t) \in used
      /\ \A t \in Tokens, d \in Devices, e \in Devices : Claims(d, t) /\ Claims(e, t) => d = e

TokenInv == AccountShapes /\ TokensAreUsedOnce

\* Nothing remembered is forgotten while it matters.
LEMMA NothingForgotten ==
    ASSUME TokenInv, Remembers
    PROVE  Remembered = used
<1>1. \A e \in used : e.until = EXPIRES
  BY DEF TokenInv, TokensAreUsedOnce, Remembrance
<1>2. EXPIRES + LEEWAY > clock
  BY AccountsAssumption DEF Remembers, TokenInv, AccountShapes
<1> QED
  BY <1>1, <1>2 DEF Remembered

\* A step after which no device claims a token it did not claim.
LEMMA NoNewClaim ==
    ASSUME TokenInv, AccountShapes', used' = used, Remembers' => Remembers,
           \A t \in Tokens, d \in Devices : Claims(d, t)' => Claims(d, t)
    PROVE  TokenInv'
<1>1. TokensAreUsedOnce'
  BY DEF TokenInv, TokensAreUsedOnce
<1> QED
  BY <1>1 DEF TokenInv

\* Once settings changed or the host was killed nothing is said of tokens any more.
LEMMA SettingsChanged ==
    ASSUME TokenInv, Change, clock' = clock,
           signIn' = signIn \/ signIn' = [d \in Devices |-> NoSignIn]
    PROVE  TokenInv'
<1>1. /\ seen' = [seen EXCEPT !.settings = seen.settings + 1]
      /\ seen = [failures |-> seen.failures, by |-> seen.by, signIns |-> seen.signIns,
                 settings |-> seen.settings]
      /\ seen.settings \in Nat
  BY DEF Change, TokenInv, AccountShapes
<1>2. PICK n : n = seen.settings + 1
  OBVIOUS
<1>3. seen' = [failures |-> seen.failures, by |-> seen.by, signIns |-> seen.signIns,
               settings |-> n]
  BY <1>1, <1>2
<1>4. n \in Nat /\ n # 0
  BY <1>1, <1>2
<1>5. IsSignIn(NoSignIn)
  BY DEF IsSignIn, NoSignIn
<1>6. signIn' = [d \in Devices |-> signIn'[d]] /\ \A d \in Devices : IsSignIn(signIn'[d])
  BY <1>5 DEF TokenInv, AccountShapes
<1>7. AccountShapes'
  BY <1>3, <1>4, <1>6 DEF TokenInv, AccountShapes, IsSignIn
<1>8. ~ Remembers'
  BY <1>3, <1>4 DEF Remembers
<1> QED
  BY <1>7, <1>8 DEF TokenInv, TokensAreUsedOnce

\* A step of d's sign-in: it changes its own record, and failures or counts.
OwnStep(d, r) ==
    /\ signIn' = [signIn EXCEPT ![d] = r]
    /\ clock' = clock
    /\ \E f, n : seen' = [seen EXCEPT !.failures = f, !.signIns = n]

\* What such a step leaves as it was.
LEMMA OwnShapes ==
    ASSUME TokenInv, NEW d \in Devices, NEW r, IsSignIn(r), OwnStep(d, r)
    PROVE  /\ AccountShapes' /\ seen'.by = seen.by /\ Remembers' = Remembers
           /\ signIn'[d] = r
           /\ \A e \in Devices : e # d => signIn'[e] = signIn[e]
<1>1. PICK f, n : seen' = [seen EXCEPT !.failures = f, !.signIns = n]
  BY DEF OwnStep
<1>2. seen' = [failures |-> f, by |-> seen.by, signIns |-> n, settings |-> seen.settings]
  BY <1>1 DEF TokenInv, AccountShapes
<1>3. /\ signIn = [e \in Devices |-> signIn[e]]
      /\ \A e \in Devices : IsSignIn(signIn[e])
      /\ signIn' = [signIn EXCEPT ![d] = r]
  BY DEF TokenInv, AccountShapes, OwnStep
<1>4. /\ signIn' = [e \in Devices |-> signIn'[e]]
      /\ signIn'[d] = r
      /\ \A e \in Devices : e # d => signIn'[e] = signIn[e]
  BY <1>3
<1>5. \A e \in Devices : IsSignIn(signIn'[e])
  BY <1>3, <1>4
<1>6. clock' = clock
  BY DEF OwnStep
<1>7. AccountShapes'
  BY <1>2, <1>4, <1>5, <1>6 DEF TokenInv, AccountShapes, IsSignIn
<1>8. Remembers' = Remembers
  BY <1>2, <1>6 DEF Remembers
<1> QED
  BY <1>2, <1>4, <1>7, <1>8

\* Such a step adds no claim when d's record holds no token.
LEMMA OwnStepKeeps ==
    ASSUME TokenInv, NEW d \in Devices, NEW r, IsSignIn(r), OwnStep(d, r), used' = used,
           \A t \in Tokens : ~ Holds(r, t)
    PROVE  TokenInv'
<1>1. /\ AccountShapes' /\ seen'.by = seen.by /\ Remembers' = Remembers
      /\ signIn'[d] = r
      /\ \A e \in Devices : e # d => signIn'[e] = signIn[e]
  BY OwnShapes
<1>2. \A t \in Tokens, e \in Devices : Claims(e, t)' => Claims(e, t)
  BY <1>1 DEF Claims, Holds
<1> QED
  BY <1>1, <1>2, NoNewClaim

\* A sign-in that is refused, or given up.
LEMMA RefusalIsOwn ==
    ASSUME TokenInv, NEW d \in Devices, Refuses(d), clock' = clock
    PROVE  OwnStep(d, NoSignIn)
<1>1. PICK f : f = Append(seen.failures, clock)
  OBVIOUS
<1>2. seen' = [seen EXCEPT !.failures = f]
  BY <1>1 DEF Refuses
<1>3. seen' = [seen EXCEPT !.failures = f, !.signIns = seen.signIns]
  BY <1>2 DEF TokenInv, AccountShapes
<1> QED
  BY <1>3 DEF Refuses, OwnStep

\* A device that does not sign in holds no token.
LEMMA NoSignInHoldsNone ==
    IsSignIn(NoSignIn) /\ \A t \in Tokens : ~ Holds(NoSignIn, t)
BY DEF IsSignIn, NoSignIn, Holds

\* A sign-in begins with a credential nobody has looked at.
LEMMA StartsKeeps ==
    ASSUME TokenInv, NEW d \in Devices, StartsSignIn(d)
    PROVE  TokenInv'
<1>1. PICK credential \in Credentials :
         signIn' = [signIn EXCEPT ![d] = [NoSignIn EXCEPT !.phase = "checking",
                                                         !.credential = credential]]
  BY DEF StartsSignIn
<1>2. PICK r : r = [phase |-> "checking", credential |-> credential, account |-> NoAccount]
  OBVIOUS
<1>3. PICK n : n = seen.signIns + 1
  OBVIOUS
<1>4. seen' = [seen EXCEPT !.signIns = n] /\ UNCHANGED <<clock, used>>
  BY <1>3 DEF StartsSignIn
<1>5. seen' = [seen EXCEPT !.failures = seen.failures, !.signIns = n]
  BY <1>4 DEF TokenInv, AccountShapes
<1>6. OwnStep(d, r)
  <2>1. [NoSignIn EXCEPT !.phase = "checking", !.credential = credential] = r
    <3>1. PICK q : q = NoSignIn
      OBVIOUS
    <3>2. PICK p : p = [phase |-> "checking", credential |-> q.credential, account |-> NoAccount]
      OBVIOUS
    <3>3. [q EXCEPT !.phase = "checking"] = p
      BY <3>1, <3>2 DEF NoSignIn
    <3>4. [q EXCEPT !.phase = "checking", !.credential = credential] = [p EXCEPT !.credential = credential]
      <4>1. [q EXCEPT !.phase = "checking", !.credential = credential]
              = [[q EXCEPT !.phase = "checking"] EXCEPT !.credential = credential]
        OBVIOUS
      <4> QED
        BY <3>3, <4>1
    <3>5. [p EXCEPT !.credential = credential] = r
      BY <1>2, <3>2
    <3> QED
      BY <3>1, <3>4, <3>5
  <2>2. signIn' = [signIn EXCEPT ![d] = r]
    BY <1>1, <2>1
  <2> QED
    BY <1>4, <1>5, <2>2, Zenon DEF OwnStep
<1>7. IsSignIn(r) /\ \A t \in Tokens : ~ Holds(r, t)
  BY <1>2 DEF IsSignIn, Holds
<1> QED
  BY <1>4, <1>6, <1>7, OwnStepKeeps

\* A check that came back with an account.
Accepted(d, account) ==
    [phase |-> "accepted", credential |-> signIn[d].credential, account |-> account]

\* What it makes of the sign-in.
LEMMA AcceptedIs ==
    ASSUME TokenInv, NEW d \in Devices, NEW account,
           signIn' = [signIn EXCEPT ![d].phase = "accepted", ![d].account = account]
    PROVE  signIn' = [signIn EXCEPT ![d] = Accepted(d, account)]
<1>1. PICK q : q = signIn[d]
  OBVIOUS
<1>2. q = [phase |-> q.phase, credential |-> q.credential, account |-> q.account]
  BY <1>1 DEF TokenInv, AccountShapes, IsSignIn
<1>3. [q EXCEPT !.phase = "accepted", !.account = account] = Accepted(d, account)
  <2>1. PICK p : p = [phase |-> "accepted", credential |-> q.credential, account |-> q.account]
    OBVIOUS
  <2>2. [q EXCEPT !.phase = "accepted"] = p
    BY <1>2, <2>1
  <2>3. [q EXCEPT !.phase = "accepted", !.account = account] = [p EXCEPT !.account = account]
    <3>1. [q EXCEPT !.phase = "accepted", !.account = account]
            = [[q EXCEPT !.phase = "accepted"] EXCEPT !.account = account]
      OBVIOUS
    <3> QED
      BY <2>2, <3>1
  <2>4. [p EXCEPT !.account = account] = Accepted(d, account)
    BY <1>1, <2>1 DEF Accepted
  <2> QED
    BY <2>3, <2>4
<1>4. signIn = [e \in Devices |-> signIn[e]]
  BY DEF TokenInv, AccountShapes
<1>5. signIn' = [signIn EXCEPT ![d] = [q EXCEPT !.phase = "accepted", !.account = account]]
  BY <1>1, <1>4
<1> QED
  BY <1>3, <1>5

\* Gate::check comes back.
LEMMA AcceptanceIsOwn ==
    ASSUME TokenInv, NEW d \in Devices, NEW account, AcceptsOrRefuses(d, account),
           clock' = clock
    PROVE  OwnStep(d, NoSignIn) \/ OwnStep(d, Accepted(d, account))
<1>1. CASE Refuses(d)
  BY <1>1, RefusalIsOwn
<1>2. CASE /\ signIn' = [signIn EXCEPT ![d].phase = "accepted", ![d].account = account]
           /\ UNCHANGED seen
  <2>6. signIn' = [signIn EXCEPT ![d] = Accepted(d, account)]
    BY <1>2, AcceptedIs
  <2>7. seen' = [seen EXCEPT !.failures = seen.failures, !.signIns = seen.signIns]
    BY <1>2 DEF TokenInv, AccountShapes
  <2> QED
    BY <2>6, <2>7, Zenon DEF OwnStep
<1> QED
  BY <1>1, <1>2 DEF AcceptsOrRefuses

\* What it leaves is a sign-in.
LEMMA AcceptedIsSignIn ==
    ASSUME TokenInv, NEW d \in Devices, NEW account
    PROVE  IsSignIn(Accepted(d, account))
<1>1. IsSignIn(signIn[d])
  BY DEF TokenInv, AccountShapes
<1> QED
  BY <1>1 DEF IsSignIn, Accepted

\* A password claims no token.
LEMMA PasswordKeeps ==
    ASSUME TokenInv, NEW d \in Devices, ChecksPassword(d)
    PROVE  TokenInv'
<1>1. /\ signIn[d].credential.method = "password"
      /\ UNCHANGED <<clock, used>>
      /\ Refuses(d) \/ \E account : AcceptsOrRefuses(d, account)
  BY DEF ChecksPassword
<1>2. \A account : \A t \in Tokens : ~ Holds(Accepted(d, account), t)
  BY <1>1 DEF Holds, Accepted
<1>3. CASE Refuses(d)
  BY <1>1, <1>3, RefusalIsOwn, NoSignInHoldsNone, OwnStepKeeps
<1>4. ASSUME NEW account, AcceptsOrRefuses(d, account) PROVE TokenInv'
  <2>1. CASE OwnStep(d, NoSignIn)
    BY <1>1, <2>1, NoSignInHoldsNone, OwnStepKeeps
  <2>2. CASE OwnStep(d, Accepted(d, account))
    <3>1. PICK r : r = Accepted(d, account)
      OBVIOUS
    <3>2. IsSignIn(r) /\ OwnStep(d, r)
      BY <2>2, <3>1, AcceptedIsSignIn, Zenon
    <3>3. \A t \in Tokens : ~ Holds(r, t)
      BY <1>2, <3>1, Zenon
    <3> QED
      BY <1>1, <3>2, <3>3, OwnStepKeeps
  <2> QED
    BY <1>1, <1>4, <2>1, <2>2, AcceptanceIsOwn
<1> QED
  BY <1>1, <1>3, <1>4

\* A token verified is not used yet.
LEMMA VerifiesKeeps ==
    ASSUME TokenInv, NEW d \in Devices, VerifiesToken(d)
    PROVE  TokenInv'
<1>1. /\ signIn[d].phase = "checking" /\ signIn[d].credential.method = "oidc"
      /\ UNCHANGED <<clock, used>>
      /\ \/ Refuses(d)
         \/ signIn' = [signIn EXCEPT ![d].phase = "verified"] /\ UNCHANGED seen
  BY DEF VerifiesToken
<1>2. CASE Refuses(d)
  BY <1>1, <1>2, RefusalIsOwn, NoSignInHoldsNone, OwnStepKeeps
<1>3. CASE signIn' = [signIn EXCEPT ![d].phase = "verified"] /\ UNCHANGED seen
  <2>1. PICK r : r = [phase |-> "verified", credential |-> signIn[d].credential,
                      account |-> signIn[d].account]
    OBVIOUS
  <2>2. IsSignIn(signIn[d]) /\ signIn = [e \in Devices |-> signIn[e]]
    BY DEF TokenInv, AccountShapes
  <2>3. signIn' = [signIn EXCEPT ![d] = r]
    <3>1. PICK q : q = signIn[d]
      OBVIOUS
    <3>2. q = [phase |-> q.phase, credential |-> q.credential, account |-> q.account]
      BY <2>2, <3>1 DEF IsSignIn
    <3>3. [q EXCEPT !.phase = "verified"] = r
      BY <2>1, <3>1, <3>2
    <3>4. signIn' = [signIn EXCEPT ![d] = [q EXCEPT !.phase = "verified"]]
      BY <1>3, <2>2, <3>1
    <3> QED
      BY <3>3, <3>4
  <2>4. seen' = [seen EXCEPT !.failures = seen.failures, !.signIns = seen.signIns]
    BY <1>3 DEF TokenInv, AccountShapes
  <2>5. OwnStep(d, r)
    BY <1>1, <2>3, <2>4 DEF OwnStep
  <2>6. signIn[d].credential \in [method : {"oidc"}, token : Tokens]
    BY <1>1, <2>2 DEF IsSignIn, Credentials
  <2>7. IsSignIn(r) /\ \A t \in Tokens : ~ Holds(r, t)
    BY <2>1, <2>6 DEF IsSignIn, Holds, Credentials
  <2> QED
    BY <1>1, <2>5, <2>7, OwnStepKeeps
<1> QED
  BY <1>1, <1>2, <1>3

\* use_once: a token that is not remembered was claimed by nobody.
LEMMA UsesKeeps ==
    ASSUME TokenInv, NEW d \in Devices, UsesToken(d)
    PROVE  TokenInv'
<1>1. PICK t : t = signIn[d].credential.token
  OBVIOUS
<1>2. /\ IsSignIn(signIn[d]) /\ signIn[d].phase = "verified"
      /\ signIn[d].credential = [method |-> "oidc", token |-> t] /\ t \in Tokens
  BY <1>1 DEF UsesToken, TokenInv, AccountShapes, IsSignIn
<1>3. UNCHANGED clock
  BY DEF UsesToken
<1>4. CASE used' = Remembered /\ Refuses(d)
  <2>1. OwnStep(d, NoSignIn) /\ IsSignIn(NoSignIn)
    BY <1>3, <1>4, RefusalIsOwn, NoSignInHoldsNone
  <2>2. /\ AccountShapes' /\ seen'.by = seen.by /\ Remembers' = Remembers
        /\ signIn'[d] = NoSignIn
        /\ \A e \in Devices : e # d => signIn'[e] = signIn[e]
    BY <2>1, OwnShapes
  <2>3. Remembers => used' = used
    BY <1>4, NothingForgotten
  <2>4. \A u \in Tokens, e \in Devices : Claims(e, u)' => Claims(e, u)
    BY <2>2, NoSignInHoldsNone DEF Claims
  <2> QED
    BY <2>2, <2>3, <2>4 DEF TokenInv, TokensAreUsedOnce
<1>5. CASE /\ ~ \E e \in Remembered : e.token = t
           /\ used' = Remembered \cup {Remembrance(t)}
           /\ AcceptsOrRefuses(d, OidcAccount(t))
  <2>1. PICK account : account = OidcAccount(t)
    OBVIOUS
  <2>2. PICK r \in {NoSignIn, Accepted(d, account)} : OwnStep(d, r) /\ IsSignIn(r)
    BY <1>3, <1>5, <2>1, AcceptanceIsOwn, AcceptedIsSignIn, NoSignInHoldsNone
  <2>3. /\ AccountShapes' /\ seen'.by = seen.by /\ Remembers' = Remembers
        /\ signIn'[d] = r
        /\ \A e \in Devices : e # d => signIn'[e] = signIn[e]
    BY <2>2, OwnShapes
  <2>4. \A u \in Tokens : Holds(r, u) => u = t
    BY <1>2, <2>2, NoSignInHoldsNone DEF Holds, Accepted
  <2>5. \A u \in Tokens, e \in Devices : Claims(e, u)' => Claims(e, u) \/ (u = t /\ e = d)
    BY <2>3, <2>4 DEF Claims
  <2>6. ASSUME Remembers' PROVE TokensAreUsedOnce'
    <3>1. Remembers /\ Remembered = used
      BY <2>3, <2>6, NothingForgotten
    <3>2. used' = used \cup {Remembrance(t)}
      BY <1>5, <3>1
    <3>3. Remembrance(t) \notin used
      BY <1>5, <3>1 DEF Remembrance
    <3>4. \A e \in Devices : ~ Claims(e, t)
      BY <1>2, <3>1, <3>3 DEF TokenInv, TokensAreUsedOnce
    <3> QED
      BY <1>2, <2>5, <3>1, <3>2, <3>4 DEF TokenInv, TokensAreUsedOnce
  <2> QED
    BY <2>3, <2>6 DEF TokenInv, TokensAreUsedOnce
<1> QED
  BY <1>1, <1>4, <1>5 DEF UsesToken, Remembrance

\* A client that never came to the end claims nothing any more.
LEMMA GivenUpKeeps ==
    ASSUME TokenInv, NEW d \in Devices, SignInGivenUp(d)
    PROVE  TokenInv'
<1>1. UNCHANGED <<clock, used, seen>> /\ signIn' = [signIn EXCEPT ![d] = NoSignIn]
  BY DEF SignInGivenUp
<1>2. seen' = [seen EXCEPT !.failures = seen.failures, !.signIns = seen.signIns]
  BY <1>1 DEF TokenInv, AccountShapes
<1>3. OwnStep(d, NoSignIn)
  BY <1>1, <1>2 DEF OwnStep
<1> QED
  BY <1>1, <1>3, NoSignInHoldsNone, OwnStepKeeps

\* establish: the device that is registered is the one that held the token.
LEMMA SignedInKeeps ==
    ASSUME TokenInv, NEW d \in Devices, SignedIn(d)
    PROVE  TokenInv'
<1>1. PICK c : c = signIn[d].credential
  OBVIOUS
<1>2. /\ signIn[d].phase = "accepted" /\ UNCHANGED <<clock, used>>
      /\ signIn' = [signIn EXCEPT ![d] = NoSignIn]
      /\ IsSignIn(signIn[d]) /\ c \in Credentials \cup {[method |-> "none"]}
  BY <1>1 DEF SignedIn, TokenInv, AccountShapes, IsSignIn
<1>3. CASE c.method = "oidc"
  <2>1. PICK t \in Tokens : c = [method |-> "oidc", token |-> t]
    BY <1>2, <1>3 DEF Credentials
  <2>2. seen' = [seen EXCEPT !.by[t] = @ \cup {d}]
    BY <1>1, <1>3, <2>1 DEF SignedIn
  <2>3. PICK by : by = [seen.by EXCEPT ![t] = seen.by[t] \cup {d}]
    OBVIOUS
  <2>4. seen' = [failures |-> seen.failures, by |-> by, signIns |-> seen.signIns,
                 settings |-> seen.settings]
    BY <2>2, <2>3 DEF TokenInv, AccountShapes
  <2>5. by \in [Tokens -> SUBSET Devices]
    BY <2>3 DEF TokenInv, AccountShapes
  <2>6. /\ signIn' = [e \in Devices |-> signIn'[e]] /\ signIn'[d] = NoSignIn
        /\ \A e \in Devices : e # d => signIn'[e] = signIn[e]
    BY <1>2 DEF TokenInv, AccountShapes
  <2>7. \A e \in Devices : IsSignIn(signIn'[e])
    BY <2>6, NoSignInHoldsNone DEF TokenInv, AccountShapes
  <2>8. AccountShapes'
    BY <1>2, <2>4, <2>5, <2>6, <2>7 DEF TokenInv, AccountShapes, IsSignIn
  <2>9. Holds(signIn[d], t)
    BY <1>1, <1>2, <2>1 DEF Holds
  <2>10. \A u \in Tokens, e \in Devices : Claims(e, u)' => Claims(e, u)
    <3>1. \A u \in Tokens : seen'.by[u] = IF u = t THEN seen.by[t] \cup {d} ELSE seen.by[u]
      BY <2>3, <2>4 DEF TokenInv, AccountShapes
    <3> QED
      BY <2>6, <2>9, <3>1, NoSignInHoldsNone DEF Claims
  <2>11. Remembers' => Remembers
    BY <1>2, <2>4 DEF Remembers
  <2> QED
    BY <1>2, <2>8, <2>10, <2>11, NoNewClaim
<1>4. CASE c.method # "oidc"
  <2>1. seen' = seen
    BY <1>1, <1>4 DEF SignedIn
  <2>2. seen' = [seen EXCEPT !.failures = seen.failures, !.signIns = seen.signIns]
    BY <2>1 DEF TokenInv, AccountShapes
  <2>3. OwnStep(d, NoSignIn)
    BY <1>2, <2>2 DEF OwnStep
  <2> QED
    BY <1>2, <2>3, NoSignInHoldsNone, OwnStepKeeps
<1> QED
  BY <1>3, <1>4

\* A step of the sessions or of the clock.
LEMMA OthersKeep ==
    ASSUME TokenInv, UNCHANGED <<used, signIn, seen>>, clock' = clock \/ clock' = clock + 1
    PROVE  TokenInv'
<1>1. AccountShapes'
  BY DEF TokenInv, AccountShapes, IsSignIn
<1>2. Remembers' => Remembers
  BY AccountsAssumption DEF Remembers, TokenInv, AccountShapes
<1>3. \A t \in Tokens, d \in Devices : Claims(d, t)' => Claims(d, t)
  BY DEF Claims, Holds
<1> QED
  BY <1>1, <1>2, <1>3, NoNewClaim

\* Every step keeps the invariant.
LEMMA TokenStep ==
    ASSUME TokenInv, [AccountsNext]_accountVars
    PROVE  TokenInv'
<1>1. ASSUME NEW d \in Devices,
             \/ StartsSignIn(d) \/ ChecksPassword(d) \/ VerifiesToken(d)
             \/ UsesToken(d) \/ SignInGivenUp(d) \/ SignedIn(d)
      PROVE  TokenInv'
  BY <1>1, StartsKeeps, PasswordKeeps, VerifiesKeeps, UsesKeeps, GivenUpKeeps, SignedInKeeps
<1>2. ASSUME NEW d \in Devices, Resumes(d) \/ SessionOver(d)
      PROVE  TokenInv'
  BY <1>2, OthersKeep DEF Resumes, SessionOver
<1>3. ASSUME NEW d \in Devices, Unregister(d) \/ LimitDevice(d)
      PROVE  TokenInv'
  BY <1>3, SettingsChanged DEF Unregister, LimitDevice
<1>4. ASSUME NEW user \in Users,
             RemoveAccount(user) \/ \E password \in Passwords : AddAccount(user, password)
      PROVE  TokenInv'
  BY <1>4, SettingsChanged DEF RemoveAccount, AddAccount
<1>5. CASE SetAccounts \/ ProviderRotates \/ HostRestarts
  BY <1>5, SettingsChanged DEF SetAccounts, ProviderRotates, HostRestarts
<1>6. CASE Clock \/ UNCHANGED accountVars
  BY <1>6, OthersKeep DEF Clock, accountVars
<1> QED
  BY <1>1, <1>2, <1>3, <1>4, <1>5, <1>6 DEF AccountsNext

\* No device claims anything when the host starts.
LEMMA TokensStart == AccountsInit => TokenInv
<1> SUFFICES ASSUME AccountsInit PROVE TokenInv
  OBVIOUS
<1>1. /\ clock = 0 /\ used = {} /\ signIn = [d \in Devices |-> NoSignIn]
      /\ seen = [failures |-> <<>>, by |-> [t \in Tokens |-> {}], signIns |-> 0, settings |-> 0]
  BY DEF AccountsInit
<1>2. AccountShapes
  BY <1>1, NoSignInHoldsNone DEF AccountShapes
<1>3. \A t \in Tokens, d \in Devices : ~ Claims(d, t)
  BY <1>1, NoSignInHoldsNone DEF Claims
<1> QED
  BY <1>1, <1>2, <1>3 DEF TokenInv, TokensAreUsedOnce

\* A token registers one device, however sign-ins overlap, until the last second it
\* is valid (Verifier::use_once).
THEOREM OneDeviceForAToken == AccountsSpec => []TokenRegistersOneDevice
<1>1. AccountsInit => TokenInv
  BY TokensStart
<1>2. TokenInv /\ [AccountsNext]_accountVars => TokenInv'
  BY TokenStep
<1>3. TokenInv => TokenRegistersOneDevice
  <2> SUFFICES ASSUME TokenInv, Remembers, NEW t \in Tokens PROVE Cardinality(seen.by[t]) <= 1
    BY DEF TokenRegistersOneDevice
  <2>1. seen.by[t] \subseteq Devices /\ \A d, e \in seen.by[t] : d = e
    BY DEF TokenInv, AccountShapes, TokensAreUsedOnce, Claims
  <2>2. CASE seen.by[t] = {}
    BY <2>2, FS_EmptySet
  <2>3. CASE seen.by[t] # {}
    <3>1. PICK d \in seen.by[t] : seen.by[t] = {d}
      BY <2>1, <2>3
    <3>2. Cardinality({d}) = 1
      BY FS_Singleton
    <3> QED
      BY <3>1, <3>2
  <2> QED
    BY <2>2, <2>3
<1> QED
  BY <1>1, <1>2, <1>3, PTL DEF AccountsSpec

-----------------------------------------------------------------------------
(* Guesses at the host.  The throttle counts failures in groups: a group     *)
(* ends after the last failure it may count, with a pause, or with time.     *)

\* The most failures a stretch of time as long as the pause sees.
Handful == 2 * MAX_SIGN_IN_FAILURES - 1 + Cardinality(Devices) - 1

\* Failures f until now; the throttle's count, the start of its group and the end
\* of its pause; and how many checks are still to come back.
GroupIsCounted(f, count, since, until) ==
    /\ count > 0 => count <= Len(f) /\ since = f[Len(f) - count + 1]
    /\ count = 0 => since = Never
    /\ count = 0 /\ Len(f) > 0 => until >= f[Len(f)] + SIGN_IN_LOCKOUT

\* Since a failure that is still within the stretch there was a pause, which the
\* checks under way do not exceed, or the last two groups.
FewSince(f, i, count, until, checks) ==
    \/ /\ until >= f[i] + SIGN_IN_LOCKOUT
       /\ Len(f) - i + 1 + checks <= Handful
    \/ /\ until < f[i] + SIGN_IN_LOCKOUT
       /\ Len(f) - i + 1 <= MAX_SIGN_IN_FAILURES - 1 + count

FewFailures(f) ==
    \A i, j \in DOMAIN f :
        i <= j /\ f[j] < f[i] + SIGN_IN_LOCKOUT => j - i + 1 <= Handful

Tally(f, now, count, since, until, checks) ==
    /\ \A i, j \in DOMAIN f : i <= j => f[i] <= f[j]
    /\ \A i \in DOMAIN f : f[i] <= now
    /\ GroupIsCounted(f, count, since, until)
    /\ \A i \in DOMAIN f : now < f[i] + SIGN_IN_LOCKOUT => FewSince(f, i, count, until, checks)
    /\ FewFailures(f)

Guessing == {d \in Devices : signIn[d].phase \in {"checking", "verified"}}

ThrottleTypes ==
    /\ throttle = [count |-> throttle.count, since |-> throttle.since, until |-> throttle.until]
    /\ throttle.count \in 0..MAX_SIGN_IN_FAILURES - 1
    /\ throttle.since \in Int /\ throttle.until \in Nat
    /\ seen.failures \in Seq(Nat)

GuessInv ==
    seen.settings = 0 =>
      /\ ThrottleTypes
      /\ Tally(seen.failures, clock, throttle.count, throttle.since, throttle.until,
               Cardinality(Guessing))

LEMMA HandfulIsNat ==
    /\ Cardinality(Devices) \in Nat /\ Handful \in Int
    /\ Handful >= 2 * MAX_SIGN_IN_FAILURES - 2 + Cardinality(Devices)
    /\ MAX_SIGN_IN_FAILURES \in Nat /\ MAX_SIGN_IN_FAILURES >= 1
    /\ SIGN_IN_LOCKOUT \in Nat /\ Never \in Int /\ Never + SIGN_IN_LOCKOUT < 0
<1>1. Cardinality(Devices) \in Nat
  BY AccountsAssumption, FS_CardinalityType
<1>2. PICK n \in Nat : n = Cardinality(Devices)
  BY <1>1
<1> QED
  BY <1>2, AccountsAssumption DEF Handful, Never

\* Fewer checks under way, or time that passes, change nothing.
LEMMA TallyStays ==
    ASSUME NEW f \in Seq(Nat), NEW now \in Nat, NEW count \in Nat, NEW since \in Int,
           NEW until \in Nat, NEW checks \in Nat,
           Tally(f, now, count, since, until, checks),
           NEW later \in Nat, later >= now, NEW fewer \in Nat, fewer <= checks
    PROVE  Tally(f, later, count, since, until, fewer)
<1>1. \A i \in DOMAIN f : i \in Nat /\ f[i] \in Nat /\ f[i] <= now
  BY DEF Tally
<1>2. Len(f) \in Nat
  OBVIOUS
<1>3. ASSUME NEW i \in DOMAIN f, later < f[i] + SIGN_IN_LOCKOUT
      PROVE  FewSince(f, i, count, until, fewer)
  <2>1. now < f[i] + SIGN_IN_LOCKOUT
    BY <1>1, <1>3, HandfulIsNat
  <2>2. FewSince(f, i, count, until, checks)
    BY <2>1 DEF Tally
  <2>3. PICK n \in Int, most \in Int, lock \in Nat, limit \in Nat :
          /\ n = Len(f) - i + 1 /\ most = Handful
          /\ lock = SIGN_IN_LOCKOUT /\ limit = MAX_SIGN_IN_FAILURES
    BY <1>1, <1>2, HandfulIsNat
  <2>4. n + checks <= most => n + fewer <= most
    BY <2>3
  <2> QED
    BY <2>2, <2>3, <2>4 DEF FewSince
<1>4. \A i \in DOMAIN f : f[i] <= later
  BY <1>1
<1> QED
  BY <1>3, <1>4 DEF Tally

\* Sign-ins begin only when there is no pause.
LEMMA TallyStarts ==
    ASSUME NEW f \in Seq(Nat), NEW now \in Nat, NEW count \in Nat, NEW since \in Int,
           NEW until \in Nat, NEW checks \in Nat,
           Tally(f, now, count, since, until, checks), until <= now
    PROVE  Tally(f, now, count, since, until, checks + 1)
<1>1. \A i \in DOMAIN f : i \in Nat /\ f[i] \in Nat
  OBVIOUS
<1>2. ASSUME NEW i \in DOMAIN f, now < f[i] + SIGN_IN_LOCKOUT
      PROVE  FewSince(f, i, count, until, checks + 1)
  <2>1. FewSince(f, i, count, until, checks)
    BY <1>2 DEF Tally
  <2>2. until < f[i] + SIGN_IN_LOCKOUT
    BY <1>1, <1>2, HandfulIsNat
  <2>3. ~ until >= f[i] + SIGN_IN_LOCKOUT
    BY <1>1, <2>2, HandfulIsNat
  <2> QED
    BY <2>1, <2>2, <2>3, Zenon DEF FewSince
<1> QED
  BY <1>2 DEF Tally

\* What a failure makes of the throttle: one more, the first of a group, or a pause.
OneMore(now, count, since, until, count2, since2, until2) ==
    /\ now - since <= SIGN_IN_LOCKOUT /\ count + 1 < MAX_SIGN_IN_FAILURES
    /\ count2 = count + 1 /\ since2 = since /\ until2 = until

FirstOne(now, count, since, until, count2, since2, until2) ==
    /\ now - since > SIGN_IN_LOCKOUT /\ 1 < MAX_SIGN_IN_FAILURES
    /\ count2 = 1 /\ since2 = now /\ until2 = until

OneTooMany(now, count, since, until, count2, since2, until2) ==
    /\ \/ now - since <= SIGN_IN_LOCKOUT /\ count + 1 >= MAX_SIGN_IN_FAILURES
       \/ now - since > SIGN_IN_LOCKOUT /\ 1 >= MAX_SIGN_IN_FAILURES
    /\ count2 = 0 /\ since2 = Never /\ until2 = now + SIGN_IN_LOCKOUT

\* The arithmetic of one failure more, and one check less.
LEMMA OneForAnother ==
    ASSUME NEW n \in Int, NEW i \in Int, NEW checks \in Int, NEW most \in Int,
           n - i + 1 + checks <= most
    PROVE  (n + 1) - i + 1 + (checks - 1) <= most
OBVIOUS

LEMMA TwoGroups ==
    ASSUME NEW n \in Int, NEW i \in Int, NEW checks \in Int, NEW most \in Int,
           NEW limit \in Int, NEW count \in Int, NEW devices \in Int,
           n - i + 1 <= limit - 1 + count, count <= limit - 1, checks <= devices,
           most >= 2 * limit - 2 + devices
    PROVE  (n + 1) - i + 1 + (checks - 1) <= most
<1>1. (n + 1) - i + 1 + (checks - 1) = (n - i + 1) + checks
  OBVIOUS
<1>2. n - i + 1 <= 2 * limit - 2
  OBVIOUS
<1> QED
  BY <1>1, <1>2

LEMMA WithoutChecks ==
    ASSUME NEW k \in Int, NEW checks \in Nat, NEW most \in Int, k + checks <= most
    PROVE  k <= most
OBVIOUS

LEMMA NotAfter ==
    /\ \A x, y, lock, until \in Int : x <= y /\ until < x + lock => ~ until >= y + lock
    /\ \A x, y \in Int : x < y => ~ y <= x
    /\ Nat \subseteq Int
OBVIOUS

\* A failure is counted, and the check that failed is under way no more.
LEMMA TallyFails ==
    ASSUME NEW f \in Seq(Nat), NEW now \in Nat, NEW count \in Nat, NEW since \in Int,
           NEW until \in Nat, NEW checks \in Nat, count < MAX_SIGN_IN_FAILURES,
           Tally(f, now, count, since, until, checks),
           checks >= 1, checks <= Cardinality(Devices),
           NEW count2 \in Nat, NEW since2 \in Int, NEW until2 \in Nat,
           \/ OneMore(now, count, since, until, count2, since2, until2)
           \/ FirstOne(now, count, since, until, count2, since2, until2)
           \/ OneTooMany(now, count, since, until, count2, since2, until2)
    PROVE  Tally(Append(f, now), now, count2, since2, until2, checks - 1)
<1>1. PICK g : g = Append(f, now)
  OBVIOUS
<1>2. PICK n \in Nat : n = Len(f)
  OBVIOUS
<1>3. /\ g \in Seq(Nat) /\ Len(g) = n + 1 /\ DOMAIN f = 1..n /\ DOMAIN g = 1..n + 1
      /\ g[n + 1] = now /\ \A i \in 1..n : g[i] = f[i] /\ f[i] \in Nat
  <2>1. g \in Seq(Nat) /\ Len(g) = n + 1
    BY <1>1, <1>2
  <2>2. DOMAIN f = 1..n /\ DOMAIN g = 1..n + 1
    BY <1>2, <2>1
  <2>3. \A i \in 1..n : g[i] = f[i]
    BY <1>1, <1>2
  <2>4. \A i \in 1..n : f[i] \in Nat
    BY <1>2
  <2>5. g[n + 1] = now
    BY <1>1, <1>2
  <2> QED
    BY <2>1, <2>2, <2>3, <2>4, <2>5
<1>4. PICK limit \in Nat : limit = MAX_SIGN_IN_FAILURES /\ limit >= 1
  BY HandfulIsNat
<1>5. PICK lock \in Nat : lock = SIGN_IN_LOCKOUT
  BY HandfulIsNat
<1>6. PICK most \in Int, devices \in Nat :
        most = Handful /\ devices = Cardinality(Devices) /\ most >= 2 * limit - 2 + devices
  BY <1>4, HandfulIsNat
<1>7. /\ \A i, j \in 1..n : i <= j => f[i] <= f[j]
      /\ \A i \in 1..n : f[i] <= now
  BY <1>3 DEF Tally
<1>8. /\ \A i, j \in DOMAIN g : i <= j => g[i] <= g[j]
      /\ \A i \in DOMAIN g : g[i] <= now
  <2>1. \A i \in 1..n + 1 : i \in 1..n \/ i = n + 1
    OBVIOUS
  <2>2. \A i \in 1..n + 1 : g[i] <= now
    BY <2>1, <1>3, <1>7
  <2>3. \A i, j \in 1..n + 1 : i <= j => g[i] <= g[j]
    <3> SUFFICES ASSUME NEW i \in 1..n + 1, NEW j \in 1..n + 1, i <= j PROVE g[i] <= g[j]
      OBVIOUS
    <3>1. CASE j = n + 1
      BY <3>1, <2>2, <1>3
    <3>2. CASE i \in 1..n /\ j \in 1..n
      <4>1. g[i] = f[i] /\ g[j] = f[j]
        BY <3>2, <1>3
      <4> QED
        BY <4>1, <3>2, <1>7
    <3> QED
      BY <3>1, <3>2, <2>1
  <2> QED
    BY <1>3, <2>2, <2>3
<1>13. /\ \A i, c, u, k : FewSince(f, i, c, u, k) <=>
            \/ u >= f[i] + lock /\ n - i + 1 + k <= most
            \/ u < f[i] + lock /\ n - i + 1 <= limit - 1 + c
       /\ \A i, c, u, k : FewSince(g, i, c, u, k) <=>
            \/ u >= g[i] + lock /\ (n + 1) - i + 1 + k <= most
            \/ u < g[i] + lock /\ (n + 1) - i + 1 <= limit - 1 + c
  <2>1. Len(f) = n /\ Len(g) = n + 1 /\ SIGN_IN_LOCKOUT = lock /\ Handful = most
        /\ MAX_SIGN_IN_FAILURES = limit
    BY <1>2, <1>3, <1>4, <1>5, <1>6
  <2> QED
    BY <2>1, Zenon DEF FewSince
<1>14. checks - 1 \in Nat /\ checks <= devices /\ count <= limit - 1
  BY <1>4, <1>6
<1>15. \/ /\ now - since <= lock /\ count + 1 < limit
          /\ count2 = count + 1 /\ since2 = since /\ until2 = until
       \/ /\ now - since > lock /\ 1 < limit
          /\ count2 = 1 /\ since2 = now /\ until2 = until
       \/ /\ \/ now - since <= lock /\ count + 1 >= limit
             \/ now - since > lock /\ 1 >= limit
          /\ count2 = 0 /\ since2 = Never /\ until2 = now + lock
  BY <1>4, <1>5 DEF OneMore, FirstOne, OneTooMany
<1>16. count2 <= limit - 1 /\ (until2 = until \/ until2 = now + lock)
  BY <1>4, <1>14, <1>15
<1>17. /\ \A i \in 1..n : i \in Nat /\ 1 <= i /\ i <= n
       /\ \A i \in 1..n + 1 : i \in Nat /\ 1 <= i /\ i <= n + 1
  OBVIOUS
<1>9. /\ count > 0 => count <= n /\ since = f[n - count + 1]
      /\ count = 0 => since = Never
      /\ count = 0 /\ n > 0 => until >= f[n] + lock
  BY <1>2, <1>5 DEF Tally, GroupIsCounted
<1>10. GroupIsCounted(g, count2, since2, until2)
  <2>1. CASE OneMore(now, count, since, until, count2, since2, until2)
    <3>1. count > 0
      BY <2>1, <1>9, HandfulIsNat DEF OneMore
    <3>2. Len(g) - count2 + 1 = n - count + 1 /\ n - count + 1 \in 1..n
      BY <2>1, <3>1, <1>3, <1>9 DEF OneMore
    <3> QED
      BY <2>1, <3>1, <3>2, <1>3, <1>9 DEF OneMore, GroupIsCounted
  <2>2. CASE FirstOne(now, count, since, until, count2, since2, until2)
    BY <2>2, <1>3 DEF FirstOne, GroupIsCounted
  <2>3. CASE OneTooMany(now, count, since, until, count2, since2, until2)
    BY <2>3, <1>3, <1>5 DEF OneTooMany, GroupIsCounted
  <2> QED
    BY <2>1, <2>2, <2>3
<1>11. ASSUME NEW i \in DOMAIN g, now < g[i] + SIGN_IN_LOCKOUT
       PROVE  FewSince(g, i, count2, until2, checks - 1)
  <2>1. CASE i = n + 1
    <3>1. g[i] = now /\ (n + 1) - i + 1 = 1
      BY <2>1, <1>3
    <3>2. 1 + (checks - 1) <= most
      BY <1>4, <1>6, <1>14
    <3>3. until2 < now + lock => 1 <= limit - 1 + count2
      BY <1>4, <1>5, <1>15
    <3>4. \/ until2 >= g[i] + lock /\ (n + 1) - i + 1 + (checks - 1) <= most
          \/ until2 < g[i] + lock /\ (n + 1) - i + 1 <= limit - 1 + count2
      BY <3>1, <3>2, <3>3, <1>5
    <3> QED
      BY <3>4, <1>13
  <2>2. CASE i \in 1..n
    <3>1. g[i] = f[i] /\ f[i] \in Nat /\ now < f[i] + lock /\ f[i] <= now
      BY <2>2, <1>3, <1>5, <1>7, <1>11
    <3>2. FewSince(f, i, count, until, checks)
      BY <2>2, <3>1, <1>3, <1>5 DEF Tally
    <3>3. CASE until >= f[i] + lock
      <4>1. n - i + 1 + checks <= most
        <5>1. ~ until < f[i] + lock
          BY <3>1, <3>3, <1>5
        <5> QED
          BY <3>2, <5>1, <1>13, Zenon
      <4>2. until2 >= f[i] + lock
        <5>1. now + lock >= f[i] + lock
          BY <3>1, <1>5
        <5> QED
          BY <3>3, <5>1, <1>16
      <4>3. (n + 1) - i + 1 + (checks - 1) <= most
        <5>1. i \in Nat
          BY <2>2, <1>17
        <5>2. n \in Int /\ i \in Int /\ checks \in Int /\ most \in Int
          BY <5>1
        <5> QED
          BY <4>1, <5>2, OneForAnother
      <4> QED
        BY <4>2, <4>3, <3>1, <1>13
    <3>4. CASE until < f[i] + lock
      <4>1. n - i + 1 <= limit - 1 + count
        <5>1. ~ until >= f[i] + lock
          BY <3>1, <3>4, <1>5
        <5> QED
          BY <3>2, <5>1, <1>13
      <4>2. count > 0
        <5>1. n \in 1..n /\ i <= n
          BY <2>2
        <5>2. f[i] <= f[n] /\ f[n] \in Nat
          BY <2>2, <5>1, <1>3, <1>7
        <5>3. ~ until >= f[n] + lock
          <6>1. f[i] \in Int /\ f[n] \in Int /\ lock \in Int /\ until \in Int
            BY <5>2, <3>1
          <6> QED
            BY <5>2, <6>1, <3>4, NotAfter
        <5>4. count # 0
          BY <5>1, <5>3, <1>9
        <5> QED
          BY <5>4
      <4>3. CASE count2 = count + 1 /\ until2 = until
        <5>1. until2 < g[i] + lock
          BY <4>3, <3>1, <3>4
        <5>2. (n + 1) - i + 1 <= limit - 1 + count2
          BY <4>1, <4>3, <2>2, <1>4
        <5> QED
          BY <5>1, <5>2, <1>13
      <4>4. CASE until2 = now + lock /\ count2 = 0
        <5>1. until2 >= g[i] + lock
          BY <4>4, <3>1, <1>5
        <5>2. (n + 1) - i + 1 + (checks - 1) <= most
          <6>1. i \in Int /\ n \in Int /\ checks \in Int /\ limit \in Int /\ devices \in Int /\ count \in Int
            BY <2>2, <1>17
          <6>2. most >= 2 * limit - 2 + devices
            BY <1>6
          <6>3. count <= limit - 1 /\ checks <= devices
            BY <1>14
          <6> QED
            BY <4>1, <6>1, <6>2, <6>3, TwoGroups
        <5> QED
          BY <5>1, <5>2, <1>13
      <4>5. CASE now - since > lock /\ count2 = 1 /\ until2 = until
        <5>1. f[n - count + 1] < f[i]
          BY <4>2, <4>5, <3>1, <1>5, <1>9
        <5>2. n - count + 1 < i
          <6>1. n - count + 1 \in 1..n
            BY <4>2, <1>9
          <6>2. f[n - count + 1] \in Nat
            BY <6>1, <1>3
          <6>3. ~ i <= n - count + 1
            <7>1. PICK k \in 1..n : k = n - count + 1
              BY <6>1
            <7>2. f[k] \in Nat /\ f[k] < f[i]
              BY <7>1, <5>1, <6>2
            <7>3. i <= k => f[i] <= f[k]
              BY <2>2, <1>7
            <7>4. ~ f[i] <= f[k]
              BY <7>2, <3>1, NotAfter
            <7> QED
              BY <7>1, <7>3, <7>4
          <6> QED
            BY <6>1, <6>3, <2>2
        <5>3. (n + 1) - i + 1 <= limit - 1 + count2
          BY <5>2, <4>5, <2>2, <1>4, <1>14
        <5>4. until2 < g[i] + lock
          BY <4>5, <3>1, <3>4
        <5> QED
          BY <5>3, <5>4, <1>13
      <4> QED
        BY <4>3, <4>4, <4>5, <1>15
    <3>5. until >= f[i] + lock \/ until < f[i] + lock
      BY <3>1, <1>5
    <3> QED
      BY <3>3, <3>4, <3>5
  <2>3. i \in 1..n + 1
    BY <1>3
  <2> QED
    BY <2>1, <2>2, <2>3
<1>12. FewFailures(g)
  <2> SUFFICES ASSUME NEW i \in DOMAIN g, NEW j \in DOMAIN g, i <= j,
                      g[j] < g[i] + SIGN_IN_LOCKOUT
               PROVE  j - i + 1 <= Handful
    BY DEF FewFailures
  <2>1. CASE j \in 1..n
    <3>1. i \in 1..n
      BY <2>1, <1>3
    <3>2. g[i] = f[i] /\ g[j] = f[j] /\ i \in DOMAIN f /\ j \in DOMAIN f
      BY <2>1, <3>1, <1>3
    <3>3. FewFailures(f)
      BY DEF Tally
    <3> QED
      BY <3>2, <3>3 DEF FewFailures
  <2>2. CASE j = n + 1
    <3>1. FewSince(g, i, count2, until2, checks - 1)
      BY <2>2, <1>3, <1>11
    <3>2. count2 <= limit - 1 /\ i \in Nat
      BY <1>3, <1>16, <1>17
    <3>3. CASE (n + 1) - i + 1 + (checks - 1) <= most
      <4>1. PICK k \in Int : k = (n + 1) - i + 1
        BY <3>2
      <4>2. k <= most
        BY <3>3, <4>1, <1>6, <1>14, WithoutChecks
      <4> QED
        BY <2>2, <4>1, <4>2, <1>6
    <3>4. CASE (n + 1) - i + 1 <= limit - 1 + count2
      <4>1. PICK k \in Int : k = (n + 1) - i + 1
        BY <3>2
      <4>2. k <= limit - 1 + (limit - 1)
        BY <3>2, <3>4, <4>1, <1>4
      <4>3. k <= most
        BY <4>2, <1>4, <1>6
      <4> QED
        BY <2>2, <4>1, <4>3, <1>6
    <3> QED
      BY <3>1, <3>3, <3>4, <1>13
  <2> QED
    BY <2>1, <2>2, <1>3
<1> QED
  BY <1>1, <1>8, <1>10, <1>11, <1>12 DEF Tally

\* FailedSignIn does one of the three.
LEMMA FailureCounts ==
    ASSUME ThrottleTypes, clock \in Nat, FailedSignIn
    PROVE  /\ throttle' = [count |-> throttle'.count, since |-> throttle'.since,
                           until |-> throttle'.until]
           /\ throttle'.count \in 0..MAX_SIGN_IN_FAILURES - 1
           /\ throttle'.since \in Int /\ throttle'.until \in Nat
           /\ \/ OneMore(clock, throttle.count, throttle.since, throttle.until,
                         throttle'.count, throttle'.since, throttle'.until)
              \/ FirstOne(clock, throttle.count, throttle.since, throttle.until,
                          throttle'.count, throttle'.since, throttle'.until)
              \/ OneTooMany(clock, throttle.count, throttle.since, throttle.until,
                            throttle'.count, throttle'.since, throttle'.until)
<1>1. PICK count, since, until : throttle = [count |-> count, since |-> since, until |-> until]
  BY DEF ThrottleTypes
<1>2. count \in 0..MAX_SIGN_IN_FAILURES - 1 /\ since \in Int /\ until \in Nat
  BY <1>1 DEF ThrottleTypes
<1>3. PICK failed : /\ throttle' = Counted(failed)
                    /\ failed = IF clock - since > SIGN_IN_LOCKOUT
                                THEN [count |-> 1, since |-> clock, until |-> until]
                                ELSE [count |-> count + 1, since |-> since, until |-> until]
  <2>1. PICK began : /\ began = IF WindowOver THEN [throttle EXCEPT !.count = 0, !.since = clock]
                                ELSE throttle
                     /\ throttle' = Counted([began EXCEPT !.count = @ + 1])
    BY DEF FailedSignIn
  <2>2. CASE clock - since > SIGN_IN_LOCKOUT
    <3>1. began = [count |-> 0, since |-> clock, until |-> until]
      BY <2>1, <2>2, <1>1 DEF WindowOver
    <3>2. [began EXCEPT !.count = @ + 1] = [count |-> 1, since |-> clock, until |-> until]
      BY <3>1
    <3> QED
      BY <2>1, <2>2, <3>2
  <2>3. CASE ~ clock - since > SIGN_IN_LOCKOUT
    <3>1. began = throttle
      BY <2>1, <2>3, <1>1 DEF WindowOver
    <3>2. [began EXCEPT !.count = @ + 1] = [count |-> count + 1, since |-> since, until |-> until]
      BY <3>1, <1>1
    <3> QED
      BY <2>1, <2>3, <3>2
  <2> QED
    BY <2>2, <2>3
<1>4. MAX_SIGN_IN_FAILURES \in Nat /\ MAX_SIGN_IN_FAILURES >= 1 /\ SIGN_IN_LOCKOUT \in Nat /\ Never \in Int
  BY HandfulIsNat
<1>5. CASE failed.count >= MAX_SIGN_IN_FAILURES
  <2>1. throttle' = [count |-> 0, since |-> Never, until |-> clock + SIGN_IN_LOCKOUT]
    BY <1>3, <1>5 DEF Counted
  <2> QED
    BY <2>1, <1>1, <1>2, <1>3, <1>4, <1>5 DEF OneTooMany
<1>6. CASE ~ failed.count >= MAX_SIGN_IN_FAILURES
  <2>1. throttle' = failed
    BY <1>3, <1>6 DEF Counted
  <2>2. CASE clock - since > SIGN_IN_LOCKOUT
    <3>1. failed = [count |-> 1, since |-> clock, until |-> until]
      BY <2>2, <1>3
    <3> QED
      BY <2>1, <2>2, <3>1, <1>1, <1>2, <1>4, <1>6 DEF FirstOne
  <2>3. CASE ~ clock - since > SIGN_IN_LOCKOUT
    <3>1. failed = [count |-> count + 1, since |-> since, until |-> until]
      BY <2>3, <1>3
    <3> QED
      BY <2>1, <2>3, <3>1, <1>1, <1>2, <1>4, <1>6 DEF OneMore
  <2> QED
    BY <2>2, <2>3
<1> QED
  BY <1>5, <1>6

\* Who is being checked after a step of d's sign-in.
LEMMA GuessingAfter ==
    ASSUME TokenInv, NEW d \in Devices, NEW r, signIn' = [signIn EXCEPT ![d] = r]
    PROVE  /\ r.phase \in {"checking", "verified"} => Guessing' = Guessing \cup {d}
           /\ r.phase \notin {"checking", "verified"} => Guessing' = Guessing \ {d}
<1>1. signIn'[d] = r /\ \A e \in Devices : e # d => signIn'[e] = signIn[e]
  BY DEF TokenInv, AccountShapes
<1> QED
  BY <1>1 DEF Guessing

LEMMA GuessingIsFinite ==
    /\ IsFiniteSet(Guessing) /\ Cardinality(Guessing) \in Nat
    /\ Cardinality(Guessing) <= Cardinality(Devices)
<1>1. Guessing \subseteq Devices
  BY DEF Guessing
<1> QED
  BY <1>1, AccountsAssumption, FS_Subset, FS_CardinalityType

\* A step in which nothing fails and no check begins.
LEMMA GuessesStay ==
    ASSUME TokenInv, GuessInv, clock' = clock \/ clock' = clock + 1, throttle' = throttle,
           seen'.failures = seen.failures, seen'.settings = seen.settings,
           Guessing' \subseteq Guessing
    PROVE  GuessInv'
<1> SUFFICES ASSUME seen'.settings = 0
             PROVE  /\ ThrottleTypes'
                    /\ Tally(seen.failures, clock', throttle.count, throttle.since, throttle.until,
                             Cardinality(Guessing'))
  BY DEF GuessInv
<1>1. /\ ThrottleTypes
      /\ Tally(seen.failures, clock, throttle.count, throttle.since, throttle.until,
               Cardinality(Guessing))
  BY DEF GuessInv
<1>2. ThrottleTypes'
  BY <1>1 DEF ThrottleTypes
<1>3. clock \in Nat /\ clock' \in Nat /\ clock' >= clock
  BY DEF TokenInv, AccountShapes
<1>4. /\ Cardinality(Guessing) \in Nat /\ Cardinality(Guessing') \in Nat
      /\ Cardinality(Guessing') <= Cardinality(Guessing)
  BY GuessingIsFinite, FS_Subset, FS_CardinalityType
<1>5. /\ throttle.count \in Nat /\ throttle.since \in Int /\ throttle.until \in Nat
      /\ seen.failures \in Seq(Nat)
  BY <1>1, HandfulIsNat DEF ThrottleTypes
<1> QED
  BY <1>1, <1>2, <1>3, <1>4, <1>5, TallyStays

\* The check of a device fails.
LEMMA RefusalIsCounted ==
    ASSUME TokenInv, GuessInv, NEW d \in Devices, signIn[d].phase \in {"checking", "verified"},
           Refuses(d), clock' = clock
    PROVE  GuessInv'
<1>1. PICK f : f = Append(seen.failures, clock)
  OBVIOUS
<1>2. seen' = [seen EXCEPT !.failures = f]
  BY <1>1 DEF Refuses
<1>3. seen'.failures = f /\ seen'.settings = seen.settings
  BY <1>2 DEF TokenInv, AccountShapes
<1> SUFFICES ASSUME seen.settings = 0
             PROVE  /\ ThrottleTypes'
                    /\ Tally(f, clock, throttle'.count, throttle'.since, throttle'.until,
                             Cardinality(Guessing'))
  BY <1>3 DEF GuessInv
<1>4. /\ ThrottleTypes
      /\ Tally(seen.failures, clock, throttle.count, throttle.since, throttle.until,
               Cardinality(Guessing))
  BY DEF GuessInv
<1>5. clock \in Nat
  BY DEF TokenInv, AccountShapes
<1>6. FailedSignIn
  BY DEF Refuses
<1>7. /\ throttle' = [count |-> throttle'.count, since |-> throttle'.since,
                      until |-> throttle'.until]
      /\ throttle'.count \in 0..MAX_SIGN_IN_FAILURES - 1
      /\ throttle'.since \in Int /\ throttle'.until \in Nat
      /\ \/ OneMore(clock, throttle.count, throttle.since, throttle.until,
                    throttle'.count, throttle'.since, throttle'.until)
         \/ FirstOne(clock, throttle.count, throttle.since, throttle.until,
                     throttle'.count, throttle'.since, throttle'.until)
         \/ OneTooMany(clock, throttle.count, throttle.since, throttle.until,
                       throttle'.count, throttle'.since, throttle'.until)
  BY <1>4, <1>5, <1>6, FailureCounts
<1>8. Guessing' = Guessing \ {d} /\ d \in Guessing
  <2>1. NoSignIn.phase = "none" /\ signIn' = [signIn EXCEPT ![d] = NoSignIn]
    BY DEF NoSignIn, Refuses
  <2> QED
    BY <2>1, GuessingAfter DEF Guessing
<1>9. /\ Cardinality(Guessing') = Cardinality(Guessing) - 1 /\ Cardinality(Guessing) \in Nat
      /\ Cardinality(Guessing) <= Cardinality(Devices) /\ Cardinality(Guessing') \in Nat
  BY <1>8, GuessingIsFinite, FS_RemoveElement, FS_CardinalityType
<1>10. /\ throttle.count \in Nat /\ throttle.count < MAX_SIGN_IN_FAILURES
       /\ throttle.since \in Int /\ throttle.until \in Nat /\ seen.failures \in Seq(Nat)
       /\ throttle'.count \in Nat
  BY <1>4, <1>7, HandfulIsNat DEF ThrottleTypes
<1>11. Tally(Append(seen.failures, clock), clock, throttle'.count, throttle'.since, throttle'.until,
             Cardinality(Guessing) - 1)
  <2>1. Cardinality(Guessing) >= 1
    BY <1>9
  <2> QED
    BY <1>4, <1>5, <1>7, <1>9, <1>10, <2>1, TallyFails
<1>12. f \in Seq(Nat)
  BY <1>1, <1>5, <1>10
<1> QED
  BY <1>1, <1>3, <1>7, <1>9, <1>11, <1>12 DEF ThrottleTypes

\* Every step keeps it.
LEMMA GuessStep ==
    ASSUME TokenInv, TokenInv', GuessInv, [AccountsNext]_accountVars
    PROVE  GuessInv'
<1>1. ASSUME NEW d \in Devices, StartsSignIn(d) PROVE GuessInv'
  <2>1. PICK r : r.phase = "checking" /\ signIn' = [signIn EXCEPT ![d] = r]
    BY <1>1 DEF StartsSignIn, NoSignIn
  <2>2. Guessing' = Guessing \cup {d} /\ d \notin Guessing
    BY <1>1, <2>1, GuessingAfter DEF Guessing, StartsSignIn
  <2>3. Cardinality(Guessing') = Cardinality(Guessing) + 1 /\ Cardinality(Guessing) \in Nat
    BY <2>2, GuessingIsFinite, FS_AddElement
  <2>4. seen'.failures = seen.failures /\ seen'.settings = seen.settings
    <3>1. PICK n : n = seen.signIns + 1
      OBVIOUS
    <3>2. seen' = [seen EXCEPT !.signIns = n]
      BY <1>1, <3>1 DEF StartsSignIn
    <3> QED
      BY <3>2 DEF TokenInv, AccountShapes
  <2>5. clock \in Nat /\ UNCHANGED <<clock, throttle>> /\ ~ clock < throttle.until
    BY <1>1 DEF StartsSignIn, Locked, TokenInv, AccountShapes
  <2> SUFFICES ASSUME seen.settings = 0
               PROVE  /\ ThrottleTypes'
                      /\ Tally(seen.failures, clock, throttle.count, throttle.since, throttle.until,
                               Cardinality(Guessing'))
    BY <2>4, <2>5 DEF GuessInv
  <2>6. /\ ThrottleTypes
        /\ Tally(seen.failures, clock, throttle.count, throttle.since, throttle.until,
                 Cardinality(Guessing))
    BY DEF GuessInv
  <2>7. /\ throttle.count \in Nat /\ throttle.since \in Int /\ throttle.until \in Nat
        /\ seen.failures \in Seq(Nat) /\ throttle.until <= clock
    BY <2>5, <2>6, HandfulIsNat DEF ThrottleTypes
  <2>8. Tally(seen.failures, clock, throttle.count, throttle.since, throttle.until,
              Cardinality(Guessing) + 1)
    BY <2>3, <2>5, <2>6, <2>7, TallyStarts
  <2> QED
    BY <2>3, <2>4, <2>5, <2>6, <2>8 DEF ThrottleTypes
<1>2. ASSUME NEW d \in Devices, NEW account, AcceptsOrRefuses(d, account), clock' = clock,
             signIn[d].phase \in {"checking", "verified"}
      PROVE  GuessInv'
  <2>1. CASE Refuses(d)
    BY <1>2, <2>1, RefusalIsCounted
  <2>2. CASE /\ UNCHANGED <<throttle, seen>>
             /\ signIn' = [signIn EXCEPT ![d].phase = "accepted", ![d].account = account]
    <3>1. signIn' = [signIn EXCEPT ![d] = Accepted(d, account)]
      BY <2>2, AcceptedIs
    <3>3. Accepted(d, account).phase = "accepted"
      BY DEF Accepted
    <3>2. Guessing' \subseteq Guessing
      BY <3>1, <3>3, GuessingAfter
    <3> QED
      BY <1>2, <2>2, <3>2, GuessesStay
  <2> QED
    BY <1>2, <2>1, <2>2 DEF AcceptsOrRefuses
<1>3. ASSUME NEW d \in Devices, ChecksPassword(d) PROVE GuessInv'
  <2>1. UNCHANGED clock /\ signIn[d].phase = "checking"
    BY <1>3 DEF ChecksPassword
  <2>2. Refuses(d) \/ \E account : AcceptsOrRefuses(d, account)
    BY <1>3 DEF ChecksPassword
  <2> QED
    BY <1>2, <2>1, <2>2, RefusalIsCounted
<1>4. ASSUME NEW d \in Devices, VerifiesToken(d) PROVE GuessInv'
  <2>1. UNCHANGED clock /\ signIn[d].phase = "checking"
    BY <1>4 DEF VerifiesToken
  <2>2. CASE UNCHANGED <<throttle, seen>> /\ signIn' = [signIn EXCEPT ![d].phase = "verified"]
    <3>1. PICK r : r = [signIn[d] EXCEPT !.phase = "verified"]
      OBVIOUS
    <3>2. signIn' = [signIn EXCEPT ![d] = r] /\ r.phase = "verified"
      BY <2>2, <3>1 DEF TokenInv, AccountShapes, IsSignIn
    <3>3. Guessing' = Guessing
      BY <2>1, <3>2, GuessingAfter DEF Guessing
    <3> QED
      BY <2>1, <2>2, <3>3, GuessesStay
  <2>3. Refuses(d) \/ (UNCHANGED <<throttle, seen>> /\ signIn' = [signIn EXCEPT ![d].phase = "verified"])
    BY <1>4 DEF VerifiesToken
  <2> QED
    BY <2>1, <2>2, <2>3, RefusalIsCounted
<1>5. ASSUME NEW d \in Devices, UsesToken(d) PROVE GuessInv'
  <2>1. UNCHANGED clock /\ signIn[d].phase = "verified"
    BY <1>5 DEF UsesToken
  <2>2. Refuses(d) \/ \E account : AcceptsOrRefuses(d, account)
    BY <1>5 DEF UsesToken
  <2> QED
    BY <1>2, <2>1, <2>2, RefusalIsCounted
<1>6. ASSUME NEW d \in Devices, signIn' = [signIn EXCEPT ![d] = NoSignIn],
             UNCHANGED <<clock, throttle>>, seen'.failures = seen.failures,
             seen'.settings = seen.settings
      PROVE  GuessInv'
  <2>1. NoSignIn.phase = "none"
    BY DEF NoSignIn
  <2>2. Guessing' \subseteq Guessing
    BY <1>6, <2>1, GuessingAfter
  <2> QED
    BY <1>6, <2>2, GuessesStay
<1>7. ASSUME NEW d \in Devices, SignInGivenUp(d) PROVE GuessInv'
  BY <1>6, <1>7 DEF SignInGivenUp
<1>8. ASSUME NEW d \in Devices, SignedIn(d) PROVE GuessInv'
  <2>1. PICK t, c : t = signIn[d].credential.token /\ c = signIn[d].credential.method
    OBVIOUS
  <2>2. seen' = IF c = "oidc" THEN [seen EXCEPT !.by[t] = @ \cup {d}] ELSE seen
    BY <1>8, <2>1 DEF SignedIn
  <2>3. seen'.failures = seen.failures /\ seen'.settings = seen.settings
    BY <2>2 DEF TokenInv, AccountShapes
  <2> QED
    BY <1>6, <1>8, <2>3 DEF SignedIn
<1>9. ASSUME UNCHANGED <<throttle, signIn, seen>>, clock' = clock \/ clock' = clock + 1
      PROVE  GuessInv'
  <2>1. Guessing' = Guessing
    BY <1>9 DEF Guessing
  <2> QED
    BY <1>9, <2>1, GuessesStay
<1>10. ASSUME NEW d \in Devices, Resumes(d) \/ SessionOver(d) PROVE GuessInv'
  BY <1>9, <1>10 DEF Resumes, SessionOver
<1>11. ASSUME Change PROVE GuessInv'
  <2>1. PICK n : n = seen.settings + 1
    OBVIOUS
  <2>2. seen' = [seen EXCEPT !.settings = n] /\ n # 0
    BY <1>11, <2>1 DEF Change, TokenInv, AccountShapes
  <2>3. seen'.settings # 0
    BY <2>2 DEF TokenInv, AccountShapes
  <2> QED
    BY <2>3 DEF GuessInv
<1>12. ASSUME NEW d \in Devices, Unregister(d) \/ LimitDevice(d) PROVE GuessInv'
  BY <1>11, <1>12 DEF Unregister, LimitDevice
<1>13. ASSUME NEW user \in Users,
              RemoveAccount(user) \/ \E password \in Passwords : AddAccount(user, password)
       PROVE  GuessInv'
  BY <1>11, <1>13 DEF RemoveAccount, AddAccount
<1>14. CASE SetAccounts \/ ProviderRotates \/ HostRestarts
  BY <1>11, <1>14 DEF SetAccounts, ProviderRotates, HostRestarts
<1>15. CASE Clock \/ UNCHANGED accountVars
  BY <1>9, <1>15 DEF Clock, accountVars
<1> QED
  BY <1>1, <1>3, <1>4, <1>5, <1>7, <1>8, <1>10, <1>12, <1>13, <1>14, <1>15 DEF AccountsNext

\* A set of numbers has a least one.
LEMMA LeastOf ==
    ASSUME NEW S, S \subseteq Nat, S # {}
    PROVE  \E i \in S : \A j \in S : i <= j
<1>1. PICK R : R = OpToRel(<, Nat)
  OBVIOUS
<1>2. PICK i \in S : \A j \in S : ~ (<<j, i>> \in R)
  <2>1. IsWellFoundedOn(R, Nat)
    BY <1>1, NatLessThanWellFounded
  <2> QED
    BY <2>1, WFMin
<1>3. \A j \in S : <<j, i>> \in R <=> j < i
  BY <1>1 DEF OpToRel
<1>4. ASSUME NEW j \in S PROVE i <= j
  <2>1. ~ (j < i)
    BY <1>2, <1>3
  <2>2. i \in Nat /\ j \in Nat
    OBVIOUS
  <2> QED
    BY <2>1, <2>2
<1> QED
  BY <1>4

\* Failures that are few from the first on are few within a stretch of time.
LEMMA HandfulWithin ==
    ASSUME seen.failures \in Seq(Nat),
           \A i, j \in DOMAIN seen.failures : i <= j => seen.failures[i] <= seen.failures[j],
           FewFailures(seen.failures), NEW from \in Nat
    PROVE  FailuresWithin(from) <= Handful
<1>1. PICK f : f = seen.failures
  OBVIOUS
<1>2. PICK n \in Nat : n = Len(f)
  BY <1>1
<1>3. PICK lock \in Nat : lock = SIGN_IN_LOCKOUT
  BY HandfulIsNat
<1>4. PICK S : S = {i \in DOMAIN f : f[i] \in from..from + SIGN_IN_LOCKOUT - 1}
  OBVIOUS
<1>5. /\ DOMAIN f = 1..n /\ \A i \in 1..n : f[i] \in Nat
      /\ \A i : i \in S <=> i \in 1..n /\ f[i] >= from /\ f[i] < from + lock
  <2>1. DOMAIN f = 1..n /\ \A i \in 1..n : f[i] \in Nat
    BY <1>1, <1>2
  <2>2. \A t \in Nat : t \in from..from + lock - 1 <=> t >= from /\ t < from + lock
    BY <1>3
  <2>3. \A i : i \in S <=> i \in 1..n /\ f[i] \in from..from + lock - 1
    BY <2>1, <1>3, <1>4
  <2> QED
    BY <2>1, <2>2, <2>3
<1>6. FailuresWithin(from) = Cardinality(S)
  BY <1>1, <1>4 DEF FailuresWithin
<1>7. CASE S = {}
  <2>1. Cardinality(S) = 0
    BY <1>7, FS_EmptySet
  <2> QED
    BY <1>6, <2>1, HandfulIsNat
<1>8. CASE S # {}
  <2>0. S \subseteq Nat
    BY <1>5
  <2>1. PICK a \in S : \A i \in S : a <= i
    BY <2>0, <1>8, LeastOf
  <2>2. \A j \in S : j - a + 1 <= Handful
    <3> SUFFICES ASSUME NEW j \in S PROVE j - a + 1 <= Handful
      OBVIOUS
    <3>1. a \in 1..n /\ j \in 1..n /\ a <= j /\ f[j] < f[a] + lock
      BY <1>5, <2>1
    <3> QED
      BY <3>1, <1>1, <1>3, <1>5 DEF FewFailures
  <2>3. PICK m \in Int : m = Handful
    BY HandfulIsNat
  <2>4. a \in Nat /\ a >= 1 /\ m >= 1
    BY <1>5, <2>1, <2>2, <2>3
  <2>5. S \subseteq a..(a + m - 1)
    BY <1>5, <2>1, <2>2, <2>3, <2>4
  <2>6. IsFiniteSet(a..(a + m - 1)) /\ Cardinality(a..(a + m - 1)) = m
    BY <2>4, FS_Interval
  <2>7. Cardinality(S) <= m
    BY <2>5, <2>6, FS_Subset
  <2> QED
    BY <1>6, <2>3, <2>7
<1> QED
  BY <1>7, <1>8

\* However the sign-ins of the devices overlap, a stretch of time as long as the pause
\* sees a handful of failures: the throttle is read before a check and counts after it
\* (SignInThrottle, Gate::check).
THEOREM GuessesStayFew == AccountsSpec => []GuessesAreFew
<1>1. AccountsInit => TokenInv /\ GuessInv
  <2> SUFFICES ASSUME AccountsInit PROVE GuessInv
    BY TokensStart
  <2>1. seen.failures = <<>> /\ throttle = [count |-> 0, since |-> Never, until |-> 0]
    BY DEF AccountsInit
  <2>2. ThrottleTypes
    <3>1. <<>> \in Seq(Nat) /\ 0 \in 0..MAX_SIGN_IN_FAILURES - 1
      BY HandfulIsNat
    <3> QED
      BY <2>1, <3>1, HandfulIsNat DEF ThrottleTypes
  <2>3. DOMAIN seen.failures = {} /\ Len(seen.failures) = 0
    BY <2>1
  <2>4. GroupIsCounted(seen.failures, throttle.count, throttle.since, throttle.until)
    BY <2>1, <2>3 DEF GroupIsCounted
  <2> QED
    BY <2>2, <2>3, <2>4 DEF GuessInv, Tally, FewFailures
<1>2. TokenInv /\ GuessInv /\ [AccountsNext]_accountVars => TokenInv' /\ GuessInv'
  BY TokenStep, GuessStep
<1>3. GuessInv => GuessesAreFew
  <2> SUFFICES ASSUME GuessInv, seen.settings = 0, NEW from \in 0..MaxTime
               PROVE  FailuresWithin(from) <= Handful
    BY DEF GuessesAreFew, Handful
  <2>1. from \in Nat
    OBVIOUS
  <2>2. /\ seen.failures \in Seq(Nat)
        /\ \A i, j \in DOMAIN seen.failures : i <= j => seen.failures[i] <= seen.failures[j]
        /\ FewFailures(seen.failures)
    BY DEF GuessInv, ThrottleTypes, Tally
  <2> QED
    BY <2>1, <2>2, HandfulWithin
<1> QED
  BY <1>1, <1>2, <1>3, PTL DEF AccountsSpec

\* Signing in, at both ends: on a host, whatever its devices do, and in a client,
\* whatever its user and the hosts that answer do.
THEOREM SignInsStaySound == AccountsSpec /\ FlowSpec => []SignInsAreSound
<1>1. GuessesAreFew /\ TokenRegistersOneDevice /\ CredentialsGoToKnownHosts /\ PollsAreSpaced
        /\ NoStaleToken => SignInsAreSound
  BY DEF SignInsAreSound
<1> QED
  BY <1>1, GuessesStayFew, OneDeviceForAToken, FlowsAreSound, PTL

-----------------------------------------------------------------------------
(* The pairing of GameStream devices.  Only calls that were begun ask the     *)
(* host, and the PIN of one that was begun no longer changes; a hash the host *)
(* took is of the call whose key the PIN typed for its exchange makes.        *)

Begun(n) == n \in PairCalls /\ pairCall[n].at # "off"

\* Its fields, whatever they are.
IsCall(c) == c \in [dev : {c.dev}, pin : {c.pin}, at : {c.at}, proof : {c.proof}, challenge : {c.challenge}]
CallsTyped ==
    /\ pairCall = [n \in PairCalls |-> pairCall[n]]
    /\ \A n \in PairCalls : IsCall(pairCall[n]) /\ (Begun(n) => pairCall[n].dev \in GameClients)

MessagesOfCalls ==
    /\ \A n, phase : <<n, phase>> \in pairRequests => Begun(n)
    /\ \A a \in pairAnswers : a.call \in PairCalls

IsExchange(p) == p \in [call : {p.call}, cert : {p.cert}, phase : {p.phase}, pin : {p.pin}, hash : {p.hash}]
ExchangeKept(p) ==
    /\ IsExchange(p)
    /\ IF p.phase = "none" THEN p = NoExchange ELSE p.call \in PairCalls
    /\ p.phase = "WaitingForPin" => p.hash = <<>>
    /\ p.hash # <<>> => Begun(p.call) /\ p.pin = pairCall[p.call].pin

ExchangesKept ==
    /\ pendingPair = [u \in UniqueIds |-> pendingPair[u]]
    /\ \A u \in UniqueIds : ExchangeKept(pendingPair[u])

PairIInv == CallsTyped /\ MessagesOfCalls /\ ExchangesKept /\ PinnedByItsPin

LEMMA NothingKept == ExchangeKept(NoExchange)
  BY DEF ExchangeKept, NoExchange, IsExchange

LEMMA PairInitial == GamePairInit => PairIInv
<1> SUFFICES ASSUME GamePairInit PROVE PairIInv
  OBVIOUS
<1>1. CallsTyped
  BY DEF GamePairInit, CallsTyped, IsCall, NoCall, Begun
<1>2. MessagesOfCalls /\ PinnedByItsPin
  BY DEF GamePairInit, MessagesOfCalls, PinnedByItsPin
<1>3. ExchangesKept
  BY NothingKept DEF GamePairInit, ExchangesKept
<1> QED
  BY <1>1, <1>2, <1>3 DEF PairIInv

\* Calls of the client: what begun calls show does not change.
CallsStay ==
    \A n \in PairCalls : Begun(n) => pairCall'[n].at # "off" /\ pairCall'[n].pin = pairCall[n].pin

\* While calls only go on, what the host has is kept.
LEMMA HostStays ==
    ASSUME PairIInv, CallsStay, UNCHANGED <<pendingPair, pairedCerts>>
    PROVE  ExchangesKept' /\ PinnedByItsPin'
<1>1. ASSUME NEW u \in UniqueIds PROVE ExchangeKept(pendingPair[u])'
  <2>1. ExchangeKept(pendingPair[u])
    BY DEF PairIInv, ExchangesKept
  <2>2. PICK p : p = pendingPair[u] /\ p = pendingPair'[u]
    OBVIOUS
  <2>3. p.hash # <<>> => Begun(p.call)' /\ pairCall'[p.call].pin = pairCall[p.call].pin
    BY <2>1, <2>2 DEF ExchangeKept, CallsStay, Begun
  <2> QED
    BY <2>1, <2>2, <2>3 DEF ExchangeKept
<1> QED
  BY <1>1 DEF PairIInv, ExchangesKept, PinnedByItsPin

LEMMA StartKeeps ==
    ASSUME PairIInv, NEW n \in PairCalls, NEW d \in GameClients, NEW chosen \in GamePins, StartPairing(n, d, chosen)
    PROVE  PairIInv'
<1> DEFINE b == [NoCall EXCEPT !.dev = d, !.pin = chosen]
           c == [b EXCEPT !.at = "getservercert"]
<1>1. IsCall(c) /\ c.dev = d /\ c.at = "getservercert"
  <2>1. IsCall(b) /\ b.dev = d
    BY DEF IsCall, NoCall
  <2> HIDE DEF b
  <2> QED
    BY <2>1 DEF IsCall
<1>2. pairCall' = [pairCall EXCEPT ![n] = c] /\ ~Begun(n)
  BY DEF StartPairing, Begun
<1> HIDE DEF b, c
<1>3. CallsTyped' /\ CallsStay /\ Begun(n)'
  BY <1>1, <1>2 DEF PairIInv, CallsTyped, CallsStay, Begun
<1>4. MessagesOfCalls'
  BY <1>3 DEF PairIInv, MessagesOfCalls, StartPairing, CallsStay, Begun
<1> QED
  BY <1>3, <1>4, HostStays DEF PairIInv, StartPairing

LEMMA TakeKeeps ==
    ASSUME PairIInv, NEW a \in pairAnswers, TakePairAnswer(a)
    PROVE  PairIInv'
<1>1. PICK n \in PairCalls : n = a.call
  BY DEF PairIInv, MessagesOfCalls
<1>2. CASE UNCHANGED <<pairCall, pairRequests>>
  <2>1. CallsTyped' /\ CallsStay /\ MessagesOfCalls'
    BY <1>2 DEF PairIInv, CallsTyped, CallsStay, Begun, MessagesOfCalls, TakePairAnswer
  <2> QED
    BY <2>1, HostStays DEF PairIInv, TakePairAnswer
<1>3. ASSUME NEW c, IsCall(c), c.dev = pairCall[n].dev, c.pin = pairCall[n].pin, c.at # "off", Begun(n),
             pairCall' = [pairCall EXCEPT ![n] = c],
             \A m, phase : <<m, phase>> \in pairRequests' => <<m, phase>> \in pairRequests \/ m = n
      PROVE  PairIInv'
  <2>1. CallsTyped' /\ CallsStay /\ Begun(n)'
    BY <1>3 DEF PairIInv, CallsTyped, CallsStay, Begun
  <2>2. MessagesOfCalls'
    BY <1>3, <2>1 DEF PairIInv, MessagesOfCalls, TakePairAnswer, CallsStay, Begun
  <2> QED
    BY <2>1, <2>2, HostStays DEF PairIInv, TakePairAnswer
<1>4. ASSUME Begun(n), NEW phase, NEW call, IsCall(call), call.dev = pairCall[n].dev,
             call.pin = pairCall[n].pin, Asks(n, phase, call), phase # "off"
      PROVE  PairIInv'
  <2> DEFINE c == [call EXCEPT !.at = phase]
  <2>1. IsCall(c) /\ c.dev = call.dev /\ c.pin = call.pin /\ c.at = phase
    BY <1>4 DEF IsCall
  <2>2. pairCall' = [pairCall EXCEPT ![n] = c]
    BY <1>4 DEF Asks
  <2> HIDE DEF c
  <2> QED
    BY <1>3, <1>4, <2>1, <2>2 DEF Asks
<1>5. ASSUME Begun(n), NEW at, at # "off", pairCall' = [pairCall EXCEPT ![n].at = at],
             pairRequests' \in {pairRequests, pairRequests \union {<<n, "unpair">>}}
      PROVE  PairIInv'
  <2> DEFINE c == [pairCall[n] EXCEPT !.at = at]
  <2>1. IsCall(c) /\ c.dev = pairCall[n].dev /\ c.pin = pairCall[n].pin /\ c.at = at
    BY DEF IsCall, PairIInv, CallsTyped
  <2>2. pairCall' = [pairCall EXCEPT ![n] = c]
    BY <1>5
  <2> HIDE DEF c
  <2> QED
    BY <1>3, <1>5, <2>1, <2>2
<1>6. ASSUME Begun(n), Unpairs(n) PROVE PairIInv'
  BY <1>5, <1>6 DEF Unpairs
<1>7. IsCall(pairCall[n])
  BY DEF PairIInv, CallsTyped
<1>8. CASE pairCall[n].at = "getservercert"
  BY <1>1, <1>4, <1>5, <1>7, <1>8 DEF TakePairAnswer, TakeCertificate, Begun
<1>9. CASE pairCall[n].at = "clientchallenge"
  <2>0. PICK c : c = [pairCall[n] EXCEPT !.proof = a.proof, !.challenge = a.challenge]
    OBVIOUS
  <2>1. IsCall(c) /\ c.dev = pairCall[n].dev /\ c.pin = pairCall[n].pin
    BY <1>7, <2>0 DEF IsCall
  <2>2. Begun(n)
    BY <1>9 DEF Begun
  <2>3. Asks(n, "serverchallengeresp", c) \/ Unpairs(n)
    BY <1>1, <1>9, <2>0 DEF TakePairAnswer, TakeChallenge
  <2> QED
    BY <1>4, <1>6, <2>1, <2>2, <2>3
<1>10. CASE pairCall[n].at = "serverchallengeresp"
  BY <1>1, <1>4, <1>6, <1>7, <1>10 DEF TakePairAnswer, TakeSecret, Begun
<1>11. CASE pairCall[n].at = "clientpairingsecret"
  BY <1>1, <1>4, <1>6, <1>7, <1>11 DEF TakePairAnswer, TakePaired, Begun
<1>12. CASE pairCall[n].at = "pairchallenge"
  BY <1>1, <1>5, <1>6, <1>12 DEF TakePairAnswer, TakeChecked, Begun
<1> QED
  BY <1>1, <1>2, <1>8, <1>9, <1>10, <1>11, <1>12 DEF TakePairAnswer

LEMMA TimesOutKeeps ==
    ASSUME PairIInv, NEW n \in PairCalls, PairTimesOut(n)
    PROVE  PairIInv'
<1> DEFINE c == [pairCall[n] EXCEPT !.at = "failed"]
<1>1. IsCall(c) /\ c.dev = pairCall[n].dev /\ c.pin = pairCall[n].pin /\ c.at = "failed"
  BY DEF IsCall, PairIInv, CallsTyped
<1>2. pairCall' = [pairCall EXCEPT ![n] = c] /\ Begun(n)
  BY DEF PairTimesOut, Begun
<1> HIDE DEF c
<1>3. CallsTyped' /\ CallsStay
  BY <1>1, <1>2 DEF PairIInv, CallsTyped, CallsStay, Begun
<1>4. MessagesOfCalls'
  BY <1>3 DEF PairIInv, MessagesOfCalls, PairTimesOut, CallsStay, Begun
<1> QED
  BY <1>3, <1>4, HostStays DEF PairIInv, PairTimesOut

\* The host's steps: an exchange takes the place of one, or is removed.
LEMMA HostKeeps ==
    ASSUME PairIInv, UNCHANGED pairCall, NEW p, ExchangeKept(p), NEW i,
           pendingPair' = pendingPair \/ pendingPair' = [pendingPair EXCEPT ![i] = p],
           pairRequests' \subseteq pairRequests,
           \A a \in pairAnswers' : a \in pairAnswers \/ a.call \in PairCalls,
           \A c \in pairedCerts' : c \in pairedCerts \/ c.pin = c.shown
    PROVE  PairIInv'
<1>1. CallsTyped' /\ MessagesOfCalls' /\ PinnedByItsPin'
  BY DEF PairIInv, CallsTyped, MessagesOfCalls, PinnedByItsPin, Begun
<1>2. ASSUME NEW e PROVE ExchangeKept(e)' <=> ExchangeKept(e)
  BY DEF ExchangeKept, Begun
<1>3. ASSUME NEW u \in UniqueIds PROVE ExchangeKept(pendingPair[u])'
  <2>1. ExchangeKept(pendingPair[u])
    BY DEF PairIInv, ExchangesKept
  <2>2. PICK e : e = pendingPair'[u]
    OBVIOUS
  <2>3. e = pendingPair[u] \/ e = p
    BY <2>2 DEF PairIInv, ExchangesKept
  <2> QED
    BY <2>1, <2>2, <2>3 DEF ExchangeKept, Begun
<1> QED
  BY <1>1, <1>3 DEF PairIInv, ExchangesKept

\* Every answer the host gives is to one of the calls.
LEMMA AnswersAreOfCalls ==
    ASSUME MessagesOfCalls, NEW a, a.call \in PairCalls, Answers(a)
    PROVE  \A b \in pairAnswers' : b \in pairAnswers \/ b.call \in PairCalls
  BY DEF Answers

LEMMA FailsKeeps ==
    ASSUME PairIInv, NEW n \in PairCalls, UNCHANGED pairCall, pairRequests' \subseteq pairRequests,
           PairingFails(n)
    PROVE  PairIInv'
<1>1. PairingRefused(n).call \in PairCalls
  BY DEF PairingRefused, PairAnswer
<1>2. \A b \in pairAnswers' : b \in pairAnswers \/ b.call \in PairCalls
  BY <1>1, AnswersAreOfCalls DEF PairingFails, PairIInv
<1> QED
  BY <1>2, NothingKept, HostKeeps DEF PairingFails, Forgotten

LEMMA GetServerCertKeeps ==
    ASSUME PairIInv, NEW n \in PairCalls, GetServerCert(n)
    PROVE  PairIInv'
<1>1. PairingRefused(n).call \in PairCalls
  BY DEF PairingRefused, PairAnswer
<1>2. \A b \in pairAnswers' : b \in pairAnswers \/ b.call \in PairCalls
  BY <1>1, AnswersAreOfCalls DEF GetServerCert, PairIInv
<1> DEFINE p == [call |-> n, cert |-> pairCall[n].dev, phase |-> "WaitingForPin",
                 pin |-> "none", hash |-> <<>>]
<1>3. ExchangeKept(p)
  BY DEF ExchangeKept, IsExchange
<1>4. pendingPair' = pendingPair \/ pendingPair' = [pendingPair EXCEPT ![IdOf(n)] = p]
  BY DEF GetServerCert
<1> HIDE DEF p
<1> QED
  BY <1>2, <1>3, <1>4, HostKeeps DEF GetServerCert

LEMMA EnterPinKeeps ==
    ASSUME PairIInv, NEW u \in UniqueIds, NEW typed \in GamePins, EnterPin(u, typed)
    PROVE  PairIInv'
<1>1. ExchangeKept(pendingPair[u]) /\ pendingPair[u].phase = "WaitingForPin"
  BY DEF PairIInv, ExchangesKept, EnterPin
<1>2. \A b \in pairAnswers' : b \in pairAnswers \/ b.call \in PairCalls
  <2> DEFINE a == PairAnswer(pendingPair[u].call, TRUE, Garbage, Garbage, Garbage)
  <2>1. a.call \in PairCalls /\ Answers(a)
    BY <1>1 DEF ExchangeKept, PairAnswer, EnterPin
  <2> HIDE DEF a
  <2> QED
    BY <2>1, AnswersAreOfCalls DEF PairIInv
<1> DEFINE p == [pendingPair[u] EXCEPT !.phase = "ServerCert", !.pin = typed]
<1>3. ExchangeKept(p)
  BY <1>1 DEF ExchangeKept, IsExchange
<1>4. pendingPair' = [pendingPair EXCEPT ![u] = p]
  BY DEF EnterPin
<1> HIDE DEF p
<1> QED
  BY <1>2, <1>3, <1>4, HostKeeps DEF EnterPin

LEMMA HeldKeeps ==
    ASSUME PairIInv, NEW n \in PairCalls, HeldIsClosed(n)
    PROVE  PairIInv'
  BY NothingKept, HostKeeps DEF HeldIsClosed, Forgotten

LEMMA PairChallengeKeeps ==
    ASSUME PairIInv, NEW n \in PairCalls, PairChallenge(n)
    PROVE  PairIInv'
<1> DEFINE a == [PairingRefused(n) EXCEPT !.ok = \E c \in pairedCerts : c.cert = pairCall[n].dev]
<1>1. a.call \in PairCalls /\ Answers(a)
  BY DEF PairingRefused, PairAnswer, PairChallenge
<1> HIDE DEF a
<1>2. \A b \in pairAnswers' : b \in pairAnswers \/ b.call \in PairCalls
  BY <1>1, AnswersAreOfCalls DEF PairIInv
<1> QED
  BY <1>2, NothingKept, HostKeeps DEF PairChallenge

\* One of the four requests that go on with an exchange.
LEMMA PairStepKeeps ==
    ASSUME PairIInv, NEW n \in PairCalls, NEW phase,
           phase \in {"clientchallenge", "serverchallengeresp", "clientpairingsecret", "unpair"},
           PairStep(n, phase)
    PROVE  PairIInv'
<1> DEFINE u == IdOf(n)
<1>1. Begun(n) /\ UNCHANGED pairCall /\ pairRequests' \subseteq pairRequests
  BY DEF PairStep, PairIInv, MessagesOfCalls
<1>2. u \in UniqueIds
  BY <1>1 DEF UniqueIds, IdOf, PairIInv, CallsTyped
<1>3. PICK p : p = pendingPair[u]
  OBVIOUS
<1>4. ExchangeKept(p)
  BY <1>2, <1>3 DEF PairIInv, ExchangesKept
<1>5. ASSUME NEW q, ExchangeKept(q), NEW a, a.call \in PairCalls, Answers(a),
             pendingPair' = pendingPair \/ pendingPair' = [pendingPair EXCEPT ![u] = q],
             \A c \in pairedCerts' : c \in pairedCerts \/ c.pin = c.shown
      PROVE  PairIInv'
  <2>1. \A b \in pairAnswers' : b \in pairAnswers \/ b.call \in PairCalls
    BY <1>5, AnswersAreOfCalls DEF PairIInv
  <2> QED
    BY <1>1, <1>5, <2>1, HostKeeps
<1>6. ASSUME NEW ok, NEW x, NEW y, NEW z PROVE PairAnswer(n, ok, x, y, z).call \in PairCalls
  BY DEF PairAnswer
<1>7. CASE PairingFails(n)
  BY <1>1, <1>7, FailsKeeps
<1>8. CASE p = NoExchange
  <2>1. Answers(PairingRefused(n)) /\ UNCHANGED <<pendingPair, pairedCerts>>
    BY <1>3, <1>8 DEF PairStep, NoExchange
  <2> QED
    BY <1>5, <1>6, <2>1, NothingKept DEF PairingRefused
<1>9. CASE ClientChallenge(n, p)
  <2>1. CASE p.phase = "ServerCert"
    <3> DEFINE q == [p EXCEPT !.phase = "ClientChallenge"]
    <3>1. ExchangeKept(q)
      BY <1>4, <2>1 DEF ExchangeKept, IsExchange
    <3>2. PICK x, y : Advances(n, q, PairAnswer(n, TRUE, x, Garbage, y))
      BY <1>9, <2>1 DEF ClientChallenge
    <3> HIDE DEF q
    <3> QED
      BY <1>5, <1>6, <3>1, <3>2 DEF Advances
  <2> QED
    BY <1>7, <1>9, <2>1 DEF ClientChallenge
<1>10. CASE ServerChallengeResp(n, p)
  <2>1. CASE p.phase = "ClientChallenge"
    <3> DEFINE same == HostKey(p) = KeyOf(n)
    <3>1. PICK h : h = IF same THEN <<pairCall[n].challenge, n>> ELSE <<>>
      OBVIOUS
    <3> DEFINE q == [p EXCEPT !.phase = "ServerChallengeResponse", !.hash = h]
    <3>2. h # <<>> => p.call = n /\ p.pin = pairCall[n].pin
      BY <3>1 DEF HostKey, KeyOf
    <3>3. ExchangeKept(q)
      BY <1>1, <1>4, <2>1, <3>2 DEF ExchangeKept, IsExchange
    <3>4. Advances(n, q, PairAnswer(n, TRUE, Garbage, p.call, Garbage))
      BY <1>10, <2>1, <3>1 DEF ServerChallengeResp
    <3> HIDE DEF q
    <3> QED
      BY <1>5, <1>6, <3>3, <3>4 DEF Advances
  <2> QED
    BY <1>7, <1>10, <2>1 DEF ServerChallengeResp
<1>11. CASE ClientPairingSecret(n, p)
  <2>1. CASE p.phase = "ServerChallengeResponse"
    <3> DEFINE a == [PairingRefused(n) EXCEPT !.ok = SecretMatches(n, p)]
    <3>1. a.call \in PairCalls
      BY DEF PairingRefused, PairAnswer
    <3>2. Answers(a) /\ pendingPair' = [pendingPair EXCEPT ![u] = NoExchange]
      BY <1>11, <2>1 DEF ClientPairingSecret, Forgotten
    <3>3. SecretMatches(n, p) => p.pin = pairCall[p.call].pin
      BY <1>4 DEF SecretMatches, ExchangeKept
    <3>4. \A c \in pairedCerts' : c \in pairedCerts \/ c.pin = c.shown
      BY <1>11, <2>1, <3>3 DEF ClientPairingSecret
    <3> HIDE DEF a
    <3> QED
      BY <1>5, <3>1, <3>2, <3>4, NothingKept
  <2> QED
    BY <1>7, <1>11, <2>1 DEF ClientPairingSecret
<1> QED
  <2>1. CASE p.phase = "WaitingForPin"
    BY <1>3, <1>7, <1>8, <2>1 DEF PairStep
  <2>2. CASE p # NoExchange /\ p.phase \notin {"none", "WaitingForPin"}
    BY <1>3, <1>7, <1>9, <1>10, <1>11, <2>2 DEF PairStep
  <2> QED
    BY <1>4, <1>8, <2>1, <2>2 DEF ExchangeKept

LEMMA PairInductive == PairIInv /\ [GamePairNext]_gamePairVars => PairIInv'
<1> SUFFICES ASSUME PairIInv, [GamePairNext]_gamePairVars PROVE PairIInv'
  OBVIOUS
<1>1. CASE UNCHANGED gamePairVars
  <2>1. UNCHANGED <<pairCall, pairRequests, pairAnswers, pendingPair, pairedCerts>>
    BY <1>1 DEF gamePairVars
  <2> QED
    BY <2>1, NothingKept, HostKeeps
<1>2. ASSUME NEW n \in PairCalls, NEW d \in GameClients, NEW chosen \in GamePins, StartPairing(n, d, chosen)
      PROVE  PairIInv'
  BY <1>2, StartKeeps
<1>3. ASSUME NEW a \in pairAnswers, TakePairAnswer(a) PROVE PairIInv'
  BY <1>3, TakeKeeps
<1>4. ASSUME NEW n \in PairCalls,
             PairTimesOut(n) \/ GetServerCert(n) \/ HeldIsClosed(n) \/ PairChallenge(n)
      PROVE  PairIInv'
  BY <1>4, TimesOutKeeps, GetServerCertKeeps, HeldKeeps, PairChallengeKeeps
<1>5. ASSUME NEW n \in PairCalls, NEW phase, PairStep(n, phase),
             phase \in {"clientchallenge", "serverchallengeresp", "clientpairingsecret", "unpair"}
      PROVE  PairIInv'
  BY <1>5, PairStepKeeps
<1>6. ASSUME NEW u \in UniqueIds, NEW typed \in GamePins, EnterPin(u, typed) PROVE PairIInv'
  BY <1>6, EnterPinKeeps
<1> QED
  BY <1>1, <1>2, <1>3, <1>4, <1>5, <1>6 DEF GamePairNext

\* Whatever devices pair at a time, under one id or not, a certificate is pinned only
\* for the PIN its own device shows (gamestream pairing.rs HostPairing::step).
THEOREM DevicesArePinnedByTheirPins == GamePairSpec => []PinnedByItsPin
<1>1. PairIInv => PinnedByItsPin
  BY DEF PairIInv
<1> QED
  BY <1>1, PairInitial, PairInductive, PTL DEF GamePairSpec
=============================================================================
