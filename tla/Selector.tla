------------------------------ MODULE Selector ------------------------------
(***************************************************************************)
(* The automatic carrier selector of one window (client-core/src/selector.rs *)
(* and its callers in client-core/src/lib.rs).  The app's event loop looks,  *)
(* starts a switch and then takes an event, in this order; other threads of  *)
(* the app switch by hand, show pictures and stop the window in between.     *)
(* The carriers themselves are those of WindowCarriers, reduced to the one   *)
(* shown and the one a switch is starting.  Times are ages, cut off where no *)
(* comparison changes any more.                                              *)
(***************************************************************************)
EXTENDS Integers, Sequences

CONSTANTS
    MaxGen,         \* bound: carriers started
    Motions,        \* bound: values of Window.motion, in tenths
    DWELL, MIN_INTERVAL, BACKOFF, MAX_BACKOFF

ASSUME SelectorAssumption ==
    /\ MaxGen \in Nat
    /\ Motions \subseteq 0 .. 10
    /\ DWELL \in Nat /\ MIN_INTERVAL \in Nat
    /\ BACKOFF \in Nat \ {0} /\ MAX_BACKOFF \in Nat /\ BACKOFF <= MAX_BACKOFF

Kinds == {"Native", "Rdp"}
Contents == {"Text", "General", "Game", "Video"}
NoKind == "None"
NoCarrier == [generation |-> 0, backend |-> NoKind]

VARIABLES
    gen,            \* the last generation given out
    shown, next,    \* Carriers.shown and .next, or NoCarrier
    rdpPossible,    \* host_ip is known and pictures are shown
    autoSwitch,     \* Client.auto_switch
    known,          \* whether selection has an entry for the window
    better,         \* selector::Window.better: the kind, or None
    dwelt,          \* ... and for how long
    sinceSwitch,    \* age of last_switch
    left, wait,     \* backoff: time left and the wait, for each kind; wait 0: no entry
    pinned,
    pending,        \* the automatic switch under way: its carrier
    choice,         \* what choose returned to a select that goes on
    events,         \* Shared.events, those about this window
    sinceFailed     \* history: time since an automatic switch to the kind failed

carrierVars == <<gen, shown, next>>
settingVars == <<rdpPossible, autoSwitch>>
windowVars == <<known, better, dwelt, sinceSwitch, left, wait, pinned, pending>>
historyVars == <<sinceFailed>>
selectorVars == <<carrierVars, settingVars, windowVars, choice, events, historyVars>>

Carriers == [generation : 0 .. MaxGen, backend : Kinds \cup {NoKind}]

SelectorTypes ==
    /\ gen \in 0 .. MaxGen
    /\ {shown, next, pending} \subseteq Carriers
    /\ rdpPossible \in BOOLEAN /\ autoSwitch \in BOOLEAN /\ known \in BOOLEAN /\ pinned \in BOOLEAN
    /\ {better, choice} \subseteq Kinds \cup {NoKind}
    /\ dwelt \in 0 .. DWELL
    /\ sinceSwitch \in 0 .. MIN_INTERVAL
    /\ left \in [Kinds -> 0 .. MAX_BACKOFF]
    /\ wait \in [Kinds -> 0 .. MAX_BACKOFF]
    /\ events \in Seq([what : {"refused", "stopped"}, generation : 0 .. MaxGen])
    /\ sinceFailed \in [Kinds -> 0 .. BACKOFF]

\* selector::Window::new, and no entry yet.
FreshWindow ==
    /\ better' = NoKind
    /\ dwelt' = 0
    /\ sinceSwitch' = 0
    /\ left' = [k \in Kinds |-> 0]
    /\ wait' = [k \in Kinds |-> 0]
    /\ pinned' = FALSE
    /\ pending' = NoCarrier
    /\ sinceFailed' = [k \in Kinds |-> BACKOFF]

SelectorInit ==
    /\ gen = 0
    /\ shown = NoCarrier /\ next = NoCarrier
    /\ rdpPossible \in BOOLEAN
    /\ autoSwitch = TRUE
    /\ known = FALSE
    /\ better = NoKind
    /\ dwelt = 0
    /\ sinceSwitch = 0
    /\ left = [k \in Kinds |-> 0]
    /\ wait = [k \in Kinds |-> 0]
    /\ pinned = FALSE
    /\ pending = NoCarrier
    /\ choice = NoKind
    /\ events = <<>>
    /\ sinceFailed = [k \in Kinds |-> BACKOFF]

-----------------------------------------------------------------------------
(* The window's carriers (see WindowCarriers). *)

StartWindow(kind) ==
    /\ shown = NoCarrier /\ next = NoCarrier
    /\ gen < MaxGen
    /\ gen' = gen + 1
    /\ shown' = [generation |-> gen + 1, backend |-> kind]
    /\ UNCHANGED <<next, settingVars, windowVars, choice, events, historyVars>>

\* A stream ends, by stop_window or on the host's word; the event comes with it.
StopWindow ==
    /\ shown # NoCarrier
    /\ shown' = NoCarrier /\ next' = NoCarrier
    /\ events' = Append(events, [what |-> "stopped", generation |-> 0])
    /\ UNCHANGED <<gen, settingVars, windowVars, choice, historyVars>>

\* Shared::abandon_switch: the host refuses, or nothing was shown in time.
AbandonSwitch ==
    /\ next # NoCarrier
    /\ next' = NoCarrier
    /\ events' = Append(events, [what |-> "refused", generation |-> next.generation])
    /\ UNCHANGED <<gen, shown, settingVars, windowVars, choice, historyVars>>

\* Whether start_switch goes ahead (sending fails only once the session is over).
Startable(kind) ==
    /\ kind = "Rdp" => rdpPossible
    /\ shown # NoCarrier
    /\ next = NoCarrier
    /\ shown.backend # kind

StartSwitch(kind) ==
    /\ Startable(kind)
    /\ gen < MaxGen
    /\ gen' = gen + 1
    /\ next' = [generation |-> gen + 1, backend |-> kind]
    /\ UNCHANGED shown

\* Whether this client can take RDP pictures changes (`pictures`); the user turns
\* the selector off and on (set_auto_switch).
Settings ==
    /\ \/ rdpPossible' = ~ rdpPossible /\ UNCHANGED autoSwitch
       \/ autoSwitch' = ~ autoSwitch /\ UNCHANGED rdpPossible
    /\ UNCHANGED <<carrierVars, windowVars, choice, events, historyVars>>

-----------------------------------------------------------------------------
(* The selector. *)

\* score, in tenths.
Score(kind, content, motion) ==
    IF kind = "Native" THEN 2 + motion
    ELSE CASE ~ rdpPossible -> 0
           [] content = "Text" -> 12 - motion
           [] content = "General" -> 3 - motion
           [] OTHER -> 0

\* Window::choose: the carrier that is better by the margin of a quarter.
Better(content, motion) ==
    {k \in Kinds \ {shown.backend} :
        /\ left[k] = 0
        /\ Score(k, content, motion) > 0
        /\ 4 * Score(k, content, motion) > 5 * Score(shown.backend, content, motion)}

\* Bug to catch: the least time between two switches forgotten.
RipeSoon == dwelt >= DWELL

\* It was better for long enough, and the last switch is long enough ago.
Ripe == dwelt >= DWELL /\ sinceSwitch >= MIN_INTERVAL

\* Client::select up to the choice: the motion estimate is any, as arrivals are.
\* An app's rule pins the window.
Look(content, motion, rule) ==
    /\ choice = NoKind
    /\ autoSwitch
    /\ shown # NoCarrier /\ next = NoCarrier
    /\ known' = TRUE
    /\ pinned' = (pinned \/ rule)
    /\ sinceSwitch' = IF known THEN sinceSwitch ELSE 0
    /\ \/ /\ pending # NoCarrier \/ pinned'
          /\ UNCHANGED <<better, dwelt, choice>>
       \/ /\ pending = NoCarrier /\ ~ pinned'
          /\ Better(content, motion) = {}
          /\ better' = NoKind /\ dwelt' = 0
          /\ UNCHANGED choice
       \/ /\ pending = NoCarrier /\ ~ pinned'
          /\ \E k \in Better(content, motion) :
               IF better = k
                 THEN /\ choice' = IF Ripe THEN k ELSE NoKind
                      /\ UNCHANGED <<better, dwelt>>
                 ELSE /\ better' = k /\ dwelt' = 0
                      /\ UNCHANGED choice
    /\ UNCHANGED <<carrierVars, settingVars, left, wait, pending, events, historyVars>>

\* Window::switched.
Switched(kind) ==
    /\ sinceSwitch' = 0
    /\ better' = NoKind /\ dwelt' = 0
    /\ left' = [left EXCEPT ![kind] = 0]
    /\ wait' = [wait EXCEPT ![kind] = 0]
    /\ UNCHANGED historyVars

\* Window::failed.
SwitchFailed(kind) ==
    LET w == IF wait[kind] = 0 THEN BACKOFF
             ELSE IF 2 * wait[kind] < MAX_BACKOFF THEN 2 * wait[kind] ELSE MAX_BACKOFF
    IN /\ left' = [left EXCEPT ![kind] = w]
       /\ wait' = [wait EXCEPT ![kind] = w]
       /\ better' = NoKind /\ dwelt' = 0
       /\ sinceSwitch' = 0
          /\ sinceFailed' = [sinceFailed EXCEPT ![kind] = 0]

\* Client::select from the choice on.
BeginSwitch ==
    /\ choice # NoKind
    /\ choice' = NoKind
    /\ \/ /\ StartSwitch(choice)
          /\ pending' = next'
          /\ Switched(choice)
       \/ /\ ~ Startable(choice)
          /\ SwitchFailed(choice)
          /\ UNCHANGED <<carrierVars, pending>>
    /\ UNCHANGED <<settingVars, known, pinned, events>>

\* Client::switch_window.
SwitchWindow(kind) ==
    /\ known' = TRUE
    /\ pinned' = TRUE
    /\ sinceSwitch' = IF known THEN sinceSwitch ELSE 0
    /\ \/ StartSwitch(kind)
       \/ ~ Startable(kind) /\ UNCHANGED carrierVars
    /\ UNCHANGED <<settingVars, better, dwelt, left, wait, pending, choice, events, historyVars>>

\* Bug to catch: a finished switch is still under way for the selector.
CarrierShownForgets(g) ==
    /\ next.generation = g
    /\ shown' = next /\ next' = NoCarrier
    /\ UNCHANGED <<gen, pending, settingVars, known, better, dwelt, sinceSwitch, left, wait, pinned,
                   choice, events, historyVars>>

\* Client::carrier_shown; the app may call it late, for a switch given up.
CarrierShown(g) ==
    /\ pending' = IF pending.generation = g THEN NoCarrier ELSE pending
    /\ \/ next.generation = g /\ shown' = next /\ next' = NoCarrier
       \/ next.generation # g /\ UNCHANGED <<shown, next>>
    /\ UNCHANGED <<gen, settingVars, known, better, dwelt, sinceSwitch, left, wait, pinned, choice,
                   events, sinceFailed>>

\* Client::next_event, after its select: selection_event.
NextEvent ==
    /\ choice = NoKind
    /\ events # <<>>
    /\ events' = Tail(events)
    /\ \/ /\ Head(events).what = "stopped"
          /\ known' = FALSE
          /\ FreshWindow
       \/ /\ Head(events).what = "refused"
          /\ pending.generation = Head(events).generation
          /\ pending' = NoCarrier
          /\ SwitchFailed(pending.backend)
          /\ UNCHANGED <<known, pinned>>
       \/ /\ Head(events).what = "refused"
          /\ pending.generation # Head(events).generation
          /\ UNCHANGED <<windowVars, historyVars>>
    /\ UNCHANGED <<carrierVars, settingVars, choice>>

More(n, top) == IF n < top THEN n + 1 ELSE top
Fewer(n) == IF n > 0 THEN n - 1 ELSE 0

SecondPasses ==
    /\ dwelt' = IF better = NoKind THEN 0 ELSE More(dwelt, DWELL)
    /\ sinceSwitch' = IF known THEN More(sinceSwitch, MIN_INTERVAL) ELSE 0
    /\ left' = [k \in Kinds |-> Fewer(left[k])]
    /\ sinceFailed' = [k \in Kinds |-> More(sinceFailed[k], BACKOFF)]
    /\ <<dwelt', sinceSwitch', left', sinceFailed'>> # <<dwelt, sinceSwitch, left, sinceFailed>>
    /\ UNCHANGED <<carrierVars, settingVars, known, better, wait, pinned, pending, choice, events>>

SelectorNext ==
    \/ StopWindow \/ AbandonSwitch \/ Settings \/ BeginSwitch \/ NextEvent \/ SecondPasses
    \/ \E k \in Kinds : StartWindow(k) \/ SwitchWindow(k)
    \/ \E c \in Contents, m \in Motions, r \in BOOLEAN : Look(c, m, r)
    \/ \E g \in 1 .. gen : CarrierShown(g)

SelectorSpec == SelectorInit /\ [][SelectorNext]_selectorVars

-----------------------------------------------------------------------------
\* The selector never waits for a switch that is over: the switch it has under
\* way is the window's, or the event that ends it is on its way to it.
PendingIsLive ==
    pending # NoCarrier =>
        \/ next = pending
        \/ \E i \in DOMAIN events :
             \/ events[i].what = "stopped"
             \/ events[i].what = "refused" /\ events[i].generation = pending.generation

\* "never more often than a minimum interval", and "it backs off from a carrier
\* whose switch failed" (selector.rs), for every switch the selector starts.
AutoSwitch == pending' # NoCarrier /\ pending' # pending
SwitchesAreSpaced ==
    [][AutoSwitch => /\ sinceSwitch >= MIN_INTERVAL
                     /\ sinceFailed[pending'.backend] >= BACKOFF]_selectorVars

\* The selector beside the user's own switches (client-core lib.rs, selector.rs): it
\* waits only for a switch that is still going on, and makes none too soon.
SwitchesInStep == []SelectorTypes /\ []PendingIsLive /\ SwitchesAreSpaced
=============================================================================
