---------------------------- MODULE ClientCarriers ----------------------------
(***************************************************************************)
(* The client's side of one window's stream (client-core/src/lib.rs): the   *)
(* carrier on screen, the one a switch waits for, the timer that gives a    *)
(* switch up, the RDP logins that run on threads of their own, and the app  *)
(* that starts, stops and switches windows and reports pictures shown.      *)
(***************************************************************************)
EXTENDS ControlChannel

VARIABLES
    gen,        \* Shared.generations: the last generation asked for
    shown,      \* Carriers.shown: a set of at most one carrier
    next,       \* Carriers.next: likewise, the switch under way
    up,         \* whether CarrierStarted was reported for `next`
    timers,     \* generations whose give-up timer sleeps
    logins,     \* generations whose connect_rdp thread is logging in
    rdp,        \* Shared.rdp: the generation of the connection held, or 0
    hears,      \* the window's audio at the client: RemoteAudio and its queue
    wanted,     \* history: the user last started the window, not stopped it
    asked,      \* history: generation of the app's start not yet answered, or 0
    givenUp     \* history: generations the client gave up and stopped

clientVars == <<gen, shown, next, up, timers, logins, rdp, hears, wanted, asked, givenUp>>

ClientTypeOK ==
    /\ gen \in Gens \cup {0}
    /\ shown \subseteq Carrier
    /\ next \subseteq Carrier
    /\ up \in BOOLEAN
    /\ timers \subseteq Gens
    /\ logins \subseteq Gens
    /\ rdp \in Gens \cup {0}
    /\ hears \in {"nothing", "sound", "ended"}
    /\ wanted \in BOOLEAN
    /\ asked \in Gens \cup {0}
    /\ givenUp \subseteq Gens

ClientInit ==
    /\ gen = 0
    /\ shown = {}
    /\ next = {}
    /\ up = FALSE
    /\ timers = {}
    /\ logins = {}
    /\ rdp = 0
    /\ hears = "nothing"
    /\ wanted = FALSE
    /\ asked = 0
    /\ givenUp = {}

\* Shared::switching.
Switching(g) == \E n \in next : n.gen = g

\* The bound on how often the client asks for a carrier.
MayAsk == gen < IF calm THEN MaxGen ELSE MaxGenAny

Ask(message) == toHost' = Append(toHost, message)

\* The next message of pump_events.
Receive(type) ==
    /\ toClient # <<>>
    /\ Head(toClient).type = type
    /\ toClient' = Tail(toClient)

-----------------------------------------------------------------------------
\* What the app does.

\* ClientSession::start_window: the app offers it for a window the user
\* stopped or that is not streaming, one start at a time.
StartWindow(kind) ==
    /\ ~ wanted \/ shown = {}
    /\ asked = 0
    /\ MayAsk
    /\ gen' = gen + 1
    /\ asked' = gen'
    /\ wanted' = TRUE
    /\ Ask(StartRequest(gen', kind))
    /\ UNCHANGED <<toClient, shown, next, up, timers, logins, rdp, hears, givenUp>>

\* ClientSession::stop_window: the carriers stay listed until the host says
\* StreamStopped; only the RDP connection goes at once.
StopWindow ==
    /\ wanted
    /\ wanted' = FALSE
    /\ rdp' = 0
    /\ Ask(StopRequest)
    /\ UNCHANGED <<toClient, gen, shown, next, up, timers, logins, hears, asked, givenUp>>

\* ClientSession::start_switch, by hand or by the selector, with its timer.
StartSwitch(kind) ==
    /\ shown # {} /\ next = {}
    /\ \A s \in shown : s.kind # kind
    /\ MayAsk
    /\ gen' = gen + 1
    /\ next' = {[gen |-> gen', kind |-> kind]}
    /\ up' = FALSE
    /\ timers' = timers \cup {gen'}
    /\ Ask(StartRequest(gen', kind))
    /\ UNCHANGED <<toClient, shown, logins, rdp, hears, wanted, asked, givenUp>>

\* Bugs to catch: the old carrier is not stopped; its connection is kept.
CarrierShownKeepsOld ==
    /\ up
    /\ shown' = next
    /\ next' = {}
    /\ up' = FALSE
    /\ timers' = timers \ {n.gen : n \in next}
    /\ UNCHANGED <<channel, gen, logins, rdp, hears, wanted, asked, givenUp>>

\* ClientSession::carrier_shown: the new carrier has a picture on screen.
CarrierShown ==
    /\ up
    /\ shown' = next
    /\ next' = {}
    /\ up' = FALSE
    /\ timers' = timers \ {n.gen : n \in next}
    /\ \E old \in shown :
         /\ rdp' = IF old.kind = "Rdp" THEN 0 ELSE rdp
         /\ Ask(CarrierStop(old.gen))
    /\ UNCHANGED <<toClient, gen, logins, hears, wanted, asked, givenUp>>

-----------------------------------------------------------------------------
\* Giving a switch up.

\* Bug to catch: the host is told, but the switch stays under way.
AbandonTellsOnly(g) ==
    /\ givenUp' = givenUp \cup {g}
    /\ Ask(CarrierStop(g))
    /\ UNCHANGED <<next, up, rdp>>

\* Shared::abandon_switch, for the switch under way.
AbandonSwitch(g) ==
    /\ next' = {}
    /\ up' = FALSE
    /\ rdp' = IF \E n \in next : n.kind = "Rdp" THEN 0 ELSE rdp
    /\ givenUp' = givenUp \cup {g}
    /\ Ask(CarrierStop(g))

\* SWITCH_WITHIN is over.  In calm the carrier is up by then
\* and what is missing is its picture.
GiveUp(g) ==
    /\ g \in timers
    /\ ~ calm \/ up \/ ~ Switching(g)
    /\ timers' = timers \ {g}
    /\ IF Switching(g) THEN AbandonSwitch(g) ELSE UNCHANGED <<next, up, rdp, givenUp, toHost>>
    /\ UNCHANGED <<toClient, gen, shown, logins, hears, wanted, asked>>

-----------------------------------------------------------------------------
\* pump_events: what each message does.  `Carriers` entries that go take their
\* timer's handle with them, not the timer.

\* StreamStartResponse for an accepted RDP handoff: connect_rdp logs in.
AcceptedRdp ==
    /\ Receive("Answer")
    /\ LET m == Head(toClient) IN
         /\ m.ok /\ m.kind = "Rdp"
         /\ logins' = logins \cup {m.gen}
    /\ UNCHANGED <<toHost, gen, shown, next, up, timers, rdp, hears, wanted, asked, givenUp>>

Answered(g) == asked' = IF asked = g THEN 0 ELSE asked

\* stream_start_event, accepted on the session's track: the switch's carrier
\* is up, or the window's stream has started.
Accepted ==
    /\ Receive("Answer")
    /\ LET m == Head(toClient) IN
         /\ m.ok /\ m.kind # "Rdp"
         /\ IF Switching(m.gen)
              THEN up' = TRUE /\ UNCHANGED shown
              ELSE shown' = {[gen |-> m.gen, kind |-> m.kind]} /\ UNCHANGED up
         /\ Answered(m.gen)
    /\ UNCHANGED <<toHost, gen, next, timers, logins, rdp, hears, wanted, givenUp>>

\* stream_start_event, refused: the switch ends with its timer, or the app
\* hears StreamRefused.
Refused ==
    /\ Receive("Answer")
    /\ LET m == Head(toClient) IN
         /\ ~ m.ok
         /\ IF Switching(m.gen)
              THEN /\ next' = {}
                   /\ up' = FALSE
                   /\ timers' = timers \ {m.gen}
              ELSE UNCHANGED <<next, up, timers>>
         /\ Answered(m.gen)
    /\ UNCHANGED <<toHost, gen, shown, logins, rdp, hears, wanted, givenUp>>

\* connect_rdp succeeds, while the host still serves that carrier.
LoginDone(g) ==
    /\ g \in logins
    /\ logins' = logins \ {g}
    /\ rdp' = g
    /\ IF Switching(g)
         THEN up' = TRUE /\ UNCHANGED shown
         ELSE shown' = {[gen |-> g, kind |-> "Rdp"]} /\ UNCHANGED up
    /\ Answered(g)
    /\ UNCHANGED <<channel, gen, next, timers, hears, wanted, givenUp>>

\* connect_rdp fails: the switch is abandoned, or the host is told to stop
\* serving the window.
LoginFails(g) ==
    /\ g \in logins
    /\ logins' = logins \ {g}
    /\ IF Switching(g)
         THEN /\ AbandonSwitch(g)
              /\ timers' = timers \ {g}
         ELSE /\ Ask(StopRequest)
              /\ UNCHANGED <<next, up, rdp, timers, givenUp>>
    /\ Answered(g)
    /\ UNCHANGED <<toClient, gen, shown, hears, wanted>>

\* run_control_channel flags every track of the window as ended, its audio
\* too, on TrackEnded and on StreamStopped alike.
TracksEnd == hears' = IF hears = "sound" THEN "ended" ELSE hears

ReceiveTrackEnded ==
    /\ Receive("TrackEnded")
    /\ TracksEnd
    /\ UNCHANGED <<toHost, gen, shown, next, up, timers, logins, rdp, wanted, asked, givenUp>>

\* pump_windows: the audio track arrives and is pumped into a fresh queue.
ReceiveSound ==
    /\ Receive("Sound")
    /\ hears' = "sound"
    /\ UNCHANGED <<toHost, gen, shown, next, up, timers, logins, rdp, wanted, asked, givenUp>>

ReceiveStreamStopped ==
    /\ Receive("StreamStopped")
    /\ TracksEnd
    /\ shown' = {}
    /\ next' = {}
    /\ up' = FALSE
    /\ rdp' = 0
    /\ UNCHANGED <<toHost, gen, timers, logins, wanted, asked, givenUp>>

-----------------------------------------------------------------------------
AppStep ==
    \/ StopWindow \/ CarrierShown
    \/ \E kind \in Kinds : StartWindow(kind)

PumpStep ==
    \/ AcceptedRdp \/ Accepted \/ Refused
    \/ ReceiveTrackEnded \/ ReceiveSound \/ ReceiveStreamStopped
=============================================================================
