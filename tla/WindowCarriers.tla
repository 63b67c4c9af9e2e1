---------------------------- MODULE WindowCarriers ----------------------------
(***************************************************************************)
(* One window's stream end to end: the host's session loop and frame        *)
(* threads, the control channel and the client, composed.  This is the      *)
(* make-before-break switching of docs/BACKENDS.md, "One window, any        *)
(* carrier", as the code does it.                                           *)
(***************************************************************************)
EXTENDS HostStreams, ClientCarriers, SequencesExt

carrierVars == <<channel, calm, hostVars, clientVars>>

CarrierTypeOK == ChannelTypeOK /\ HostTypeOK /\ ClientTypeOK

CarrierInit == ChannelInit /\ HostInit /\ ClientInit

\* An RDP login reaches the host's server only while the carrier runs there.
Login(g) ==
    \/ LoginDone(g) /\ \E r \in running : r.gen = g
    \/ LoginFails(g)

\* A stop of the window the client has not heard the end of.
StopUnderWay ==
    \/ Contains(toHost, StopRequest)
    \/ serving.at \in {"endSound", "endTrack", "endTell"}
    \/ \E f \in feeds : f.at \in {"sound", "track", "tell"}
    \/ Contains(toClient, StreamStopped)

Switch(kind) ==
    /\ calm => ~ StopUnderWay
    /\ StartSwitch(kind)

ClientStep ==
    \/ AppStep \/ PumpStep
    \/ \E kind \in Kinds : Switch(kind)
    \/ \E g \in Gens : GiveUp(g) \/ Login(g)

CarrierNext ==
    \/ HostNext /\ UNCHANGED <<clientVars, calm>>
    \/ ClientStep /\ UNCHANGED <<hostVars, calm>>

\* Tasks and threads that can go on do: the session loop, the frame threads,
\* pump_events, the logins (they time out) and the give-up timers.  What the
\* user does, and whether a window closes, is nobody's obligation.
CarrierFairness ==
    /\ WF_carrierVars(LoopStep /\ UNCHANGED <<clientVars, calm>>)
    /\ WF_carrierVars(PumpStep /\ UNCHANGED <<hostVars, calm>>)
    /\ \A g \in Gens : WF_carrierVars(GiveUp(g) /\ UNCHANGED <<hostVars, calm>>)
    /\ \A g \in Gens : WF_carrierVars(Login(g) /\ UNCHANGED <<hostVars, calm>>)

CarrierSpec == CarrierInit /\ [][CarrierNext]_carrierVars

-----------------------------------------------------------------------------
\* Nothing is under way anywhere.
Quiet ==
    /\ toHost = <<>> /\ toClient = <<>>
    /\ serving.at = "idle"
    /\ next = {} /\ logins = {}
    /\ \A f \in feeds : f.at = "run"

Gen(carriers) == {c.gen : c \in carriers}

\* "Carriers running at once differ in backend" (docs/BACKENDS.md), the one
\* being started included.
OneCarrierPerBackend ==
    /\ \A r, s \in running : r.kind = s.kind => r = s
    /\ serving.at \in {"open", "sound", "answer"} =>
         \A r \in running : r.kind # serving.kind /\ r.gen # serving.gen

\* Every frame thread that was not told to stop belongs to a carrier the
\* session loop knows, or is starting: none captures for nobody.
FeedsAccountedFor ==
    \A f \in feeds :
        \/ f.gen \in stopped \cup Gen(running)
        \/ serving.at \in {"sound", "answer"} /\ serving.gen = f.gen

\* In calm, when everything has settled, the host carries exactly what the
\* client shows: no carrier runs unseen and no view is left without one.
HostCarriesWhatIsShown ==
    (calm /\ Quiet) => Gen(running) = Gen(shown)

\* In calm, the RDP connection the client holds is the shown carrier's or the
\* next one's, and once everything has settled a window shown over RDP has it:
\* next_picture reads whatever connection is held.
RdpHeldForItsCarrier ==
    calm =>
      /\ rdp # 0 => \E c \in shown \cup next : c.gen = rdp /\ c.kind = "Rdp"
      /\ Quiet => \A s \in shown : s.kind = "Rdp" => rdp = s.gen

\* Every switch ends: swapped, refused or given up.
SwitchEnds == CarrierFairness => (next # {} ~> next = {})

\* "If generation n+1 shows no picture within 5 s, the client stops it and
\* keeps n" (docs/BACKENDS.md): in calm, what was given up is never shown.
GivenUpIsNotShown == calm => Gen(shown) \cap givenUp = {}

\* "StreamStopRequest stops every carrier" (docs/BACKENDS.md): in calm, a
\* window the user stopped is not carried once everything has settled.
StoppedStaysStopped == (calm /\ Quiet /\ ~ wanted) => running = {}

\* "The window's sound starts with its first carrier, whichever it is, and
\* stops with its stream" (docs/BACKENDS.md): while the host sends the
\* window's sound the client plays it.
SoundGoesOn == (Quiet /\ sound) => hears = "sound"

\* What host and client keep of a window's carriers agrees, through every switch,
\* failure, stop and restart: the threads and tracks of the session loop
\* (host-core lib.rs) with what next_picture reads and the app shows (client-core).
CarriersAgree ==
    /\ CarrierTypeOK
    /\ OneCarrierPerBackend
    /\ FeedsAccountedFor
    /\ HostCarriesWhatIsShown
    /\ RdpHeldForItsCarrier
    /\ GivenUpIsNotShown
    /\ StoppedStaysStopped
=============================================================================
