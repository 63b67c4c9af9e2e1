----------------------------- MODULE HostStreams -----------------------------
(***************************************************************************)
(* The host's side of one window's stream (host-core/src/lib.rs): the       *)
(* session loop, which takes one control message at a time but awaits       *)
(* inside each (renegotiations, blocking calls), and a frame thread per     *)
(* session-track carrier, which runs beside it and ends the stream itself   *)
(* when its window closes.  Session::windows and Session::audio             *)
(* (transport/src/lib.rs) hold at most one video and one audio track for    *)
(* the window, whatever carries its picture.                                *)
(***************************************************************************)
EXTENDS ControlChannel

CONSTANT
    Offered     \* WindowSource::backends: what this host can serve

ASSUME HostAssumption ==
    /\ "Native" \in Offered
    /\ Offered \subseteq Kinds

VARIABLES
    serving,    \* where the session loop stands in the message it handles
    running,    \* WindowStreams.carriers; {} when the window has no entry
    stopped,    \* carriers dropped: their stop flag is set
    feeds,      \* frame threads alive, and where each stands
    track,      \* Session::windows: the carrier that attached the track, or 0
    sound       \* Session::audio: whether the window's audio is attached

hostVars == <<serving, running, stopped, feeds, track, sound>>

LoopAt == {"idle", "open", "sound", "answer", "detach", "endSound", "endTrack", "endTell"}
FeedAt == {"run", "check", "sound", "track", "tell"}
LoopIdle == [at |-> "idle", gen |-> 0, kind |-> "Native", onTrack |-> FALSE]
Ending(at, onTrack) == [at |-> at, gen |-> 0, kind |-> "Native", onTrack |-> onTrack]

HostTypeOK ==
    /\ serving \in [at : LoopAt, gen : Gens \cup {0}, kind : Kinds, onTrack : BOOLEAN]
    /\ running \subseteq Carrier
    /\ stopped \subseteq Gens
    /\ feeds \subseteq [gen : Gens, at : FeedAt]
    /\ track \in Gens \cup {0}
    /\ sound \in BOOLEAN

HostInit ==
    /\ serving = LoopIdle
    /\ running = {}
    /\ stopped = {}
    /\ feeds = {}
    /\ track = 0
    /\ sound = FALSE

\* selection::serve: a backend this host does not offer falls back to Native.
Serve(kind) == IF kind \in Offered THEN kind ELSE "Native"

\* recv_control: the loop takes the next message only when it is done with
\* the one before.
Take(type) ==
    /\ serving.at = "idle"
    /\ toHost # <<>>
    /\ Head(toHost).type = type
    /\ toHost' = Tail(toHost)

Send(message) == toClient' = Append(toClient, message)

-----------------------------------------------------------------------------
\* Serving::start_stream.

AlreadyCarried(m) ==
    \E r \in running : r.gen = m.gen \/ r.kind = Serve(m.kind)

\* "this window is already carried by ..."
RefuseCarried ==
    /\ Take("Start")
    /\ AlreadyCarried(Head(toHost))
    /\ Send(StartResponse(Head(toHost).gen, "Native", FALSE))
    /\ UNCHANGED hostVars

\* Refused by policy (window_allowed).
RefusePolicy ==
    /\ Take("Start")
    /\ Send(StartResponse(Head(toHost).gen, "Native", FALSE))
    /\ UNCHANGED hostVars

\* Host::start begins: the capture or the handoff is opened off the loop.
BeginStart ==
    /\ Take("Start")
    /\ ~ AlreadyCarried(Head(toHost))
    /\ serving' = [at |-> "open", gen |-> Head(toHost).gen,
                   kind |-> Serve(Head(toHost).kind), onTrack |-> FALSE]
    /\ UNCHANGED <<toClient, running, stopped, feeds, track, sound>>

\* No codec, the window cannot be captured, the handoff failed, or the
\* renegotiation did: the start is refused and nothing is kept.
OpenFails ==
    /\ serving.at = "open"
    /\ Send(StartResponse(serving.gen, "Native", FALSE))
    /\ serving' = LoopIdle
    /\ UNCHANGED <<toHost, running, stopped, feeds, track, sound>>

\* Session::attach_window returns the track the window already has, or makes
\* one; then the frame thread runs.  A handoff has neither.  The sound is
\* started only for a window that had no entry.
OpenCarrier ==
    /\ serving.at = "open"
    /\ IF SessionTrack(serving.kind)
         THEN /\ track' = IF track = 0 THEN serving.gen ELSE track
              /\ feeds' = feeds \cup {[gen |-> serving.gen, at |-> "run"]}
         ELSE UNCHANGED <<track, feeds>>
    /\ serving' = [serving EXCEPT !.at = IF running = {} THEN "sound" ELSE "answer"]
    /\ UNCHANGED <<channel, running, stopped, sound>>

\* Host::start_audio: the host may capture no sound for this window.
StartSound ==
    /\ serving.at = "sound"
    /\ serving' = [serving EXCEPT !.at = "answer"]
    /\ \/ UNCHANGED <<toClient, sound>>
       \/ /\ sound' = TRUE
          /\ IF sound THEN UNCHANGED toClient ELSE Send(SoundOffer)
    /\ UNCHANGED <<toHost, running, stopped, feeds, track>>

AnswerStart ==
    /\ serving.at = "answer"
    /\ running' = running \cup {[gen |-> serving.gen, kind |-> serving.kind]}
    /\ Send(StartResponse(serving.gen, serving.kind, TRUE))
    /\ serving' = LoopIdle
    /\ UNCHANGED <<toHost, stopped, feeds, track, sound>>

-----------------------------------------------------------------------------
\* Stopping.

\* Session::detach_window: only an attached window is renegotiated away and
\* reported with TrackEnded.
DetachWindow ==
    IF track = 0
      THEN UNCHANGED <<track, toClient>>
      ELSE track' = 0 /\ Send(TrackEnded)

\* StreamStopRequest for a window without an entry does nothing.
StopNothing ==
    /\ Take("Stop")
    /\ running = {}
    /\ UNCHANGED <<toClient, hostVars>>

\* StreamStopRequest: the entry is removed and every carrier dropped, then
\* end_stream runs; `onTrack` says whether one was on the session's track.
StopStream ==
    /\ Take("Stop")
    /\ running # {}
    /\ stopped' = stopped \cup {r.gen : r \in running}
    /\ serving' = Ending("endSound", \E r \in running : SessionTrack(r.kind))
    /\ running' = {}
    /\ UNCHANGED <<toClient, feeds, track, sound>>

\* Serving::stop_carrier for a carrier that is gone already.
CarrierStopNothing ==
    /\ Take("CarrierStop")
    /\ \A r \in running : r.gen # Head(toHost).gen
    /\ UNCHANGED <<toClient, hostVars>>

\* Serving::stop_carrier: the last carrier's end is the stream's.
StopCarrier(r) ==
    /\ Take("CarrierStop")
    /\ r \in running
    /\ r.gen = Head(toHost).gen
    /\ running' = running \ {r}
    /\ stopped' = stopped \cup {r.gen}
    /\ serving' = IF SessionTrack(r.kind) THEN Ending("detach", TRUE)
                  ELSE IF running' = {} THEN Ending("endSound", FALSE)
                  ELSE LoopIdle
    /\ UNCHANGED <<toClient, feeds, track, sound>>

StopCarrierTrack ==
    /\ serving.at = "detach"
    /\ DetachWindow
    /\ serving' = IF running = {} THEN Ending("endSound", FALSE) ELSE LoopIdle
    /\ UNCHANGED <<toHost, running, stopped, feeds, sound>>

\* end_stream: the sound, the track, then the client is told.
EndSound ==
    /\ serving.at = "endSound"
    /\ sound' = FALSE
    /\ serving' = [serving EXCEPT !.at = "endTrack"]
    /\ UNCHANGED <<channel, running, stopped, feeds, track>>

EndTrack ==
    /\ serving.at = "endTrack"
    /\ IF serving.onTrack THEN DetachWindow ELSE UNCHANGED <<track, toClient>>
    /\ serving' = [serving EXCEPT !.at = "endTell"]
    /\ UNCHANGED <<toHost, running, stopped, feeds, sound>>

EndTell ==
    /\ serving.at = "endTell"
    /\ Send(StreamStopped)
    /\ serving' = LoopIdle
    /\ UNCHANGED <<toHost, running, stopped, feeds, track, sound>>

-----------------------------------------------------------------------------
\* The frame thread (feed).

MoveFeed(f, at) == feeds' = (feeds \ {f}) \cup {[f EXCEPT !.at = at]}
EndFeed(f) == feeds' = feeds \ {f}

\* The loop sees the stop flag.
FeedStops(f) ==
    /\ f.at = "run"
    /\ f.gen \in stopped
    /\ EndFeed(f)
    /\ UNCHANGED <<channel, serving, running, stopped, track, sound>>

\* next_frame has no more, or the track takes no more.
FeedBreaks(f) ==
    /\ ~ calm
    /\ f.at = "run"
    /\ MoveFeed(f, "check")
    /\ UNCHANGED <<channel, serving, running, stopped, track, sound>>

\* "A window that closed by itself ends its stream here": the flag is read
\* once, and what follows awaits three times.
FeedChecks(f) ==
    /\ f.at = "check"
    /\ IF f.gen \in stopped THEN EndFeed(f) ELSE MoveFeed(f, "sound")
    /\ UNCHANGED <<channel, serving, running, stopped, track, sound>>

FeedEndsSound(f) ==
    /\ f.at = "sound"
    /\ sound' = FALSE
    /\ MoveFeed(f, "track")
    /\ UNCHANGED <<channel, serving, running, stopped, track>>

FeedEndsTrack(f) ==
    /\ f.at = "track"
    /\ DetachWindow
    /\ MoveFeed(f, "tell")
    /\ UNCHANGED <<toHost, serving, running, stopped, sound>>

FeedTells(f) ==
    /\ f.at = "tell"
    /\ Send(StreamStopped)
    /\ EndFeed(f)
    /\ UNCHANGED <<toHost, serving, running, stopped, track, sound>>

-----------------------------------------------------------------------------
\* The session loop goes on by itself once it has taken a message.
LoopStep ==
    \/ RefuseCarried \/ RefusePolicy \/ BeginStart \/ OpenFails \/ OpenCarrier
    \/ StartSound \/ AnswerStart
    \/ StopNothing \/ StopStream \/ CarrierStopNothing \/ StopCarrierTrack
    \/ EndSound \/ EndTrack \/ EndTell
    \/ \E r \in Carrier : StopCarrier(r)

FeedStep ==
    \E f \in feeds :
        \/ FeedStops(f) \/ FeedBreaks(f) \/ FeedChecks(f)
        \/ FeedEndsSound(f) \/ FeedEndsTrack(f) \/ FeedTells(f)

HostNext == LoopStep \/ FeedStep
=============================================================================
