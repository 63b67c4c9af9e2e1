------------------------------ MODULE LinuxAgent ------------------------------
(***************************************************************************)
(* A stream of a window on a Linux host: the compositor's capture session   *)
(* (agent-linux capture.rs), which hands over one picture at a time in a    *)
(* buffer of the host's, and the stream that reads it (WindowStream and     *)
(* WindowPictures of source.rs).  The compositor completes a capture when   *)
(* the window has drawn, refuses a buffer of another size than the window,  *)
(* and sends new constraints when the size changes; its events arrive in    *)
(* the order it sends them.                                                 *)
(***************************************************************************)
EXTENDS Naturals, Sequences

CONSTANTS
    CaptureSizes,       \* sizes a window can have
    MaxDraws,           \* bound: times the window draws
    MaxQualityChanges   \* bound: changes of the quality, and keyframe requests

NoSize == 0

VARIABLES
    drawn,          \* the window: its content's version, its size, alive, on the screen
    cut,            \* Cut: "whole" window, or the "window" cut from its output
    kind,           \* "frames" (WindowStream) or "pictures" (WindowPictures)
    pendingSize,    \* the compositor: the buffer of the capture asked for, or NoSize
    copied,         \* the compositor: the version of the last picture it gave
    owesSize,       \* the compositor: constraints it has not sent
    events,         \* events on their way to the host
    capState,       \* State: size, constraints, stopped, ready, failed; as history,
                    \* told: constraints have come since the buffer was made
    frame,          \* Capture.frame: a capture is in flight
    buffer,         \* Capture.buffer: its size and what is in it
    havePicture,
    phase,          \* "poll", "constraints", "judge", "ended"
    changed,        \* what poll returned
    key,            \* next_frame's `keyframe`
    keyframeAsked,  \* the next call asks for a keyframe
    scale,          \* Quality.scale: 1 or 2 (half)
    encoder,        \* the size and rate of the open encoder, or NoSize
    due,            \* REFRESH has passed since last_sent
    out,            \* the last unit sent: version, size, and whether a key unit
    announced,      \* the size last announced
    whyEnded, qualityChanges

captureVars == <<drawn, cut, kind, pendingSize, copied, owesSize, events, capState, frame, buffer,
                 havePicture, phase, changed, key, keyframeAsked, scale, encoder, due, out, announced,
                 whyEnded, qualityChanges>>
windowSide == <<drawn, cut, kind>>
compositorVars == <<pendingSize, copied, owesSize>>
bufferVars == <<frame, buffer, havePicture>>
streamVars == <<key, keyframeAsked, scale, encoder, due, out, announced, qualityChanges>>

\* Capture::open: the session, its first constraints and a buffer for them.
\* The first picture is the next the window draws.
CaptureInit ==
    /\ \E s \in CaptureSizes, c \in {"whole", "window"} :
         /\ drawn = [version |-> 0, size |-> s, alive |-> TRUE, shown |-> TRUE]
         /\ cut = c
         /\ capState = [size |-> s, constraints |-> TRUE, stopped |-> FALSE, ready |-> FALSE, failed |-> "",
                      told |-> FALSE]
         /\ buffer = [size |-> s, version |-> 0]
    /\ kind \in {"frames", "pictures"}
    /\ pendingSize = NoSize /\ copied = 0 /\ owesSize = FALSE /\ events = <<>>
    /\ frame = FALSE /\ havePicture = FALSE
    /\ phase = "poll" /\ changed = FALSE
    /\ key = TRUE /\ keyframeAsked = FALSE /\ scale = 1
    /\ encoder = [size |-> NoSize, rate |-> NoSize] /\ due = (kind = "pictures")
    /\ out = [version |-> 0, size |-> NoSize, key |-> FALSE] /\ announced = NoSize
    /\ whyEnded = "" /\ qualityChanges = 0

-----------------------------------------------------------------------------
(* The window and its compositor. *)

Draw(size, shown) ==
    /\ drawn.alive /\ drawn.version < MaxDraws
    /\ drawn' = [drawn EXCEPT !.version = @ + 1, !.size = size, !.shown = shown]
    /\ owesSize' = (owesSize \/ (cut = "whole" /\ size # drawn.size))
    /\ UNCHANGED <<cut, kind, pendingSize, copied, events>>

CapturedWindowCloses ==
    /\ drawn.alive
    /\ drawn' = [drawn EXCEPT !.alive = FALSE]
    /\ pendingSize' = NoSize /\ owesSize' = FALSE
    /\ events' = Append(events, [kind |-> "stopped"])
                   \o (IF pendingSize # NoSize THEN <<[kind |-> "failed", why |-> "stopped"]>> ELSE <<>>)
    /\ UNCHANGED <<cut, kind, copied>>

\* New constraints: before a capture fails for them or after.
SendConstraints ==
    /\ owesSize
    /\ owesSize' = FALSE
    /\ events' = events \o <<[kind |-> "size", size |-> drawn.size], [kind |-> "done"]>>
    /\ UNCHANGED <<windowSide, pendingSize, copied>>

Fits == cut = "window" \/ pendingSize = drawn.size

CompletesCapture ==
    /\ pendingSize # NoSize /\ Fits /\ drawn.alive /\ copied # drawn.version
    /\ copied' = drawn.version
    /\ buffer' = [buffer EXCEPT !.version = drawn.version]
    /\ pendingSize' = NoSize
    /\ events' = Append(events, [kind |-> "ready"])
    /\ UNCHANGED <<windowSide, owesSize>>

FailsCapture ==
    /\ pendingSize # NoSize /\ ~Fits
    /\ pendingSize' = NoSize
    /\ events' = Append(events, [kind |-> "failed", why |-> "constraints"])
    /\ UNCHANGED <<windowSide, copied, owesSize>>

CompositorStep ==
    /\ \/ \E size \in CaptureSizes, shown \in BOOLEAN : Draw(size, shown) /\ UNCHANGED buffer
       \/ CompletesCapture
       \/ (CapturedWindowCloses \/ SendConstraints \/ FailsCapture) /\ UNCHANGED buffer
    /\ UNCHANGED <<capState, frame, havePicture, phase, changed, streamVars, whyEnded>>

-----------------------------------------------------------------------------
(* Capture. *)

\* The session's and the frame's dispatchers.
SessionEvent(s, e) ==
    CASE e.kind = "size"    -> [s EXCEPT !.size = e.size, !.constraints = FALSE]
      [] e.kind = "done"    -> [s EXCEPT !.constraints = TRUE, !.told = TRUE]
      [] e.kind = "stopped" -> [s EXCEPT !.stopped = TRUE]
      [] OTHER              -> s
FrameEvent(s, e) ==
    CASE e.kind = "ready"  -> [s EXCEPT !.ready = TRUE]
      [] e.kind = "failed" -> [s EXCEPT !.failed = e.why]
      [] OTHER             -> s

\* dispatch: what has arrived is handled at once.
Handled(s, n) ==
    LET after[i \in 0..n] == IF i = 0 THEN s ELSE FrameEvent(SessionEvent(after[i - 1], events[i]), events[i])
    IN after[n]
Dispatch(s, n) ==
    /\ capState' = Handled(s, n)
    /\ events' = SubSeq(events, n + 1, Len(events))

CaptureEnds(why) == phase' = "ended" /\ whyEnded' = why

\* The top of poll's loop: a capture is put in flight when there is none.
StartsCapture ==
    /\ phase = "poll" /\ ~capState.stopped /\ ~frame
    /\ frame' = TRUE
    /\ pendingSize' = IF drawn.alive THEN buffer.size ELSE NoSize
    /\ capState' = [capState EXCEPT !.ready = FALSE, !.failed = ""]
    /\ UNCHANGED <<windowSide, copied, owesSize, events, buffer, havePicture, phase, changed, streamVars, whyEnded>>

PollStopped ==
    /\ phase = "poll" /\ capState.stopped
    /\ CaptureEnds("gone")
    /\ UNCHANGED <<windowSide, compositorVars, events, capState, bufferVars, changed, streamVars>>

Waiting == phase = "poll" /\ frame /\ ~capState.stopped

PollReady(n) ==
    /\ Waiting /\ Dispatch(capState, n) /\ capState'.ready
    /\ frame' = FALSE /\ havePicture' = TRUE
    /\ phase' = "judge" /\ changed' = TRUE
    /\ UNCHANGED <<windowSide, compositorVars, buffer, streamVars, whyEnded>>

\* A capture the window's size refuses: the old picture is gone, and the
\* constraints are waited for. Those that have come already are cleared too.
PollFailed(n) ==
    LET s == Handled(capState, n) IN
    /\ Waiting /\ ~s.ready /\ s.failed # ""
    /\ events' = SubSeq(events, n + 1, Len(events))
    /\ frame' = FALSE
    /\ IF s.failed = "stopped"
         THEN /\ CaptureEnds("gone")
              /\ capState' = [s EXCEPT !.failed = ""]
              /\ UNCHANGED havePicture
         ELSE /\ phase' = "constraints" /\ havePicture' = FALSE
              /\ capState' = [s EXCEPT !.failed = "", !.constraints = FALSE]
              /\ UNCHANGED whyEnded
    /\ UNCHANGED <<windowSide, compositorVars, buffer, changed, streamVars>>

\* Nothing within the frame's time (events that matter to neither count as
\* nothing).
CompositorPollTimesOut(n) ==
    LET s == Handled(capState, n) IN
    /\ Waiting /\ ~s.ready /\ s.failed = ""
    /\ Dispatch(capState, n)
    /\ phase' = "judge" /\ changed' = FALSE
    /\ UNCHANGED <<windowSide, compositorVars, bufferVars, streamVars, whyEnded>>

Poll == PollStopped \/ \E n \in 0..Len(events) : PollReady(n) \/ PollFailed(n) \/ CompositorPollTimesOut(n)

\* wait_for_constraints: five seconds are longer than any event takes.
Allocate(size) == buffer' = [size |-> size, version |-> 0]
WaitForConstraints ==
    /\ phase = "constraints"
    /\ \/ \* more events
          /\ ~capState.constraints /\ ~capState.stopped /\ events # <<>>
          /\ Dispatch(capState, Len(events))
          /\ UNCHANGED <<buffer, phase, whyEnded>>
       \/ \* allocate
          /\ capState.constraints
          /\ Allocate(capState.size)
          /\ capState' = [capState EXCEPT !.told = FALSE]
          /\ phase' = "poll"
          /\ UNCHANGED <<events, whyEnded>>
       \/ /\ ~capState.constraints /\ capState.stopped
          /\ CaptureEnds("gone")
          /\ UNCHANGED <<capState, events, buffer>>
       \/ \* the deadline
          /\ ~capState.constraints /\ ~capState.stopped /\ events = <<>> /\ ~owesSize
          /\ CaptureEnds("no constraints")
          /\ UNCHANGED <<capState, events, buffer>>
    /\ UNCHANGED <<windowSide, compositorVars, frame, havePicture, changed, streamVars>>

-----------------------------------------------------------------------------
(* The stream. *)

\* cut_rect: nothing while no part of the window is on its output.
CutRect == cut = "whole" \/ drawn.shown
Picture == havePicture /\ CutRect
PictureSize == IF cut = "whole" THEN buffer.size ELSE drawn.size

RefreshPasses ==
    /\ ~due /\ phase # "ended"
    /\ due' = TRUE
    /\ UNCHANGED <<windowSide, compositorVars, events, capState, bufferVars, phase, changed, key, keyframeAsked, scale,
                   encoder, out, announced, whyEnded, qualityChanges>>

\* A window that does not change is sent again after REFRESH.
OnlyChanges(urgent) == changed \/ urgent
SendsNow(urgent) == changed \/ urgent \/ due

Judging == phase = "judge" /\ phase' = "poll"
PollsOn ==
    /\ Judging
    /\ ~(SendsNow(kind = "frames" /\ key) /\ Picture)
    /\ UNCHANGED <<windowSide, compositorVars, events, capState, bufferVars, changed, streamVars, whyEnded>>

\* WindowPictures::next_picture.
NextPicture ==
    /\ Judging /\ kind = "pictures" /\ SendsNow(FALSE) /\ Picture
    /\ out' = [version |-> buffer.version, size |-> PictureSize, key |-> TRUE]
    /\ announced' = PictureSize
    /\ due' = FALSE
    /\ UNCHANGED <<windowSide, compositorVars, events, capState, bufferVars, changed, key, keyframeAsked, scale,
                   encoder, whyEnded, qualityChanges>>

\* fps and bitrate, as far as they follow the size and the quality.
Rate(size) == size * scale
UnitSize == PictureSize \div scale

\* The encoder is opened again for another size, and told another rate.
CaptureReopens == encoder.size # UnitSize
Keyed == key \/ CaptureReopens
EncodedUnit == [version |-> buffer.version, size |-> UnitSize, key |-> Keyed]

\* WindowStream::next_frame: a unit, announced when the encoder was opened
\* for it.  The next call has the quality set and the keyframe asked for since.
NextCapturedFrame ==
    /\ Judging /\ kind = "frames" /\ SendsNow(key) /\ Picture
    /\ encoder' = [size |-> UnitSize, rate |-> Rate(UnitSize)]
    /\ out' = EncodedUnit
    /\ announced' = IF CaptureReopens THEN UnitSize ELSE announced
    /\ key' = keyframeAsked /\ keyframeAsked' = FALSE
    /\ due' = FALSE
    /\ \/ UNCHANGED <<scale, qualityChanges>>
       \/ /\ qualityChanges < MaxQualityChanges
          /\ qualityChanges' = qualityChanges + 1
          /\ scale' \in {1, 2} \ {scale}
    /\ UNCHANGED <<windowSide, compositorVars, events, capState, bufferVars, changed, whyEnded>>

\* encode gives nothing: the rate control skips a unit, never a key unit.
EncoderSkips ==
    /\ Judging /\ kind = "frames" /\ SendsNow(key) /\ Picture /\ ~Keyed
    /\ encoder' = [encoder EXCEPT !.rate = Rate(UnitSize)]
    /\ UNCHANGED <<windowSide, compositorVars, events, capState, bufferVars, changed, key, keyframeAsked, scale, due,
                   out, announced, whyEnded, qualityChanges>>

EncoderFails ==
    /\ phase = "judge" /\ kind = "frames" /\ SendsNow(key) /\ Picture
    /\ CaptureEnds("encoder")
    /\ UNCHANGED <<windowSide, compositorVars, events, capState, bufferVars, changed, streamVars>>

KeyframeIsAsked ==
    /\ kind = "frames" /\ ~keyframeAsked /\ qualityChanges < MaxQualityChanges
    /\ keyframeAsked' = TRUE /\ qualityChanges' = qualityChanges + 1
    /\ UNCHANGED <<windowSide, compositorVars, events, capState, bufferVars, phase, changed, key, scale, encoder,
                   due, out, announced, whyEnded>>

StreamStep == StartsCapture \/ Poll \/ WaitForConstraints \/ PollsOn \/ NextPicture \/ NextCapturedFrame
StreamMay == EncoderSkips \/ EncoderFails \/ KeyframeIsAsked

CaptureNext == CompositorStep \/ StreamStep \/ StreamMay \/ RefreshPasses

\* The stream's thread runs, time passes, the compositor answers, its events
\* arrive in time for some poll, and an encoder that skips units does not
\* skip all of them.
CaptureFairness ==
    /\ WF_captureVars(StreamStep) /\ WF_captureVars(RefreshPasses)
    /\ WF_captureVars((SendConstraints \/ FailsCapture) /\ UNCHANGED <<buffer, capState, frame, havePicture, phase, changed, streamVars, whyEnded>>)
    /\ WF_captureVars(CompletesCapture /\ UNCHANGED <<capState, frame, havePicture, phase, changed, streamVars, whyEnded>>)
    /\ SF_captureVars(Len(events) > 0 /\ Poll /\ Len(events') = 0)
    /\ SF_captureVars(NextCapturedFrame)
CaptureSpec == CaptureInit /\ [][CaptureNext]_captureVars

-----------------------------------------------------------------------------
(* Properties *)

\* A stream ends when its window went away or the encoder failed; one that waits
\* for constraints in vain had been sent them, before the refusal cleared them.
EndsForAReason ==
    /\ phase = "ended"
    /\ \/ whyEnded = "gone" /\ ~drawn.alive
       \/ whyEnded = "encoder"
       \/ whyEnded = "no constraints" /\ capState.told

\* WindowStream, WindowPictures (REFRESH): a window that has drawn and is left
\* alone is shown as it is in the end, whatever units were skipped, resizes
\* refused and polls timed out meanwhile; or its stream has ended, since the
\* window went away, the encoder failed, or, the one case in which a window that
\* is there loses its stream, the refusal cleared the constraints it waits for
\* (capture.rs:449). That case is no promise of the code: see
\* StreamsEndWithTheirWindow.
WindowIsShown == CaptureFairness =>
    <>[](\/ EndsForAReason
         \/ out.version = drawn.version
         \/ cut = "window" /\ ~drawn.shown)

\* WindowStream::next_frame: what is sent has the size announced last.
UnitsHaveTheAnnouncedSize == out.size = announced

\* "Fails when the window went away" (capture.rs:410), since after a refusal "new
\* constraints follow" (capture.rs:445): no stream of a window that is there
\* waits for constraints in vain.
StreamsEndWithTheirWindow == whyEnded = "no constraints" => ~drawn.alive

\* The Linux capture from the compositor's events to the units sent.
PictureIsTheWindows == WindowIsShown /\ []UnitsHaveTheAnnouncedSize

-----------------------------------------------------------------------------
(***************************************************************************)
(* A private session (docs/BACKENDS.md): on Linux a headless sway of the    *)
(* host's own that the agent serves instead of the seat's (agent-linux      *)
(* private.rs, display.rs, source.rs), on Windows a Remote Desktop          *)
(* connection of the host to itself (agent-windows private.rs, rdp          *)
(* private_session.rs).  A client's sessions start and end it; one that     *)
(* started it ends it when it goes, in a thread of its own (EndPrivate of   *)
(* host-core).  Meanwhile input goes to whatever is served.                 *)
(***************************************************************************)

CONSTANTS
    PrivateSessions,    \* the sessions of one client
    MaxSways,           \* bound: headless sways and connections
    MaxAsked,           \* bound: requests and changes of the host's option
    MaxTypedEvents      \* bound: input events

Seat == 0       \* the display served otherwise; a private one is its number

VARIABLES
    system,         \* "linux" or "windows"
    offered,        \* Options.private_session
    headless,       \* the headless sway or connection: number (0 for none), and running
    on,             \* Linux: the second half of `private`
    servedDisplay,  \* display::CURRENT
    generation,     \* display::GENERATION
    launchEnv,      \* where programs are started: LAUNCH_ENV
    askedFor,         \* sessions: "open" or "gone"
    startedBy,      \* EndPrivate.started
    enders,         \* EndPrivate threads that have not run
    injector,       \* the Linux injector: its tag, where its sway and its devices are, made or failed
    typing,         \* the input event: "idle", "checked", "connected", "made"
    switchedSince,  \* history: the display served changed since the event's turn began
    sways, askedTimes, typedEvents

privateVars == <<system, offered, headless, on, servedDisplay, generation, launchEnv, askedFor, startedBy,
                 enders, injector, typing, switchedSince, sways, askedTimes, typedEvents>>
displayVars == <<servedDisplay, generation, launchEnv, switchedSince>>
sessionVars == <<askedFor, startedBy, enders>>
inputVarsP == <<injector, typing, typedEvents>>

NoSway == [number |-> 0, running |-> FALSE]
NoInjector == [tag |-> 0, sway |-> 0, devices |-> 0, state |-> "none"]

PrivateInit ==
    /\ system \in {"linux", "windows"}
    /\ offered \in BOOLEAN
    /\ headless = NoSway /\ on = FALSE
    /\ servedDisplay = Seat /\ generation = 0 /\ launchEnv = Seat
    /\ askedFor = [s \in PrivateSessions |-> "open"]
    /\ startedBy = [s \in PrivateSessions |-> FALSE] /\ enders = 0
    /\ injector = NoInjector /\ typing = "idle" /\ switchedSince = FALSE
    /\ sways = 0 /\ askedTimes = 0 /\ typedEvents = 0

-----------------------------------------------------------------------------
(* The display served. *)

\* display::set: counted only when it is another.
SetDisplay(d) ==
    /\ servedDisplay' = d
    /\ generation' = IF d = servedDisplay THEN generation ELSE generation + 1
    /\ switchedSince' = (switchedSince \/ d # servedDisplay)

\* serve: programs that clients start go there too.
ServeDisplay(d) == SetDisplay(d) /\ launchEnv' = d

\* Running: the sway has not exited, the connection has not ended.
Running == headless.number # 0 /\ headless.running
Active == IF system = "linux" THEN on ELSE headless.number # 0

SwayStops ==
    /\ Running
    /\ headless' = [headless EXCEPT !.running = FALSE]
    /\ UNCHANGED <<system, offered, on, displayVars, sessionVars, inputVarsP, sways, askedTimes>>

\* host_state, as the session's task asks for it: a private session whose
\* sway or connection is over is over.
HostState ==
    /\ Active /\ ~Running
    /\ headless' = NoSway
    /\ on' = FALSE
    /\ IF system = "linux" THEN ServeDisplay(Seat) ELSE UNCHANGED displayVars
    /\ UNCHANGED <<system, offered, sessionVars, inputVarsP, sways, askedTimes>>

-----------------------------------------------------------------------------
(* Starting and ending. *)

\* Headless::start, Connection::start: a new one or an error.
Starts ==
    /\ sways < MaxSways
    /\ sways' = sways + 1
    /\ headless' = [number |-> sways + 1, running |-> TRUE]

\* set_private_session(true) of the Linux agent: the sway that still runs is
\* used again.
SetOnLinux ==
    /\ IF Running THEN UNCHANGED <<headless, sways>> ELSE Starts
    /\ on' = TRUE
    /\ ServeDisplay(headless'.number)

\* The same of the Windows agent: one that runs is kept.
SetOnWindows ==
    /\ IF Running THEN UNCHANGED <<headless, sways>> ELSE Starts
    /\ UNCHANGED <<on, displayVars>>

SetOn == IF system = "linux" THEN SetOnLinux ELSE SetOnWindows

\* set_private_session(false): the headless sway stays up, with the programs
\* in it; the connection is closed.
SetOff ==
    /\ on' = FALSE
    /\ IF system = "linux"
         THEN ServeDisplay(Seat) /\ UNCHANGED headless
         ELSE headless' = NoSway /\ UNCHANGED displayVars
    /\ UNCHANGED sways

\* Not offered, no password, or it did not start.
MayBeRefused == ~offered \/ ~Running

Stores(s, start, done) == startedBy' = IF done THEN [startedBy EXCEPT ![s] = start] ELSE startedBy

ClientAsks(s) ==
    /\ askedFor[s] = "open" /\ askedTimes < MaxAsked
    /\ askedTimes' = askedTimes + 1
    /\ UNCHANGED <<system, offered, askedFor, enders, inputVarsP>>

AskStart(s) ==
    /\ ClientAsks(s)
    /\ \/ /\ offered /\ SetOn
          /\ Stores(s, TRUE, TRUE)
       \/ /\ MayBeRefused
          /\ Stores(s, TRUE, FALSE)
          /\ UNCHANGED <<headless, on, displayVars, sways>>

AskEnd(s) ==
    /\ ClientAsks(s)
    /\ SetOff
    /\ Stores(s, FALSE, TRUE)

\* The host's owner turns the option on or off.
OptionChanges ==
    /\ askedTimes < MaxAsked
    /\ askedTimes' = askedTimes + 1
    /\ offered' = ~offered
    /\ UNCHANGED <<system, headless, on, displayVars, sessionVars, inputVarsP, sways>>

\* Serving is dropped: EndPrivate leaves the end to a thread.
SessionGoes(s) ==
    /\ askedFor[s] = "open"
    /\ askedFor' = [askedFor EXCEPT ![s] = "gone"]
    /\ startedBy' = [startedBy EXCEPT ![s] = FALSE]
    /\ enders' = IF startedBy[s] THEN enders + 1 ELSE enders
    /\ UNCHANGED <<system, offered, headless, on, displayVars, inputVarsP, sways, askedTimes>>

EndPrivate ==
    /\ enders > 0
    /\ enders' = enders - 1
    /\ SetOff
    /\ UNCHANGED <<system, offered, askedFor, startedBy, inputVarsP, askedTimes>>

-----------------------------------------------------------------------------
(* Input on Linux: LinuxSource::input, under the injector's lock.  The       *)
(* display may change at any moment of it.                                  *)

\* The generation is read, and an injector of another one is let go.
InputChecks ==
    /\ system = "linux" /\ typing = "idle" /\ typedEvents < MaxTypedEvents
    /\ typedEvents' = typedEvents + 1
    /\ switchedSince' = FALSE
    /\ LET kept == injector.state # "none" /\ injector.tag = generation
       IN /\ injector' = IF kept THEN injector ELSE [NoInjector EXCEPT !.tag = generation]
          /\ typing' = IF kept THEN "made" ELSE "checked"
    /\ UNCHANGED <<system, offered, headless, on, servedDisplay, generation, launchEnv, sessionVars,
                   sways, askedTimes>>

InputStep(from, to) ==
    /\ typing = from /\ typing' = to
    /\ UNCHANGED <<system, offered, headless, on, displayVars, sessionVars, sways, askedTimes, typedEvents>>

\* Injector::new: sway first, then the compositor its devices are on.
Alive(d) == d = Seat \/ (d = headless.number /\ headless.running)
ConnectsSway ==
    /\ InputStep("checked", "connected")
    /\ injector' = [injector EXCEPT !.sway = servedDisplay,
                                    !.state = IF Alive(servedDisplay) THEN "none" ELSE "failed"]
TagsLate(i) == [i EXCEPT !.devices = servedDisplay, !.tag = generation]
TagsAsRead(i) == [i EXCEPT !.devices = servedDisplay]
ConnectsDevices ==
    /\ InputStep("connected", "made")
    /\ injector' = IF injector.state = "failed" \/ ~Alive(servedDisplay)
                     THEN [injector EXCEPT !.state = "failed"]
                     ELSE [TagsAsRead(injector) EXCEPT !.state = "made"]

\* inject: the window is found by its sway, the event goes to its devices.
Injects ==
    /\ InputStep("made", "idle")
    /\ UNCHANGED injector

PrivateNext ==
    \/ \E s \in PrivateSessions : AskStart(s) \/ AskEnd(s) \/ SessionGoes(s)
    \/ OptionChanges \/ SwayStops \/ HostState \/ EndPrivate
    \/ InputChecks \/ ConnectsSway \/ ConnectsDevices \/ Injects

\* The thread runs, and the host's state is asked for while a session is open.
PrivateFairness == WF_privateVars(EndPrivate)
PrivateSpec == PrivateInit /\ [][PrivateNext]_privateVars

-----------------------------------------------------------------------------
(* Properties *)

\* LinuxSource::input, display.rs ("what was made for one compositor is made
\* again for the next"): an event goes to the compositor served, to the
\* devices and the windows of one and the same, unless it changed while the
\* event's turn was on.
InputGoesToTheServed ==
    (typing = "made" /\ injector.state = "made" /\ ~switchedSince)
        => injector.sway = servedDisplay /\ injector.devices = servedDisplay

=============================================================================
