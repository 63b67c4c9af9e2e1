---------------------------- MODULE ViewerWindows -----------------------------
(***************************************************************************)
(* A stream window of the reference client (client-windows/src/window.rs):  *)
(* a thread that shows one window's pictures, on whichever carrier, and     *)
(* runs a switch's new carrier beside the current one until it has a        *)
(* picture.  Around it: the switch in client-core with its timer            *)
(* (client-core/src/lib.rs), and the app's event thread, which hands        *)
(* carriers to the window through two slots (app/src/client.rs).            *)
(***************************************************************************)
EXTENDS Naturals, Sequences, FiniteSets

CONSTANTS
    MaxSwitches,    \* bound: switches asked for
    MaxFailures     \* bound: pictures that do not decode, decoders that do not open

Gens == 1..(MaxSwitches + 1)
Other(kind) == IF kind = "video" THEN "pictures" ELSE "video"

VARIABLES
    asked,          \* the last generation asked for
    shownOn,        \* Carriers.shown, 0 once the stream is over
    switching,      \* Carriers.next, or 0
    kindOf,         \* the kind of each carrier asked for
    served,         \* the carriers the host serves
    told,           \* carrier events on their way to the app
    keyAsked,       \* the slot's keyframe flag, or a stream's first frame
    frame,          \* the window's frame queue: "none", "key" or "delta"
    picture,        \* RdpStream: "none" yet, "new", or "taken"
    switchSlot,     \* Shared.switch: a generation, or 0
    cancelSlot,     \* Shared.cancel_switch
    turn,           \* where the thread is in its loop; "gone" when it ended
    active,         \* the carrier whose path is on screen
    pending,        \* the carrier whose path waits for a picture, or 0
    needsKey,       \* the carriers whose path is waiting_for_keyframe
    hasLast,        \* the carriers whose path has shown a picture (`last`)
    unopened,       \* history: carriers whose path did not open
    decoderFailures

streamWindowVars ==
    <<asked, shownOn, switching, kindOf, served, told, keyAsked, frame, picture, switchSlot,
      cancelSlot, turn, active, pending, needsKey, hasLast, unopened, decoderFailures>>

clientSide == <<asked, shownOn, switching, kindOf, served, told, keyAsked, frame, picture>>
windowSide == <<switchSlot, cancelSlot, turn, active, pending, needsKey, hasLast, unopened, decoderFailures>>

\* The window was opened for its first carrier, a video stream.
WindowInit ==
    /\ asked = 1 /\ shownOn = 1 /\ switching = 0
    /\ kindOf = [g \in Gens |-> "video"]
    /\ served = {1} /\ told = <<>>
    /\ keyAsked = TRUE /\ frame = "none" /\ picture = "none"
    /\ switchSlot = 0 /\ cancelSlot = 0
    /\ turn = "slots" /\ active = 1 /\ pending = 0
    /\ needsKey = {1} /\ hasLast = {}
    /\ unopened = {} /\ decoderFailures = 0

Serves(kind) == \E g \in served : kindOf[g] = kind

\* The end of carrier g at the client: its connection or its queue goes.
Ends(g) ==
    /\ served' = served \ {g}
    /\ frame' = IF kindOf[g] = "video" THEN "none" ELSE frame
    /\ picture' = IF kindOf[g] = "pictures" THEN "none" ELSE picture

-----------------------------------------------------------------------------
\* The switch in client-core and the host's answer to it.

\* start_switch
StartsSwitch ==
    /\ asked <= MaxSwitches /\ shownOn # 0 /\ switching = 0
    /\ asked' = asked + 1
    /\ switching' = asked'
    /\ kindOf' = [kindOf EXCEPT ![asked'] = Other(kindOf[shownOn])]
    /\ UNCHANGED <<shownOn, served, told, keyAsked, frame, picture, windowSide>>

\* The carrier is up: a video stream begins with a keyframe, an RDP one with
\* whatever picture the server sends first.
CarrierComesUp ==
    /\ switching # 0 /\ switching \notin served
    /\ served' = served \cup {switching}
    /\ told' = Append(told, <<"Started", switching>>)
    /\ keyAsked' = (keyAsked \/ kindOf[switching] = "video")
    /\ UNCHANGED <<asked, shownOn, switching, kindOf, frame, picture, windowSide>>

CarrierIsRefused ==
    /\ switching # 0 /\ switching \notin served
    /\ told' = Append(told, <<"Refused", switching>>)
    /\ switching' = 0
    /\ UNCHANGED <<asked, shownOn, kindOf, served, keyAsked, frame, picture, windowSide>>

\* SWITCH_WITHIN is over: abandon_switch.
SwitchIsGivenUp ==
    /\ switching \in served
    /\ Ends(switching)
    /\ told' = Append(told, <<"Refused", switching>>)
    /\ switching' = 0
    /\ UNCHANGED <<asked, shownOn, kindOf, keyAsked, windowSide>>

\* carrier_shown, called by the window: a switch that is over is not heard of.
CarrierShownOnce(g) ==
    IF switching = g
      THEN /\ shownOn' = g /\ switching' = 0
           /\ Ends(shownOn)
      ELSE UNCHANGED <<shownOn, switching, served, frame, picture>>

\* A frame of the video stream: a keyframe if one was asked for.  A full
\* queue is left to the frame pump, whose next frame is a keyframe again.
FrameArrives ==
    /\ Serves("video") /\ frame = "none"
    /\ frame' = IF keyAsked THEN "key" ELSE "delta"
    /\ keyAsked' = FALSE
    /\ UNCHANGED <<asked, shownOn, switching, kindOf, served, told, picture, windowSide>>

PictureArrives ==
    /\ Serves("pictures") /\ picture # "new"
    /\ picture' = "new"
    /\ UNCHANGED <<asked, shownOn, switching, kindOf, served, told, keyAsked, frame, windowSide>>

\* The host stops the stream: every carrier ends.
StreamIsStopped ==
    /\ shownOn # 0
    /\ shownOn' = 0 /\ switching' = 0 /\ served' = {}
    /\ frame' = "none" /\ picture' = "none"
    /\ UNCHANGED <<asked, kindOf, told, keyAsked, windowSide>>

-----------------------------------------------------------------------------
\* The app's event thread: on_carrier_started and on_carrier_refused.

OnCarrierEvent(kind) == told # <<>> /\ Head(told)[1] = kind /\ told' = Tail(told)

OnCarrierStarted ==
    /\ OnCarrierEvent("Started")
    /\ switchSlot' = Head(told)[2]
    /\ UNCHANGED <<asked, shownOn, switching, kindOf, served, keyAsked, frame, picture,
                   cancelSlot, turn, active, pending, needsKey, hasLast, unopened, decoderFailures>>

OnCarrierRefused ==
    /\ OnCarrierEvent("Refused")
    /\ cancelSlot' = Head(told)[2]
    /\ UNCHANGED <<asked, shownOn, switching, kindOf, served, keyAsked, frame, picture,
                   switchSlot, turn, active, pending, needsKey, hasLast, unopened, decoderFailures>>

-----------------------------------------------------------------------------
\* The window's loop (`show`): the two slots, then the active path, then the
\* pending one.

Fails == decoderFailures < MaxFailures /\ decoderFailures' = decoderFailures + 1

\* Path::open for g: a video path asks for a keyframe.
OpenPath(g) ==
    /\ pending' = g
    /\ needsKey' = needsKey \cup {g}
    /\ keyAsked' = (keyAsked \/ kindOf[g] = "video")
    /\ hasLast' = hasLast \ {g}

TakeSwitch ==
    /\ turn = "slots"
    /\ turn' = "cancel"
    /\ switchSlot' = 0
    /\ \/ /\ switchSlot # 0
          /\ OpenPath(switchSlot)
          /\ UNCHANGED <<unopened, decoderFailures>>
       \/ /\ switchSlot # 0 /\ Fails
          /\ unopened' = unopened \cup {switchSlot}
          /\ UNCHANGED <<pending, needsKey, keyAsked, hasLast>>
       \/ /\ switchSlot = 0
          /\ UNCHANGED <<pending, needsKey, keyAsked, hasLast, unopened, decoderFailures>>
    /\ UNCHANGED <<asked, shownOn, switching, kindOf, served, told, frame, picture, cancelSlot,
                   active>>

\* Bug to catch: whatever is pending is given up, not the switch named.
DropsAnyPending == pending' = 0

\* Only the switch that is in flight is given up.
DropsCancelled == pending' = IF pending = cancelSlot THEN 0 ELSE pending

TakeCancel ==
    /\ turn = "cancel"
    /\ turn' = "active"
    /\ cancelSlot' = 0
    /\ IF cancelSlot = 0 THEN UNCHANGED pending ELSE DropsCancelled
    /\ UNCHANGED <<clientSide, switchSlot, active, needsKey, hasLast, unopened, decoderFailures>>

\* Path::poll of carrier g: `shows`, `ends` or `nothing`.  What it takes:
Ready(g) == IF kindOf[g] = "video" THEN frame # "none"
            ELSE picture = "new" \/ (picture = "taken" /\ g \notin hasLast)
Over(g) == ~ Serves(kindOf[g])

\* Bug to catch: the decoder is reset, but no keyframe is asked for.
ResetsQuietly(g) == needsKey' = needsKey \cup {g} /\ UNCHANGED keyAsked

ResetsDecoder(g) == needsKey' = needsKey \cup {g} /\ keyAsked' = TRUE

PollShows(g) ==
    /\ Ready(g)
    /\ kindOf[g] = "video" => frame = "key" \/ g \notin needsKey
    /\ IF kindOf[g] = "video"
         THEN frame' = "none" /\ needsKey' = needsKey \ {g} /\ UNCHANGED <<picture, hasLast>>
         ELSE picture' = "taken" /\ hasLast' = hasLast \cup {g} /\ UNCHANGED <<frame, needsKey>>
    /\ UNCHANGED <<keyAsked, decoderFailures>>

PollShowsNothing(g) ==
    \/ /\ ~ Ready(g) /\ ~ Over(g)
       /\ UNCHANGED <<frame, needsKey, keyAsked, picture, hasLast, decoderFailures>>
    \/ /\ kindOf[g] = "video" /\ frame = "delta" /\ g \in needsKey
       /\ frame' = "none"
       /\ UNCHANGED <<needsKey, keyAsked, picture, hasLast, decoderFailures>>
    \/ /\ kindOf[g] = "video" /\ Ready(g) /\ (frame = "key" \/ g \notin needsKey)
       /\ Fails
       /\ frame' = "none"
       /\ ResetsDecoder(g)
       /\ UNCHANGED <<picture, hasLast>>

\* An active path that ended ends the window, unless a switch is pending.
PollActive ==
    /\ turn = "active"
    /\ \/ /\ PollShows(active) \/ PollShowsNothing(active)
          /\ turn' = "pending"
       \/ /\ Over(active) /\ ~ Ready(active)
          /\ turn' = IF pending = 0 THEN "gone" ELSE "pending"
          /\ UNCHANGED <<frame, needsKey, keyAsked, picture, hasLast, decoderFailures>>
    /\ UNCHANGED <<asked, shownOn, switching, kindOf, served, told, switchSlot, cancelSlot,
                   active, pending, unopened>>

\* The pending path's first picture swaps it in, and client-core is told.
\* Its queue or connection may go before the call.
PollPending ==
    /\ turn = "pending" /\ pending # 0
    /\ \/ /\ PollShows(pending)
          /\ active' = pending /\ pending' = 0
          /\ turn' = "shown"
       \/ /\ PollShowsNothing(pending)
          /\ turn' = "slots"
          /\ UNCHANGED <<active, pending>>
       \/ /\ Over(pending) /\ ~ Ready(pending)
          /\ turn' = "slots" /\ pending' = 0
          /\ UNCHANGED <<active, frame, needsKey, keyAsked, picture, hasLast, decoderFailures>>
    /\ UNCHANGED <<asked, shownOn, switching, kindOf, served, told, switchSlot, cancelSlot,
                   unopened>>

TellShown ==
    /\ turn = "shown"
    /\ turn' = "slots"
    /\ CarrierShownOnce(active)
    /\ UNCHANGED <<asked, kindOf, told, keyAsked, switchSlot, cancelSlot, active, pending,
                   needsKey, hasLast, unopened, decoderFailures>>

NothingPending ==
    /\ turn = "pending" /\ pending = 0
    /\ turn' = "slots"
    /\ UNCHANGED <<clientSide, switchSlot, cancelSlot, active, pending, needsKey, hasLast,
                   unopened, decoderFailures>>

\* close(), WM_CLOSE: the thread ends at its next turn.
WindowIsClosed ==
    /\ turn = "slots" /\ shownOn = 0
    /\ turn' = "gone"
    /\ UNCHANGED <<clientSide, switchSlot, cancelSlot, active, pending, needsKey, hasLast,
                   unopened, decoderFailures>>

Turns == TakeSwitch \/ TakeCancel \/ PollActive \/ PollPending \/ TellShown \/ NothingPending

WindowNext ==
    \/ StartsSwitch \/ CarrierComesUp \/ CarrierIsRefused \/ SwitchIsGivenUp
    \/ FrameArrives \/ PictureArrives \/ StreamIsStopped
    \/ OnCarrierStarted \/ OnCarrierRefused
    \/ Turns \/ WindowIsClosed

\* The two threads turn, and a window that is streamed goes on changing.  The
\* timer of a switch is left out: nothing here waits for it.
WindowFairness ==
    /\ WF_streamWindowVars(Turns)
    /\ WF_streamWindowVars(OnCarrierStarted) /\ WF_streamWindowVars(OnCarrierRefused)
    /\ WF_streamWindowVars(FrameArrives) /\ WF_streamWindowVars(PictureArrives)

StreamWindowSpec == WindowInit /\ [][WindowNext]_streamWindowVars

-----------------------------------------------------------------------------
\* A carrier that came up takes over: however the slots, the old path and
\* decoder failures interleave, the window shows it, unless it is given up,
\* its path does not open, or the window is gone (`show`).
CarrierTakesOver == WindowFairness =>
    \A g \in Gens :
        (switching = g /\ g \in served)
            ~> (active = g \/ switching # g \/ g \in unopened \/ turn = "gone")

-----------------------------------------------------------------------------
(***************************************************************************)
(* The stream windows of the reference app as the desktop sees them         *)
(* (client-windows window.rs and linux.rs): keys and buttons go to the host *)
(* while the app lets them, the Windows window shows the host's pointer and *)
(* toggles fullscreen, the Linux one draws into shared memory buffers the   *)
(* compositor holds on to.                                                  *)
(***************************************************************************)

CONSTANTS
    HeldKeys, HeldButtons,  \* what can be held down
    HostPointers,           \* the host's pointer shapes
    MaxDeskEvents,          \* bound: what the user, the app and the host do
    SHOWN_BUFFERS,          \* the Linux window's buffers of a size, 4
    PictureSizes,           \* sizes of the pictures
    MaxPicturesShown        \* bound: pictures

\* A picture has pixels: its size is none of a buffer that is not there.
ASSUME BuffersAssumption == SHOWN_BUFFERS \in Nat /\ 0 \notin PictureSizes

Held == HeldKeys \union HeldButtons
NoPointer == "none"     \* the host has sent no pointer
Arrow == "arrow"

VARIABLES
    desk,           \* "windows" or "linux"
    wanted,         \* Shared.send_input
    stateInput,     \* state.send_input, of the last turn of the loop
    focused, over,  \* the window has the keys, the mouse is over it
    captured,       \* SetCapture, or the grab of a Wayland button
    down,           \* what the user holds
    queued,         \* state.input: what it says last of each
    hostDown,       \* what the host was told is down
    hostPointer,    \* session.cursor
    statePointer,   \* state.host_pointer
    shownPointer,   \* the pointer the mouse has
    askedPointer,   \* history: Windows asked (WM_SETCURSOR) where the mouse is now
    fullscreen, toggle,
    deskEvents

windowInputVars == <<desk, wanted, stateInput, focused, over, captured, down, queued, hostDown, hostPointer,
                     statePointer, shownPointer, askedPointer, fullscreen, toggle, deskEvents>>
pointerVars == <<hostPointer, statePointer, shownPointer, askedPointer>>
heldVars == <<captured, down, queued>>
loopVars == <<stateInput, hostDown, statePointer, fullscreen>>

NothingQueued == [k \in Held |-> "none"]

WindowInputInit ==
    /\ desk \in {"windows", "linux"}
    /\ wanted \in BOOLEAN /\ stateInput = FALSE
    /\ focused = TRUE /\ over = FALSE /\ captured = FALSE
    /\ down = {} /\ queued = NothingQueued /\ hostDown = {}
    /\ hostPointer = NoPointer /\ statePointer = NoPointer
    /\ shownPointer = Arrow /\ askedPointer = FALSE
    /\ fullscreen = FALSE /\ toggle = FALSE
    /\ deskEvents = 0

Happens == deskEvents < MaxDeskEvents /\ deskEvents' = deskEvents + 1

-----------------------------------------------------------------------------
(* Messages and events: window_proc, and Dispatch of the Wayland state. *)

\* push: only while input goes to the host.
PushEvent(k, what) == queued' = IF stateInput THEN [queued EXCEPT ![k] = what] ELSE queued

WindowKeyEvent(k, what) == focused /\ PushEvent(k, what)
\* A button held in the window keeps the mouse; on Windows letting go of any
\* button lets go of the mouse.
ButtonEvent(k, what) ==
    /\ over \/ captured
    /\ PushEvent(k, what)
    /\ captured' = IF desk = "windows" THEN IF stateInput THEN what = "down" ELSE captured
                   ELSE what = "down" \/ (down \ {k}) \intersect HeldButtons # {}

Presses(k) ==
    /\ Happens /\ k \notin down
    /\ down' = down \union {k}
    /\ IF k \in HeldKeys THEN WindowKeyEvent(k, "down") /\ UNCHANGED captured ELSE ButtonEvent(k, "down")
    /\ UNCHANGED <<desk, wanted, focused, over, pointerVars, loopVars, toggle>>

\* What is let go elsewhere is not this window's to know.
Releases(k) ==
    /\ Happens /\ k \in down
    /\ down' = down \ {k}
    /\ \/ /\ IF k \in HeldKeys THEN WindowKeyEvent(k, "up") /\ UNCHANGED captured ELSE ButtonEvent(k, "up")
       \/ /\ IF k \in HeldKeys THEN ~focused ELSE ~over /\ ~captured
          /\ UNCHANGED <<queued, captured>>
    /\ UNCHANGED <<desk, wanted, focused, over, pointerVars, loopVars, toggle>>

FocusChanges ==
    /\ Happens
    /\ focused' = ~focused
    /\ UNCHANGED <<desk, wanted, over, heldVars, pointerVars, loopVars, toggle>>

\* shown_pointer.
ShownPointer(input, pointer) == IF input /\ pointer # NoPointer THEN pointer ELSE Arrow

\* The mouse moves in, out or about; Windows asks the window for its pointer
\* where nothing holds the mouse.
MouseMoves ==
    /\ Happens
    /\ over' \in BOOLEAN
    /\ IF over' /\ ~captured /\ desk = "windows"
         THEN askedPointer' = TRUE /\ shownPointer' = ShownPointer(stateInput, statePointer)
         ELSE /\ askedPointer' = FALSE
              /\ shownPointer' = IF captured \/ over' THEN shownPointer ELSE Arrow
    /\ UNCHANGED <<desk, wanted, focused, heldVars, hostPointer, loopVars, toggle>>

AsksFullscreen ==
    /\ Happens /\ desk = "windows"
    /\ toggle' = TRUE
    /\ UNCHANGED <<desk, wanted, focused, over, heldVars, pointerVars, loopVars>>

\* The app's checkbox, and the host's pointer.
InputSwitched ==
    /\ Happens
    /\ wanted' = ~wanted
    /\ UNCHANGED <<desk, focused, over, heldVars, pointerVars, loopVars, toggle>>
HostPointerChanges ==
    /\ Happens
    /\ hostPointer' \in HostPointers
    /\ UNCHANGED <<desk, wanted, focused, over, heldVars, statePointer, shownPointer, askedPointer, loopVars,
                   toggle>>

-----------------------------------------------------------------------------
(* One turn of the loop. *)

ToggleFullscreen ==
    /\ fullscreen' = IF toggle THEN ~fullscreen ELSE fullscreen
    /\ toggle' = FALSE

\* The queued events go to the host in their order.
Drains ==
    /\ queued' = NothingQueued
    /\ hostDown' = {k \in Held : queued[k] = "down" \/ (queued[k] = "none" /\ k \in hostDown)}

\* show_pointer, when what the window would show may be another.
ShowPointer(changed) ==
    shownPointer' = IF changed /\ over THEN ShownPointer(stateInput', statePointer') ELSE shownPointer
HostsPointerChanged == statePointer' # statePointer
PointerChanged == statePointer' # statePointer \/ stateInput' # stateInput

WindowsTurn ==
    /\ desk = "windows"
    /\ stateInput' = wanted
    /\ statePointer' = hostPointer
    /\ ToggleFullscreen /\ Drains /\ ShowPointer(PointerChanged)
    /\ UNCHANGED <<desk, wanted, focused, over, captured, down, hostPointer, askedPointer, deskEvents>>

LinuxTurn ==
    /\ desk = "linux"
    /\ stateInput' = wanted
    /\ Drains
    /\ UNCHANGED <<desk, wanted, focused, over, captured, down, pointerVars, fullscreen, toggle, deskEvents>>

WindowInputNext ==
    \/ \E k \in Held : Presses(k) \/ Releases(k)
    \/ FocusChanges \/ MouseMoves \/ AsksFullscreen \/ InputSwitched \/ HostPointerChanges
    \/ WindowsTurn \/ LinuxTurn

WindowInputSpec == WindowInputInit /\ [][WindowInputNext]_windowInputVars

(* "The pointer this window shows over its picture: the host's while input  *)
(* goes to the host and the host sends it, the arrow otherwise." Windows    *)
(* asks only when the mouse moves; whatever changed since, the pointer is   *)
(* the one of the window's state (window.rs, show and show_pointer).        *)
PointerIsTheWindows == askedPointer => shownPointer = ShownPointer(stateInput, statePointer)

-----------------------------------------------------------------------------
(* The Linux window's pictures. *)

VARIABLES
    shown,      \* buffers: size, busy, and the picture in it
    lent,       \* the picture of each buffer the compositor still reads, 0 for none
    released,   \* releases the window has not read
    windowIs,   \* "open" or "closed"
    pictureNo   \* pictures decoded

pictureVars == <<shown, lent, released, windowIs, pictureNo>>
BufferNos == 1 .. (SHOWN_BUFFERS + 1)
NoBuffer == [size |-> 0, busy |-> FALSE, picture |-> 0]

PicturesInit ==
    /\ shown = [b \in BufferNos |-> NoBuffer]
    /\ lent = [b \in BufferNos |-> 0] /\ released = {}
    /\ windowIs = "open" /\ pictureNo = 0

\* The compositor is done with a buffer, and the window reads that.
CompositorReleases(b) ==
    /\ lent[b] # 0
    /\ released' = released \union {b}
    /\ lent' = [lent EXCEPT ![b] = 0]
    /\ UNCHANGED <<shown, windowIs, pictureNo>>
BufferReleased(b) ==
    /\ b \in released
    /\ released' = released \ {b}
    /\ shown' = [shown EXCEPT ![b].busy = FALSE]
    /\ UNCHANGED <<lent, windowIs, pictureNo>>

\* Shown::new.
NewShown(size) == [NoBuffer EXCEPT !.size = size]

\* A free buffer of this size, or a new one while there are not too many.
Kept(size) == {b \in BufferNos : shown[b].size # 0 /\ (shown[b].size = size \/ shown[b].busy)}
FreeOf(size) == {b \in Kept(size) : shown[b].size = size /\ ~shown[b].busy}

ShowPicture(b, size) ==
    /\ shown' = [c \in BufferNos |->
                    IF c = b THEN [NewShown(size) EXCEPT !.busy = TRUE, !.picture = pictureNo + 1]
                    ELSE IF c \in Kept(size) THEN shown[c] ELSE NoBuffer]
    /\ lent' = [lent EXCEPT ![b] = pictureNo + 1]

\* A decoded picture: one that has no buffer is skipped.
PictureDecoded(size) ==
    /\ windowIs = "open" /\ pictureNo < MaxPicturesShown
    /\ pictureNo' = pictureNo + 1
    /\ \/ \E b \in FreeOf(size) : ShowPicture(b, size)
       \/ /\ FreeOf(size) = {} /\ Cardinality(Kept(size)) < SHOWN_BUFFERS
          /\ \E b \in BufferNos \ Kept(size) : ShowPicture(b, size)
       \/ /\ FreeOf(size) = {} /\ Cardinality(Kept(size)) >= SHOWN_BUFFERS
          /\ shown' = [c \in BufferNos |-> IF c \in Kept(size) THEN shown[c] ELSE NoBuffer]
          /\ UNCHANGED lent
    /\ released' = released \intersect {b \in BufferNos : shown'[b].busy}
    /\ UNCHANGED windowIs

ClosesLinuxWindow ==
    /\ windowIs = "open"
    /\ windowIs' = "closed"
    /\ UNCHANGED <<shown, lent, released, pictureNo>>

PicturesNext ==
    \/ \E b \in BufferNos : CompositorReleases(b) \/ BufferReleased(b)
    \/ \E size \in PictureSizes : PictureDecoded(size)
    \/ ClosesLinuxWindow

PicturesSpec == PicturesInit /\ [][PicturesNext]_pictureVars

(* The compositor reads what it was given: no picture is drawn into a       *)
(* buffer it still holds, nor is that buffer let go, across releases it     *)
(* sends late and changes of the picture's size (client-windows linux.rs).  *)
HeldBuffersAreLeftAlone ==
    /\ \A b \in BufferNos : lent[b] # 0 => shown[b].picture = lent[b]
    /\ Cardinality({b \in BufferNos : shown[b].size # 0}) <= SHOWN_BUFFERS

(* What a client window gives the compositor (window.rs, linux.rs): the        *)
(* pointer of the window it is over, and buffers nobody draws into.            *)
WindowsShowTheirOwn == PointerIsTheWindows /\ HeldBuffersAreLeftAlone
=============================================================================
