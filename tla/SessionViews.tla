----------------------------- MODULE SessionViews -----------------------------
(***************************************************************************)
(* What a session shows its client of the host besides pictures: the list   *)
(* of windows (agent-windows windows_list.rs; list_windows and push_windows *)
(* of host-core), the pointer over the streamed windows (follow_cursor) and *)
(* the state of the host (push_host_state, private_session).  Each is a     *)
(* task of its own that looks at the host and sends what it saw later, and  *)
(* all share one control stream to the client.                              *)
(***************************************************************************)
EXTENDS Integers, Sequences, FiniteSets

CONSTANTS
    ViewWindows,    \* the host's windows
    PopupOf,        \* the window each is a popup of, or NoParent
    NoParent,
    Kept,           \* windows the account's policy keeps from the client
    Shapes,         \* pointer shapes
    MaxDeskChanges, \* bound: changes of the windows and the pointer
    MaxRequests     \* bound: requests of the client

ASSUME PopupsAreInOneLevel ==
    \A w \in ViewWindows : PopupOf[w] # NoParent => PopupOf[PopupOf[w]] = NoParent

Off == "off"
Unasked == <<>>             \* no list has been sent; a list that was is <<list>>

VARIABLES
    desk,           \* windows shown on the host
    pointer,        \* the window the host's pointer is on (topmost), and its shape
    hostState,      \* whether the PC is locked, and its private session
    startedPrivate, \* PrivateSessionGuard.started of this session
    listedWindows,         \* the list last sent, or Unasked
    pushed,         \* push_windows: the list read and not judged (<<>> when it sleeps)
    answering,      \* list_windows: likewise
    streamedWindows,       \* windows this session streams
    snapshot,       \* follow_cursor: its copy of `streamed`
    lastCursor,     \* follow_cursor: `last`
    sentShapes,     \* follow_cursor: `sent_shapes`
    stateRead,      \* push_host_state: read and not judged
    lastState,      \* push_host_state: `last`
    toHostViews, toClientViews,     \* the control stream
    view,           \* the client: list, state, refusal
    cursors, shapesKnown,           \* the client: Shared.cursors, cursor_shapes
    deskChanges, stateRequests

viewVars == <<desk, pointer, hostState, startedPrivate, listedWindows, pushed, answering, streamedWindows, snapshot,
              lastCursor, sentShapes, stateRead, lastState, toHostViews, toClientViews, view, cursors,
              shapesKnown, deskChanges, stateRequests>>
deskVars == <<desk, pointer, hostState, deskChanges>>
listedVars == <<listedWindows, pushed>>
pointerVars == <<snapshot, lastCursor, sentShapes>>
stateVars == <<stateRead, lastState, startedPrivate>>
clientVars == <<view, cursors, shapesKnown>>

Initially == [locked |-> FALSE, private |-> Off]

ViewsInit ==
    /\ desk \in SUBSET {w \in ViewWindows : PopupOf[w] = NoParent}
    /\ pointer = [over |-> NoParent, shape |-> CHOOSE s \in Shapes : TRUE, shown |-> TRUE]
    /\ hostState \in [locked : BOOLEAN, private : {Off}]
    /\ startedPrivate = FALSE
    /\ listedWindows = Unasked /\ pushed = <<>> /\ answering = <<>>
    /\ streamedWindows = {} /\ snapshot = <<>> /\ lastCursor = <<>> /\ sentShapes = {}
    /\ stateRead = <<>> /\ lastState = Initially
    /\ toHostViews = <<>> /\ toClientViews = <<>>
    /\ view = [list |-> Unasked, state |-> Initially, refused |-> FALSE]
    /\ cursors = <<>> /\ shapesKnown = {}
    /\ deskChanges = 0 /\ stateRequests = 0

-----------------------------------------------------------------------------
(* The host's desktop. *)

DeskChanges == deskChanges < MaxDeskChanges /\ deskChanges' = deskChanges + 1

WindowShown(w) ==
    /\ DeskChanges /\ w \notin desk
    /\ desk' = desk \cup {w}
    /\ UNCHANGED <<pointer, hostState>>

\* With the window its popups go; the pointer is on what was under it.
WindowHidden(w) ==
    /\ DeskChanges /\ w \in desk
    /\ desk' = {v \in desk : v # w /\ PopupOf[v] # w}
    /\ pointer' = CASE pointer.over \in desk' -> pointer
                     [] PopupOf[w] \in desk' /\ pointer.over = w -> [pointer EXCEPT !.over = PopupOf[w]]
                     [] OTHER -> [pointer EXCEPT !.over = NoParent]
    /\ UNCHANGED hostState

PointerMoves(w, s, seen) ==
    /\ DeskChanges /\ w \in desk \cup {NoParent}
    /\ pointer' = [over |-> w, shape |-> s, shown |-> seen]
    /\ UNCHANGED <<desk, hostState>>

\* session_locked: the lock, or the input desktop out of reach.
LockChanges ==
    /\ DeskChanges
    /\ hostState' = [hostState EXCEPT !.locked = ~@]
    /\ UNCHANGED <<desk, pointer>>

DeskStep ==
    /\ \/ \E w \in ViewWindows : WindowShown(w) \/ WindowHidden(w)
       \/ \E w \in ViewWindows \cup {NoParent}, s \in Shapes, seen \in BOOLEAN : PointerMoves(w, s, seen)
       \/ LockChanges
    /\ UNCHANGED <<listedVars, answering, streamedWindows, pointerVars, stateVars, toHostViews, toClientViews,
                   clientVars, stateRequests>>

-----------------------------------------------------------------------------
(* The window list. *)

Owns(w, v) == PopupOf[v] = w

\* list: the programs' windows first, then every popup whose owner is in
\* the list, until none is added; a window whose owner is not shown is not
\* listed.  As a sequence, in the order cursor_over looks through it.
Places(first) == {w \in desk \ first : PopupOf[w] \in first}
InOrder(S) == CHOOSE q \in [1..Cardinality(S) -> S] : \A v \in S : \E i \in DOMAIN q : q[i] = v
ListedWindows ==
    LET normal == {w \in desk : PopupOf[w] = NoParent}
    IN InOrder(normal) \o InOrder(Places(normal))

\* allowed_windows: without what the policy keeps from the client.
AllowedWindows == SelectSeq(ListedWindows, LAMBDA w : w \notin Kept)

SendView(m) == toClientViews' = Append(toClientViews, m)

\* push_windows wakes: nothing before the client asked for the list once.
PushLooks ==
    /\ pushed = <<>> /\ listedWindows # Unasked
    /\ pushed' = <<AllowedWindows>>
    /\ UNCHANGED <<deskVars, listedWindows, answering, streamedWindows, pointerVars, stateVars, toHostViews,
                   toClientViews, clientVars, stateRequests>>

\* Under the lock of `listed`: compared with what was sent last.
PushWindows ==
    /\ pushed # <<>>
    /\ pushed' = <<>>
    /\ IF pushed = listedWindows
         THEN UNCHANGED <<listedWindows, toClientViews>>
         ELSE SendView([kind |-> "windows", list |-> pushed[1]]) /\ listedWindows' = pushed
    /\ UNCHANGED <<deskVars, answering, streamedWindows, pointerVars, stateVars, toHostViews, clientVars, stateRequests>>

\* list_windows: looks before it takes the lock too, and answers whatever
\* was sent before.
ForgetsToRemember(list) == listedWindows' = IF listedWindows = Unasked THEN <<list>> ELSE listedWindows
Remembers(list) == listedWindows' = <<list>>
ListWindows ==
    /\ answering # <<>>
    /\ SendView([kind |-> "windows", list |-> answering[1]])
    /\ Remembers(answering[1])
    /\ answering' = <<>>
    /\ UNCHANGED <<deskVars, pushed, streamedWindows, pointerVars, stateVars, toHostViews, clientVars, stateRequests>>

-----------------------------------------------------------------------------
(* Requests, one at a time: the handler awaits each. *)

AnswersNext ==
    /\ answering = <<>> /\ toHostViews # <<>>
    /\ toHostViews' = Tail(toHostViews)

Asked == Head(toHostViews)

HandleList ==
    /\ AnswersNext /\ Asked.kind = "list"
    /\ answering' = <<AllowedWindows>>
    /\ UNCHANGED <<deskVars, listedVars, streamedWindows, pointerVars, stateVars, toClientViews, clientVars, stateRequests>>

\* start_stream, as far as the pointer is concerned: the window is the
\* session's from then on.  One that is not allowed or is gone is refused.
StartStreamed ==
    /\ AnswersNext /\ Asked.kind = "start"
    /\ streamedWindows' = IF Asked.window \in desk \ Kept THEN streamedWindows \cup {Asked.window} ELSE streamedWindows
    /\ UNCHANGED <<deskVars, listedVars, answering, pointerVars, stateVars, toClientViews, clientVars, stateRequests>>

\* StreamStopRequest and the last CarrierStop: no longer followed, and the
\* client is told.
StopStreamed ==
    /\ AnswersNext /\ Asked.kind = "stop"
    /\ streamedWindows' = streamedWindows \ {Asked.window}
    /\ IF Asked.window \in streamedWindows
         THEN SendView([kind |-> "stopped", window |-> Asked.window])
         ELSE UNCHANGED toClientViews
    /\ UNCHANGED <<deskVars, listedVars, answering, pointerVars, stateVars, clientVars, stateRequests>>

\* private_session: the source does it or refuses with a reason.
PrivateSession ==
    /\ AnswersNext /\ Asked.kind = "private"
    /\ \/ /\ startedPrivate' = (Asked.on # Off)
          /\ hostState' = [hostState EXCEPT !.private = Asked.on]
          /\ UNCHANGED toClientViews
       \/ SendView([kind |-> "refused"]) /\ UNCHANGED <<startedPrivate, hostState>>
    /\ UNCHANGED <<desk, pointer, deskChanges, listedVars, answering, streamedWindows, pointerVars, stateRead,
                   lastState, clientVars, stateRequests>>

-----------------------------------------------------------------------------
(* The pointer: a thread of its own. *)

\* A copy of the streamed windows; nothing is looked at while there is none.
CursorWakes ==
    /\ snapshot = <<>> /\ streamedWindows # {}
    /\ snapshot' = <<streamedWindows>>
    /\ UNCHANGED <<deskVars, listedVars, answering, streamedWindows, lastCursor, sentShapes, stateVars, toHostViews,
                   toClientViews, clientVars, stateRequests>>

Contains(w) == pointer.over # NoParent /\ (w = pointer.over \/ Owns(w, pointer.over))

\* cursor_over: the first window of the list that the pointer is on.  A popup
\* lies on the window it belongs to.
OnWindows == IF listedWindows = Unasked \/ pointer.over = NoParent THEN <<>>
             ELSE SelectSeq(listedWindows[1], LAMBDA w : w \in snapshot[1] /\ Contains(w))
CursorOver == IF OnWindows = <<>> THEN <<>>
              ELSE <<[window |-> Head(OnWindows), shape |-> pointer.shape, visible |-> pointer.shown]>>

\* hidden: where it was, not shown.
Hidden == IF lastCursor = <<>> THEN <<>> ELSE <<[lastCursor[1] EXCEPT !.visible = FALSE]>>
NextCursor == IF CursorOver # <<>> THEN CursorOver ELSE Hidden

\* image: what reading a shape's image gives, its picture or nothing.
ImagesOf(s) == {<<[kind |-> "shape", shape |-> s]>>, <<>>}

\* A shape goes ahead of the first pointer that has it; an image that cannot
\* be read is left out, and the shape counts as sent.
FollowCursor ==
    /\ snapshot # <<>>
    /\ snapshot' = <<>>
    /\ IF NextCursor = <<>> \/ NextCursor = lastCursor
         THEN UNCHANGED <<lastCursor, sentShapes, toClientViews>>
         ELSE LET c == NextCursor[1]
                  fresh == c.visible /\ c.shape \notin sentShapes
              IN /\ lastCursor' = <<c>>
                 /\ sentShapes' = IF c.visible THEN sentShapes \cup {c.shape} ELSE sentShapes
                 /\ \E image \in IF fresh THEN ImagesOf(c.shape) ELSE {<<>>} :
                      toClientViews' = toClientViews \o Append(image, [kind |-> "cursor", cursor |-> c])
    /\ UNCHANGED <<deskVars, listedVars, answering, streamedWindows, stateVars, toHostViews, clientVars, stateRequests>>

-----------------------------------------------------------------------------
(* The state of the host. *)

StateLooks ==
    /\ stateRead = <<>>
    /\ stateRead' = <<hostState>>
    /\ UNCHANGED <<deskVars, listedVars, answering, streamedWindows, pointerVars, lastState, startedPrivate,
                   toHostViews, toClientViews, clientVars, stateRequests>>

PushHostState ==
    /\ stateRead # <<>>
    /\ stateRead' = <<>>
    /\ lastState' = stateRead[1]
    /\ IF stateRead[1] # lastState
         THEN SendView([kind |-> "state", state |-> stateRead[1]])
         ELSE UNCHANGED toClientViews
    /\ UNCHANGED <<deskVars, listedVars, answering, streamedWindows, pointerVars, startedPrivate, toHostViews,
                   clientVars, stateRequests>>

-----------------------------------------------------------------------------
(* The client. *)

Requests == {[kind |-> "list"]} \cup [kind : {"start", "stop"}, window : ViewWindows]
            \cup [kind : {"private"}, on : {Off, "active"}]
Ask(r) ==
    /\ stateRequests < MaxRequests
    /\ stateRequests' = stateRequests + 1
    /\ toHostViews' = Append(toHostViews, r)
    /\ UNCHANGED <<deskVars, listedVars, answering, streamedWindows, pointerVars, stateVars, toClientViews, clientVars>>

Arrived == Head(toClientViews)
Receive(k) ==
    /\ toClientViews # <<>> /\ Arrived.kind = k
    /\ toClientViews' = Tail(toClientViews)
    /\ UNCHANGED <<deskVars, listedVars, answering, streamedWindows, pointerVars, stateVars, toHostViews, stateRequests>>

OnWindowList ==
    /\ Receive("windows")
    /\ view' = [view EXCEPT !.list = <<Arrived.list>>]
    /\ UNCHANGED <<cursors, shapesKnown>>

\* cursor_event: shown on one window, hidden on the others.
CursorEvent ==
    /\ Receive("cursor")
    /\ LET c == Arrived.cursor
           others == {w \in DOMAIN cursors : w # c.window}
       IN cursors' = [w \in others \cup {c.window} |->
                        IF w = c.window THEN [visible |-> c.visible, shape |-> c.shape]
                        ELSE [cursors[w] EXCEPT !.visible = FALSE]]
    /\ UNCHANGED <<view, shapesKnown>>

CursorShapeEvent ==
    /\ Receive("shape")
    /\ shapesKnown' = shapesKnown \cup {Arrived.shape}
    /\ UNCHANGED <<view, cursors>>

\* StreamStopped: what is known of the window goes.
StoppedEvent ==
    /\ Receive("stopped")
    /\ cursors' = [w \in DOMAIN cursors \ {Arrived.window} |-> cursors[w]]
    /\ UNCHANGED <<view, shapesKnown>>

\* on_host_state: a private session that runs answers the last refusal.
OnHostState ==
    /\ Receive("state")
    /\ view' = [view EXCEPT !.state = Arrived.state,
                            !.refused = @ /\ Arrived.state.private # "active"]
    /\ UNCHANGED <<cursors, shapesKnown>>

OnPrivateRefused ==
    /\ Receive("refused")
    /\ view' = [view EXCEPT !.refused = TRUE]
    /\ UNCHANGED <<cursors, shapesKnown>>

ClientHears == OnWindowList \/ CursorEvent \/ CursorShapeEvent \/ StoppedEvent \/ OnHostState \/ OnPrivateRefused
HandleRequest == HandleList \/ ListWindows \/ StartStreamed \/ StopStreamed \/ PrivateSession
PushTask == PushLooks \/ PushWindows
CursorThread == CursorWakes \/ FollowCursor
StateTask == StateLooks \/ PushHostState

ViewsNext ==
    \/ DeskStep
    \/ \E r \in Requests : Ask(r)
    \/ HandleRequest \/ PushTask \/ CursorThread \/ StateTask \/ ClientHears

\* Tasks that poll, a handler that awaits and a client that reads.
ViewsFairness == /\ WF_viewVars(HandleRequest) /\ WF_viewVars(PushTask)
                 /\ WF_viewVars(StateTask) /\ WF_viewVars(ClientHears)
ViewsSpec == ViewsInit /\ [][ViewsNext]_viewVars

-----------------------------------------------------------------------------
(* Properties *)

\* push_windows, list_windows, push_host_state: the handler and the pushing
\* task read the windows before the lock and send under it, in either order;
\* once the desktop is left alone, the client that asked shows the windows as
\* they are, and the host's state as it is.
ViewsCatchUp == ViewsFairness =>
    <>[]((view.list # Unasked => view.list = <<AllowedWindows>>) /\ view.state = hostState)

-----------------------------------------------------------------------------
(***************************************************************************)
(* Input of the clients: the session loop lets an event through to the     *)
(* thread that delivers it, which keeps what is held down and releases it  *)
(* when the session ends (host-core/src/lib.rs), and the injector all      *)
(* sessions of a host share, on Windows, Linux or Android.  Positions and  *)
(* scrolling are left out; the one mouse button is the one a touch presses.*)
(***************************************************************************)

CONSTANTS
    InputSessions,
    InputWindows,   \* the windows a session may stream
    Keycodes,
    TouchIds,
    Platforms,      \* among "windows", "linux", "android"
    MaxEvents       \* bound: events of the clients, and things that happen at the host

ASSUME InputAssumption ==
    /\ MaxEvents \in Nat
    /\ Platforms \subseteq {"windows", "linux", "android"}
    /\ "none" \notin InputWindows /\ "no touch" \notin TouchIds    \* no window, no finger

VARIABLES
    platform,
    streamed,   \* the windows a session streams
    focus,      \* the window its keys go to
    inputs,     \* what the delivering thread has yet to take
    delivering, \* by session: "on", "closing" (its sender is dropped), "over"
    held,       \* HeldInput of the thread
    pads,       \* the pads it has plugged in
    injector,   \* what the platform's injector keeps
    screen,     \* what the system keeps: what is down, which window is in front
    reachable,  \* Windows: SendInput reaches the desktop that has the input
    happened,
    \* history
    strayed     \* what is down and was released by a way that did not reach it
inputVars == <<platform, streamed, focus, inputs, delivering, held, pads, injector, screen,
               reachable, happened, strayed>>

NoWindow == "none"
Elsewhere == "another window"
NoTouch == "no touch"
Left == "left"
Event(kind, w, what, phase) == [kind |-> kind, window |-> w, what |-> what, phase |-> phase]

\* InputEvent; a press is a Start and a release an End.
ClientEvents ==
    [kind : {"key"}, window : {NoWindow}, what : Keycodes, phase : {"Start", "End"}]
    \cup [kind : {"text"}, window : {NoWindow}, what : Keycodes, phase : {"Start"}]
    \cup [kind : {"move"}, window : InputWindows, what : {Left}, phase : {"Move"}]
    \cup [kind : {"button"}, window : InputWindows, what : {Left}, phase : {"Start", "End"}]
    \cup [kind : {"touch"}, window : InputWindows, what : TouchIds,
          phase : {"Start", "Move", "End", "Cancel"}]
    \cup [kind : {"pad", "gone"}, window : {NoWindow}, what : {"pad"}, phase : {"Start"}]

Untouched == [primary |-> NoTouch, postedTouch |-> NoTouch, pointer |-> NoWindow,
              postedDown |-> {}, focused |-> NoWindow, fingers |-> {}]

InputInit ==
    /\ platform \in Platforms
    /\ streamed = [s \in InputSessions |-> InputWindows]
    /\ focus = [s \in InputSessions |-> NoWindow]
    /\ inputs = [s \in InputSessions |-> <<>>]
    /\ delivering = [s \in InputSessions |-> "on"]
    /\ held = [s \in InputSessions |-> {}] /\ pads = [s \in InputSessions |-> {}]
    /\ injector = Untouched
    /\ screen = [down |-> {}, front |-> Elsewhere]
    /\ reachable = TRUE /\ happened = 0
    /\ strayed = [down |-> {}, primary |-> FALSE, posted |-> FALSE]

-----------------------------------------------------------------------------
Happens == happened < MaxEvents /\ happened' = happened + 1

\* ClientSession::input and Session::input of the host: an event for a window the session
\* does not stream is dropped, as are keys while the focus is on none.
Input(s, e) ==
    LET named == e.window # NoWindow
        to == IF named THEN e.window ELSE focus[s]
    IN  /\ Happens /\ delivering[s] = "on"
        /\ to \in streamed[s]
        /\ focus' = [focus EXCEPT ![s] = to]
        /\ inputs' = [inputs EXCEPT ![s] = Append(@, <<e, to>>)]
        /\ UNCHANGED <<platform, streamed, delivering, held, pads, injector, screen, reachable,
                       strayed>>

\* A stream of the window stops: what was pressed in it stays held.
StopInput(s, w) ==
    /\ Happens /\ w \in streamed[s]
    /\ streamed' = [streamed EXCEPT ![s] = @ \ {w}]
    /\ UNCHANGED <<platform, focus, inputs, delivering, held, pads, injector, screen, reachable,
                   strayed>>

\* The session ends and its sender is dropped; the thread takes what is queued first.
EndInput(s) ==
    /\ delivering[s] = "on"
    /\ delivering' = [delivering EXCEPT ![s] = "closing"]
    /\ UNCHANGED <<platform, streamed, focus, inputs, held, pads, injector, screen, reachable,
                   happened, strayed>>

-----------------------------------------------------------------------------
\* HeldInput::track.
HeldAs(e, f) == [kind |-> e.kind, window |-> e.window, what |-> e.what,
                 focus |-> IF e.kind = "key" THEN f ELSE NoWindow]

\* Bug to catch: a touch that moves is taken for one that ended.
TrackStarts(h, e, f) ==
    LET others == {x \in h : <<x.kind, x.window, x.what>> # <<e.kind, e.window, e.what>>}
    IN  IF e.kind \in {"key", "button", "touch"}
        THEN IF e.phase = "Start" THEN others \cup {HeldAs(e, f)} ELSE others
        ELSE h

Track(h, e, f) ==
    LET others == {x \in h : <<x.kind, x.window, x.what>> # <<e.kind, e.window, e.what>>}
    IN  IF e.kind \in {"key", "button", "touch"}
        THEN IF e.phase \in {"Start", "Move"} THEN others \cup {HeldAs(e, f)} ELSE others
        ELSE h

\* HeldInput::release of one thing held.
ReleaseOf(x) ==
    <<Event(x.kind, x.window, x.what, IF x.kind = "touch" THEN "Cancel" ELSE "End"), x.focus>>

Pressed(set, x, phase) ==
    CASE phase = "Start" -> set \cup {x}
      [] phase \in {"End", "Cancel"} -> set \ {x}
      [] OTHER -> set

-----------------------------------------------------------------------------
\* Posted::inject, when Windows refuses SendInput: each event is a message to the window.
\* A button goes where the pointer is known to be, and nowhere otherwise.
Posted(e, f) ==
    LET touches == e.kind = "touch" /\ (IF e.phase = "Start" THEN injector.postedTouch = NoTouch
                                        ELSE injector.postedTouch = e.what)
        presses == touches \/ (e.kind = "button" /\ injector.pointer = e.window)
    IN  /\ injector' = [injector EXCEPT
              !.pointer = IF e.kind = "move" \/ touches THEN e.window ELSE @,
              !.postedTouch = IF touches /\ e.phase # "Move"
                              THEN (IF e.phase = "Start" THEN e.what ELSE NoTouch) ELSE @,
              !.postedDown = IF presses THEN Pressed(@, Left, e.phase)
                             ELSE IF e.kind = "key" /\ f # NoWindow THEN Pressed(@, e.what, e.phase)
                             ELSE @]
        /\ UNCHANGED screen

\* Windows: Injector::touch, one finger drives the pointer.
TouchWindows(e, granted) ==
    LET takes == IF e.phase = "Start" THEN injector.primary = NoTouch ELSE injector.primary = e.what
    IN  /\ injector' = [injector EXCEPT !.primary =
              IF ~ takes \/ e.phase = "Move" THEN @ ELSE IF e.phase = "Start" THEN e.what ELSE NoTouch]
        /\ screen' = [down |-> IF takes THEN Pressed(screen.down, <<"screen", Left>>, e.phase)
                               ELSE screen.down,
                      front |-> IF takes /\ e.phase = "Start" /\ granted THEN e.window ELSE screen.front]

\* bring_forward: Windows may refuse to change the window in front.
BringForward(w, granted) == w = NoWindow \/ screen.front = w \/ granted

\* Windows posts an event when SendInput would not reach its window.
ByMessage(e, f, granted) ==
    ~ reachable \/ (e.kind \in {"key", "text"} /\ ~ BringForward(f, granted))

\* Windows: Injector::inject.  Keys go to the window in front, or by message when it
\* cannot be brought there (bring_forward).
InjectWindows(e, f, granted) ==
    LET remembered == [injector EXCEPT !.pointer = IF e.kind = "move" THEN e.window ELSE @]
    IN  CASE ByMessage(e, f, granted) -> Posted(e, f)
          [] e.kind \in {"key", "text"} /\ ~ ByMessage(e, f, granted) ->
               /\ screen' = [down |-> IF e.kind = "key"
                                      THEN Pressed(screen.down, <<"screen", e.what>>, e.phase)
                                      ELSE screen.down,
                             front |-> IF f = NoWindow THEN screen.front ELSE f]
               /\ UNCHANGED injector
          [] e.kind = "button" /\ reachable ->
               /\ screen' = [down |-> Pressed(screen.down, <<"screen", Left>>, e.phase),
                             front |-> IF e.phase = "Start" /\ granted THEN e.window ELSE screen.front]
               /\ UNCHANGED injector
          [] e.kind = "touch" /\ reachable -> TouchWindows(e, granted)
          [] OTHER -> injector' = remembered /\ UNCHANGED screen

\* Linux: Injector::inject.  A window is focused on a change only, and when sway has it;
\* text is typed as keys, a touch is the left button.
InjectLinux(e, f, found) ==
    LET key == <<"screen", e.what>>
        left == <<"screen", Left>>
        down == CASE e.kind = "key" -> Pressed(screen.down, key, e.phase)
                  [] e.kind = "text" -> screen.down \ {key}
                  [] e.kind \in {"button", "touch"} -> Pressed(screen.down, left, e.phase)
                  [] OTHER -> screen.down
        to == CASE e.kind \in {"key", "text"} -> f
                [] e.kind \in {"button", "touch"} /\ e.phase = "Start" -> e.window
                [] OTHER -> NoWindow
        focuses == to # NoWindow /\ injector.focused # to /\ found
    IN  /\ injector' = IF focuses THEN [injector EXCEPT !.focused = to] ELSE injector
        /\ screen' = [down |-> down, front |-> IF focuses THEN to ELSE screen.front]

\* Android: InputInjector.touch.  A move puts a finger down in the table only.
FingersAfter(w, e) ==
    CASE e.phase \in {"Start", "Move"} -> injector.fingers \cup {<<w, e.what>>}
      [] e.phase = "End" -> injector.fingers \ {<<w, e.what>>}
      [] OTHER -> {x \in injector.fingers : x[1] # w}

\* Android: an event goes to the display of its window, each with an injector of its own
\* (InputInjector.inject).
InjectAndroid(e, f) ==
    LET w == IF e.kind \in {"key", "text"} THEN f ELSE e.window
    IN  /\ injector' = IF e.kind = "touch" THEN [injector EXCEPT !.fingers = FingersAfter(w, e)] ELSE injector
        /\ screen' = [screen EXCEPT !.down =
              IF e.kind \in {"key", "button"} /\ w # NoWindow THEN Pressed(@, <<w, e.what>>, e.phase) ELSE @]

Inject(e, f, answers) ==
    CASE platform = "windows" -> InjectWindows(e, f, answers)
      [] platform = "linux" -> InjectLinux(e, f, answers)
      [] platform = "android" -> InjectAndroid(e, f)

\* A release that does not go where the press went misses what is down: on Android a key
\* goes to the display in focus, wherever it was pressed, and on Windows what was injected
\* may be released by a message, to a window that does not come to the front or while the
\* PC is locked.
Misses(e, f, answers) ==
    {d \in screen.down :
        \/ platform = "android" /\ e.kind = "key" /\ d[2] = e.what /\ d[1] # f
        \/ /\ platform = "windows" /\ ByMessage(e, f, answers)
           /\ \/ e.kind = "key" /\ d[2] = e.what
              \/ e.kind = "button" /\ d[2] = Left
              \/ e.kind = "touch" /\ d[2] = Left /\ injector.primary = e.what}

\* What such releases have left, as long as it is there: things that are down, the finger
\* that drives the pointer, and the one whose messages are posted.
StrayedAfter(e, f, answers) ==
    LET ends == e.phase \in {"End", "Cancel"}
        lifted == ends /\ e.kind = "touch" /\ platform = "windows"
    IN  [down |-> screen'.down
                    \cap (strayed.down \cup IF ends THEN Misses(e, f, answers) ELSE {}),
         primary |-> /\ injector'.primary # NoTouch
                     /\ strayed.primary
                          \/ (lifted /\ ByMessage(e, f, answers) /\ injector.primary = e.what),
         posted |-> /\ injector'.postedTouch # NoTouch
                    /\ strayed.posted
                         \/ (lifted /\ reachable /\ injector.postedTouch = e.what)]

-----------------------------------------------------------------------------
\* GamepadSink::set, which plugs the pad in if it can, and remove.
PadsAfter(ps, e, made) ==
    CASE e.kind = "pad" /\ made -> ps \cup {e.what}
      [] e.kind = "gone" -> ps \ {e.what}
      [] OTHER -> ps

\* deliver_input_joinable: the next event; a session's pads are set and removed here.
Deliver(s, answers) ==
    /\ inputs[s] # <<>> /\ delivering[s] # "over"
    /\ LET e == Head(inputs[s])[1]
           f == Head(inputs[s])[2]
       IN  /\ held' = [held EXCEPT ![s] = Track(@, e, f)]
           /\ pads' = [pads EXCEPT ![s] = PadsAfter(@, e, answers)]
           /\ IF e.kind \in {"pad", "gone"} THEN UNCHANGED <<injector, screen>>
              ELSE Inject(e, f, answers)
           /\ strayed' = StrayedAfter(e, f, answers)
    /\ inputs' = [inputs EXCEPT ![s] = Tail(@)]
    /\ UNCHANGED <<platform, streamed, focus, delivering, reachable, happened>>

\* ... and the release of what is held when there is none left, one thing at a time.
ReleaseHeld(s, x, answers) ==
    /\ delivering[s] = "closing" /\ inputs[s] = <<>> /\ x \in held[s]
    /\ held' = [held EXCEPT ![s] = @ \ {x}]
    /\ Inject(ReleaseOf(x)[1], ReleaseOf(x)[2], answers)
    /\ strayed' = StrayedAfter(ReleaseOf(x)[1], ReleaseOf(x)[2], answers)
    /\ UNCHANGED <<platform, streamed, focus, inputs, delivering, pads, reachable, happened>>

EndDelivery(s) ==
    /\ delivering[s] = "closing" /\ inputs[s] = <<>> /\ held[s] = {}
    /\ delivering' = [delivering EXCEPT ![s] = "over"]
    /\ pads' = [pads EXCEPT ![s] = {}]
    /\ UNCHANGED <<platform, streamed, focus, inputs, held, injector, screen, reachable, happened,
                   strayed>>

\* Windows: the PC is locked or unlocked (input_desktop_reachable).
LockOrUnlock ==
    /\ platform = "windows" /\ Happens
    /\ reachable' = ~ reachable
    /\ UNCHANGED <<platform, streamed, focus, inputs, delivering, held, pads, injector, screen,
                   strayed>>

\* Whoever sits at the host brings another window to the front.
FocusElsewhere ==
    /\ Happens /\ screen.front # Elsewhere
    /\ screen' = [screen EXCEPT !.front = Elsewhere]
    /\ UNCHANGED <<platform, streamed, focus, inputs, delivering, held, pads, injector, reachable,
                   strayed>>

\* Linux: another compositor is served (display::generation), and the next event finds the
\* injector outdated; its devices go with it.
ServeAnother ==
    /\ platform = "linux" /\ Happens
    /\ injector' = Untouched
    /\ screen' = [down |-> {}, front |-> Elsewhere]
    /\ UNCHANGED <<platform, streamed, focus, inputs, delivering, held, pads, reachable, strayed>>

InputNext ==
    \/ LockOrUnlock \/ FocusElsewhere \/ ServeAnother
    \/ \E s \in InputSessions :
         \/ EndInput(s) \/ EndDelivery(s)
         \/ \E e \in ClientEvents : Input(s, e)
         \/ \E w \in InputWindows : StopInput(s, w)
         \/ \E answers \in BOOLEAN :
              Deliver(s, answers) \/ \E x \in held[s] : ReleaseHeld(s, x, answers)

InputSpec == InputInit /\ [][InputNext]_inputVars

-----------------------------------------------------------------------------
\* "A key, mouse button or touch it left pressed would otherwise stay down on the host
\* indefinitely" (deliver_input, host-core/src/lib.rs:1849): when the sessions are over
\* nothing is down, whatever the clients pressed at once, in which windows, and what
\* stopped meanwhile; and no finger keeps the next one from being taken.  The code makes
\* exceptions, and what may be left is no more than these, thing by thing (Misses,
\* StrayedAfter): a key pressed in one window on Android and released when another had the
\* focus, since HeldInput drops it at the release and the release goes to the other display;
\* on Windows a key, button or finger that was injected and released by a message, because
\* its window did not come to the front or the PC was locked; and a finger that was posted
\* while the PC was locked and lifted once it was not.
NothingStaysDown ==
    (\A s \in InputSessions : delivering[s] = "over") =>
        /\ screen.down \subseteq strayed.down
        /\ injector.primary # NoTouch => strayed.primary
        /\ injector.postedTouch # NoTouch => strayed.posted
        /\ injector.fingers = {}

=============================================================================
