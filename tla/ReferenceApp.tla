----------------------------- MODULE ReferenceApp -----------------------------
(***************************************************************************)
(* The client side of the reference app (app/src/client.rs, the client page *)
(* of gui.rs): threads that connect or sign in, the session that came of    *)
(* the last of them, the event thread of each session, and the table of     *)
(* streams that the page, the event thread and the stream windows all       *)
(* change.  With it go the two things client-core does at each event: it    *)
(* follows the popups of shown windows, and forgets stopped windows.  The   *)
(* host is what the events say of it: it answers requests in order.         *)
(***************************************************************************)
EXTENDS Naturals, FiniteSets, SequencesExt

CONSTANTS
    AppWindows,     \* the windows a host can list
    OwnerOf,        \* [AppWindows -> AppWindows \cup {NoOwner}]
    NoOwner,
    FollowPopups,   \* the "Open a streamed window's dialogs" switch
    MaxDials,       \* bound: connections tried
    MaxPresses,     \* bound: buttons pressed and windows closed by the user
    MaxHostChanges  \* bound: windows opened or closed on the host

Calls == 1..MaxDials

VARIABLES
    dials,          \* threads inside Client::connect or connect_account
    session,        \* State.session, 0 for none
    eventThread,    \* the session State.generation was bumped for, or 0
    addressed,      \* State.address.is_some(): the page shows Disconnect
    pendingTrust,   \* State.pending_trust.is_some()
    pumping,        \* the sessions whose event thread has not returned
    closedSeen,     \* per session: closed windows the thread is about to stop
    streams,        \* State.streams
    listed,         \* State.windows
    pressed,        \* start_stream between taking the session and the entry
    shownBy,        \* per session: ClientSession.shown
    open,           \* sessions neither side closed
    events,         \* per session: what client-core has for the app
    onHost,         \* the windows on the host
    hosting,        \* per session: the windows the host streams
    calls, presses, changes

appVars == <<dials, session, eventThread, addressed, pendingTrust, pumping, closedSeen,
             streams, listed, pressed, shownBy, open, events, onHost, hosting,
             calls, presses, changes>>

NoStream == [window |-> "absent", refused |-> FALSE, of |-> 0]
AskedFor == [window |-> "none", refused |-> FALSE, of |-> 0]
Showing(s) == [window |-> "open", refused |-> FALSE, of |-> s]
NotPressed == <<0, NoOwner>>
NoStreams == [w \in AppWindows |-> NoStream]

AppInit ==
    /\ dials = {} /\ session = 0 /\ eventThread = 0
    /\ addressed = FALSE /\ pendingTrust = FALSE
    /\ pumping = {} /\ closedSeen = [s \in Calls |-> {}]
    /\ streams = NoStreams /\ listed = {} /\ pressed = NotPressed
    /\ shownBy = [s \in Calls |-> {}]
    /\ open = {} /\ events = [s \in Calls |-> <<>>]
    /\ onHost = {w \in AppWindows : OwnerOf[w] = NoOwner}
    /\ hosting = [s \in Calls |-> {}]
    /\ calls = 0 /\ presses = 0 /\ changes = 0

Press == presses < MaxPresses /\ presses' = presses + 1

-----------------------------------------------------------------------------
\* What a request brings about.  The host starts a window unless it streams
\* it already or its policy forbids it, and answers no stop of a window it
\* does not stream.

Event(kind, w) == <<kind, w>>
Listing(windows) == <<"Windows", windows>>

HostStarts(s, w, before) ==
    IF s \notin open THEN UNCHANGED hosting /\ events' = before
    ELSE \/ /\ w \notin hosting[s]
            /\ hosting' = [hosting EXCEPT ![s] = @ \cup {w}]
            /\ events' = [before EXCEPT ![s] = Append(@, Event("Started", w))]
         \/ /\ UNCHANGED hosting
            /\ events' = [before EXCEPT ![s] = Append(@, Event("Refused", w))]

\* ClientSession::stop_window: the shown windows it owns first.
StopWindow(s, w) ==
    LET owned == {p \in shownBy[s] : OwnerOf[p] = w /\ p # w}
        ends == SelectSeq(Append(SetToSeq(owned), w), LAMBDA x : x \in hosting[s])
    IN /\ shownBy' = [shownBy EXCEPT ![s] = @ \ (owned \cup {w})]
       /\ hosting' = [hosting EXCEPT ![s] = @ \ ToSet(ends)]
       /\ events' = [events EXCEPT ![s] = @ \o [i \in DOMAIN ends |-> Event("Stopped", ends[i])]]

-----------------------------------------------------------------------------
\* Connecting.

\* ClientRole::disconnect.
Disconnects ==
    /\ eventThread' = 0 /\ addressed' = FALSE /\ session' = 0
    /\ streams' = NoStreams
    /\ open' = open \ {session}
    /\ hosting' = [s \in Calls |-> IF s = session THEN {} ELSE hosting[s]]

\* connect_in_background, sign_in_in_background: `knows` says whether the
\* thread may find that the host is not trusted yet.
Dial(s, knows) ==
    /\ s = calls + 1 /\ calls' = s
    /\ Press
    /\ Disconnects
    /\ dials' = dials \cup {[call |-> s, knows |-> knows]}
    /\ pendingTrust' = (pendingTrust /\ knows)
    /\ UNCHANGED <<pumping, closedSeen, listed, pressed, shownBy, events, onHost, changes>>

ConnectButton == \E s \in Calls : Dial(s, TRUE)
SignInButton == \E s \in Calls : Dial(s, FALSE)

\* trust_and_sign_in
TrustButton ==
    /\ pendingTrust
    /\ \E s \in Calls : Dial(s, TRUE) /\ ~ pendingTrust'

\* ClientRole::connected with a session: its event thread starts, and the
\* window list is asked for.  The session it replaces is only let go of.
Connected(d) ==
    /\ dials' = dials \ {d}
    /\ open' = open \cup {d.call}
    /\ session' = d.call /\ eventThread' = d.call /\ addressed' = TRUE
    /\ listed' = {}
    /\ pumping' = pumping \cup {d.call}
    /\ events' = [events EXCEPT ![d.call] = <<Listing(onHost)>>]
    /\ UNCHANGED <<calls, pendingTrust, closedSeen, streams, pressed, shownBy, onHost, hosting,
                   presses, changes>>

DialFails(d) ==
    /\ dials' = dials \ {d}
    /\ UNCHANGED <<calls, session, eventThread, addressed, pendingTrust, pumping, closedSeen, streams,
                   listed, pressed, shownBy, open, events, onHost, hosting, presses, changes>>

\* sign_in stopped by HostNotTrusted.
HostNotTrusted(d) ==
    /\ ~ d.knows
    /\ dials' = dials \ {d}
    /\ pendingTrust' = TRUE
    /\ UNCHANGED <<calls, session, eventThread, addressed, pumping, closedSeen, streams, listed,
                   pressed, shownBy, open, events, onHost, hosting, presses, changes>>

DisconnectButton ==
    /\ addressed
    /\ Press
    /\ Disconnects
    /\ UNCHANGED <<calls, dials, pendingTrust, pumping, closedSeen, listed, pressed, shownBy, events,
                   onHost, changes>>

-----------------------------------------------------------------------------
\* The window list and the streams of the page.

\* ClientWindow.streaming: the button says Stop.
Streaming(w) == streams[w].window # "absent" /\ ~ streams[w].refused

\* start_stream takes the session, then puts its entry in and asks.
StreamButton(w) ==
    /\ w \in listed /\ ~ Streaming(w)
    /\ session # 0 /\ pressed = NotPressed
    /\ Press
    /\ pressed' = <<session, w>>
    /\ UNCHANGED <<calls, dials, session, eventThread, addressed, pendingTrust, pumping, closedSeen,
                   streams, listed, shownBy, open, events, onHost, hosting, changes>>

StartStream ==
    /\ pressed # NotPressed
    /\ LET s == pressed[1]  w == pressed[2] IN
         /\ streams' = [streams EXCEPT ![w] = AskedFor]
         /\ shownBy' = [shownBy EXCEPT ![s] = @ \cup {w}]
         /\ HostStarts(s, w, events)
    /\ pressed' = NotPressed
    /\ UNCHANGED <<calls, dials, session, eventThread, addressed, pendingTrust, pumping, closedSeen,
                   listed, open, onHost, presses, changes>>

\* stop_stream
StopButton(w) ==
    /\ w \in listed /\ Streaming(w)
    /\ Press
    /\ streams' = [streams EXCEPT ![w] = NoStream]
    /\ IF session = 0 THEN UNCHANGED <<shownBy, events, hosting>> ELSE StopWindow(session, w)
    /\ UNCHANGED <<calls, dials, session, eventThread, addressed, pendingTrust, pumping, closedSeen,
                   listed, pressed, open, onHost, changes>>

\* A stream window ends: the user closes it, or its frames end with the stream.
WindowCloses(w) ==
    /\ streams[w].window = "open"
    /\ IF w \in hosting[streams[w].of] THEN Press ELSE UNCHANGED presses
    /\ streams' = [streams EXCEPT ![w].window = "closed"]
    /\ UNCHANGED <<calls, dials, session, eventThread, addressed, pendingTrust, pumping, closedSeen,
                   listed, pressed, shownBy, open, events, onHost, hosting, changes>>

-----------------------------------------------------------------------------
\* pump_events, on the event thread of session s.

\* The thread of a session that is no longer State.generation's returns.
PumpLeaves(s) ==
    /\ s \in pumping /\ eventThread # s /\ closedSeen[s] = {}
    /\ pumping' = pumping \ {s}
    /\ UNCHANGED <<calls, dials, session, eventThread, addressed, pendingTrust, closedSeen, streams,
                   listed, pressed, shownBy, open, events, onHost, hosting, presses, changes>>

\* Bug to catch: a stream that was also refused is left out, as the page does.
ClosedAndServed ==
    {w \in AppWindows : streams[w].window = "closed" /\ ~ streams[w].refused}

ClosedWindows == {w \in AppWindows : streams[w].window = "closed"}

\* stop_closed_windows collects the closed windows under the lock ...
CollectClosed(s) ==
    /\ s \in pumping /\ eventThread = s /\ closedSeen[s] = {}
    /\ ClosedWindows # {}
    /\ closedSeen' = [closedSeen EXCEPT ![s] = ClosedWindows]
    /\ UNCHANGED <<calls, dials, session, eventThread, addressed, pendingTrust, pumping, streams,
                   listed, pressed, shownBy, open, events, onHost, hosting, presses, changes>>

\* ... and removes and stops each of them after it.
StopClosed(s, w) ==
    /\ w \in closedSeen[s]
    /\ closedSeen' = [closedSeen EXCEPT ![s] = @ \ {w}]
    /\ streams' = [streams EXCEPT ![w] = NoStream]
    /\ StopWindow(s, w)
    /\ UNCHANGED <<calls, dials, session, eventThread, addressed, pendingTrust, pumping, listed,
                   pressed, open, onHost, presses, changes>>

\* ClientSession::follow, for the one popup a list can bring here.
Follow(s, windows) ==
    LET kept == shownBy[s] \cap windows
        popups == {w \in windows \ kept : FollowPopups /\ OwnerOf[w] \in kept}
        rest == [events EXCEPT ![s] = Tail(@)]
    IN /\ shownBy' = [shownBy EXCEPT ![s] = kept \cup popups]
       /\ IF popups = {} THEN UNCHANGED hosting /\ events' = rest
          ELSE \E w \in popups : HostStarts(s, w, rest)

\* on_stream_started: the entry is kept, or made for a popup; its window opens.
OnStreamStarted(s, w) == [streams EXCEPT ![w] = Showing(s)]

\* ClientSession::next_event, and what the thread makes of the event: an
\* event that a newer connection overtook only ends the thread.
PumpEvent(s) ==
    /\ s \in pumping /\ closedSeen[s] = {} /\ events[s] # <<>>
    /\ LET kind == Head(events[s])[1]
           about == Head(events[s])[2]
           current == eventThread = s
       IN /\ IF kind = "Windows" THEN Follow(s, about)
             ELSE /\ events' = [events EXCEPT ![s] = Tail(@)]
                  /\ shownBy' = [shownBy EXCEPT ![s] =
                                   IF kind = "Stopped" THEN @ \ {about} ELSE @]
                  /\ UNCHANGED hosting
          /\ pumping' = IF current /\ kind # "Closed" THEN pumping ELSE pumping \ {s}
          /\ listed' = IF current /\ kind = "Windows" THEN about ELSE listed
          /\ session' = IF current /\ kind = "Closed" THEN 0 ELSE session
          /\ streams' =
               CASE ~ current \/ kind = "Windows" -> streams
                 [] current /\ kind = "Closed" -> NoStreams
                 [] current /\ kind = "Started" -> OnStreamStarted(s, about)
                 [] current /\ kind = "Stopped" -> [streams EXCEPT ![about] = NoStream]
                 [] current /\ kind = "Refused" /\ streams[about] = NoStream -> streams
                 [] OTHER -> [streams EXCEPT ![about].refused = TRUE]
    /\ UNCHANGED <<calls, dials, eventThread, addressed, pendingTrust, closedSeen, pressed, open,
                   onHost, presses, changes>>

\* The last Arc of a replaced session is dropped, which closes it: no event
\* thread and no stream window uses it.
SessionDropped(s) ==
    /\ s \in open /\ session # s /\ s \notin pumping /\ pressed[1] # s
    /\ \A w \in AppWindows : ~ (streams[w].of = s /\ streams[w].window = "open")
    /\ open' = open \ {s}
    /\ hosting' = [hosting EXCEPT ![s] = {}]
    /\ UNCHANGED <<calls, dials, session, eventThread, addressed, pendingTrust, pumping, closedSeen,
                   streams, listed, pressed, shownBy, events, onHost, presses, changes>>

-----------------------------------------------------------------------------
\* The host on its own.

ToAll(event(_)) == [s \in Calls |-> IF s \in open THEN events[s] \o event(s) ELSE events[s]]

\* A popup opens or closes: the list goes out, and a closed window's stream ends.
PopupComesOrGoes(w) ==
    /\ OwnerOf[w] # NoOwner
    /\ changes < MaxHostChanges /\ changes' = changes + 1
    /\ onHost' = IF w \in onHost THEN onHost \ {w} ELSE onHost \cup {w}
    /\ hosting' = [s \in Calls |-> hosting[s] \cap onHost']
    /\ events' = ToAll(LAMBDA s : (IF w \in hosting[s] \ onHost' THEN <<Event("Stopped", w)>> ELSE <<>>)
                                    \o <<Listing(onHost')>>)
    /\ UNCHANGED <<calls, dials, session, eventThread, addressed, pendingTrust, pumping, closedSeen,
                   streams, listed, pressed, shownBy, open, presses>>

HostCloses(s) ==
    /\ s \in open
    /\ changes < MaxHostChanges /\ changes' = changes + 1
    /\ open' = open \ {s}
    /\ hosting' = [hosting EXCEPT ![s] = {}]
    /\ events' = [events EXCEPT ![s] = Append(@, Event("Closed", NoOwner))]
    /\ UNCHANGED <<calls, dials, session, eventThread, addressed, pendingTrust, pumping, closedSeen,
                   streams, listed, pressed, shownBy, onHost, presses>>

AppNext ==
    \/ ConnectButton \/ SignInButton \/ TrustButton \/ DisconnectButton \/ StartStream
    \/ \E d \in dials : Connected(d) \/ DialFails(d) \/ HostNotTrusted(d)
    \/ \E w \in AppWindows : StreamButton(w) \/ StopButton(w) \/ WindowCloses(w)
                               \/ PopupComesOrGoes(w)
    \/ \E s \in Calls : \/ PumpLeaves(s) \/ CollectClosed(s) \/ PumpEvent(s)
                        \/ SessionDropped(s) \/ HostCloses(s)
                        \/ \E w \in AppWindows : StopClosed(s, w)

\* The event thread keeps turning and a pressed button is carried out.
AppFairness ==
    /\ WF_appVars(StartStream)
    /\ \A s \in Calls : /\ WF_appVars(CollectClosed(s)) /\ WF_appVars(PumpEvent(s))
                        /\ WF_appVars(\E w \in AppWindows : StopClosed(s, w))

AppSpec == AppInit /\ [][AppNext]_appVars

-----------------------------------------------------------------------------
\* "A stream whose window was closed (by the user, or an error) is stopped on
\* the host" (stop_closed_windows): whatever the page, the event thread and
\* later connections do meanwhile, unless it is asked for, or shown, again.
\* The event threads of earlier connections have returned: one that has not
\* may still remove the entry of a window it saw closed in its own session.
ClosedWindowsStop == AppFairness =>
    \A s \in Calls, w \in AppWindows :
        (/\ session = s /\ pumping = {s}
         /\ streams[w].window = "closed" /\ streams[w].of = s)
            ~> (session # s \/ w \notin hosting[s] \/ streams[w].window \in {"none", "open"})

-----------------------------------------------------------------------------
(***************************************************************************)
(* The host side of the reference app (app/src/host.rs, the host page of    *)
(* gui.rs) in one session: the page applies settings, some of which switch  *)
(* what a client may do at once (Gated), and the session's tasks go through *)
(* those switches: the one that shares the clipboard, the one that delivers *)
(* input, the one that plays the microphone, the gamepads.  Being reachable *)
(* from away is a task of its own, started and aborted by the settings.     *)
(***************************************************************************)

CONSTANTS
    ClientTexts,    \* texts the client puts on the clipboard
    HostTexts,      \* texts copied on the host
    MaxSettings,    \* bound: changes of the settings
    MaxCopies,      \* bound: texts copied or put
    MaxEvents       \* bound: keys, buttons and sounds the client sends

NoText == ""
NeverLooked == 1000
Switches == {"input", "clipboard", "microphone", "away", "rest"}

VARIABLES
    switches,       \* Gated's switches, and what the rest was set to
    stored,         \* Store: config.host
    board,          \* the host's clipboard: text, sequence number, held open
    toHost,         \* clipboard messages on their way to the host
    setting,        \* texts of set_clipboard tasks that have not run
    looked,         \* what share_clipboard has read and not judged
    seen,           \* its `seen`, or NeverLooked
    lastShared,     \* its `last`
    clientText,     \* the clipboard as the client has it
    unread,         \* history: sequence numbers read while held open
    keyDown,        \* the host holds a key for the client
    heldKey,        \* HeldInput: the session knows it is down
    padState,       \* "unplugged", "idle" or "pressed"
    microphone,     \* the session's sink: "unasked", "refused" or "open"
    awayTask,       \* "none", "starting", "serving" or "over"
    settingsMade, copies, sentEvents

hostAppVars == <<switches, stored, board, toHost, setting, looked, seen, lastShared,
                 clientText, unread, keyDown, heldKey, padState, microphone, awayTask,
                 settingsMade, copies, sentEvents>>
clipboardVars == <<board, toHost, setting, looked, seen, lastShared, clientText,
                   unread, copies>>
deviceVars == <<keyDown, heldKey, padState, microphone, sentEvents>>

\* HostRole::start: what is stored is in force from the beginning.
HostAppInit ==
    /\ stored \in {[s \in Switches |-> IF s = "clipboard" THEN c ELSE s = "input"] : c \in BOOLEAN}
    /\ switches = stored
    /\ board = [text |-> NoText, counter |-> 1, busy |-> FALSE]
    /\ toHost = <<>> /\ setting = {}
    /\ looked = <<>> /\ seen = NeverLooked /\ lastShared = "none"
    /\ clientText = NoText /\ unread = {}
    /\ keyDown = FALSE /\ heldKey = FALSE /\ padState = "unplugged" /\ microphone = "unasked"
    /\ awayTask = "none"
    /\ settingsMade = 0 /\ copies = 0 /\ sentEvents = 0

-----------------------------------------------------------------------------
\* The settings.

\* set_away: nothing changes, the task is aborted, or one is started; a
\* directory that cannot be made leaves none.
SetAway(on) ==
    \/ on = (awayTask # "none") /\ UNCHANGED awayTask
    \/ ~ on /\ awayTask' = "none"
    \/ on /\ awayTask = "none" /\ awayTask' \in {"none", "starting"}

\* A checkbox of the page: what is stored, with one switch turned.
Toggled(s) == [stored EXCEPT ![s] = ~ @]

\* Store::update
Stores(settings) == stored' = settings

\* host_ui sees one change a frame, and applies it: the agent's options or
\* the accounts may refuse, and then nothing after them is done.
Apply(s) ==
    /\ settingsMade < MaxSettings /\ settingsMade' = settingsMade + 1
    /\ LET settings == Toggled(s) IN
         \/ /\ s = "rest"
            /\ UNCHANGED <<switches, stored, awayTask>>
         \/ /\ switches' = settings
            /\ SetAway(settings["away"])
            /\ Stores(settings)
    /\ UNCHANGED <<board, toHost, setting, looked, seen, lastShared, clientText, unread,
                   copies, deviceVars>>

\* serve_remote binds its port, or cannot, which is only printed.
AwayStarts ==
    /\ awayTask = "starting"
    /\ awayTask' \in {"serving", "over"}
    /\ UNCHANGED <<switches, stored, clipboardVars, deviceVars, settingsMade>>

-----------------------------------------------------------------------------
\* The clipboard.

Copy == copies < MaxCopies /\ copies' = copies + 1
Holds(text) == board' = [text |-> text, counter |-> board.counter + 1, busy |-> FALSE]

\* A program on the host copies: it may keep the clipboard open a while.
CopiedOnHost(text) ==
    /\ Copy
    /\ \E busy \in BOOLEAN : board' = [text |-> text, counter |-> board.counter + 1, busy |-> busy]
    /\ UNCHANGED <<switches, stored, toHost, setting, looked, seen, lastShared, clientText, unread,
                   deviceVars, awayTask, settingsMade>>

ClipboardIsClosed ==
    /\ board.busy
    /\ board' = [board EXCEPT !.busy = FALSE]
    /\ UNCHANGED <<switches, stored, toHost, setting, looked, seen, lastShared,
                   clientText, unread, copies, deviceVars, awayTask, settingsMade>>

PutByClient(text) ==
    /\ Copy
    /\ toHost' = Append(toHost, text)
    /\ clientText' = text
    /\ UNCHANGED <<switches, stored, board, setting, looked, seen, lastShared, unread,
                   deviceVars, awayTask, settingsMade>>

\* Serving::handle(Clipboard): the text is remembered, and a task of its own
\* sets it, so that two texts may be set in either order.
HandleClipboard ==
    /\ toHost # <<>>
    /\ lastShared' = Head(toHost)
    /\ setting' = setting \cup {Head(toHost)}
    /\ toHost' = Tail(toHost)
    /\ UNCHANGED <<switches, stored, board, looked, seen, clientText, unread,
                   copies, deviceVars, awayTask, settingsMade>>

\* Gated::set_clipboard, clipboard::set_text: nothing while sharing is off or
\* another program holds the clipboard open.
SetClipboard(text) ==
    /\ text \in setting
    /\ setting' = setting \ {text}
    /\ IF switches["clipboard"] /\ ~ board.busy THEN Holds(text) ELSE UNCHANGED board
    /\ UNCHANGED <<switches, stored, toHost, looked, seen, lastShared, clientText,
                   unread, copies, deviceVars, awayTask, settingsMade>>

\* clipboard::text: one that cannot be opened has none.
BoardText == IF board.busy THEN NoText ELSE board.text

\* Gated::clipboard: while sharing is off, a clipboard that never changes.
Clipboard ==
    IF ~ switches["clipboard"] THEN [text |-> NoText, counter |-> 0]
    ELSE [text |-> BoardText, counter |-> board.counter]

\* share_clipboard looks ...
LookAtClipboard ==
    /\ looked = <<>> /\ seen # Clipboard.counter
    /\ looked' = <<Clipboard>>
    /\ unread' = IF switches["clipboard"] /\ board.busy THEN unread \cup {board.counter} ELSE unread
    /\ UNCHANGED <<switches, stored, board, toHost, setting, seen, lastShared,
                   clientText, copies, deviceVars, awayTask, settingsMade>>

\* Bug to catch: what is on the clipboard by now is taken for sent.
SeenAsOfNow == seen' = Clipboard.counter

SeenAsLooked == seen' = looked[1].counter

\* ... and sends what it saw, unless it is the first look or an echo.
ShareClipboard ==
    /\ looked # <<>>
    /\ SeenAsLooked
    /\ looked' = <<>>
    /\ IF seen = NeverLooked \/ lastShared = looked[1].text
         THEN UNCHANGED <<lastShared, clientText>>
         ELSE /\ lastShared' = looked[1].text
              /\ clientText' = looked[1].text
    /\ UNCHANGED <<switches, stored, board, toHost, setting, unread, copies,
                   deviceVars, awayTask, settingsMade>>

-----------------------------------------------------------------------------
\* Input, gamepads and the microphone.

Sends == sentEvents < MaxEvents /\ sentEvents' = sentEvents + 1

\* HeldInput tracks a key and the source takes it, if clients may drive it.
KeyEvent(down) ==
    /\ Sends
    /\ heldKey' = down
    /\ keyDown' = IF switches["input"] THEN down ELSE keyDown
    /\ UNCHANGED <<switches, stored, clipboardVars, padState, microphone, awayTask, settingsMade>>

\* GatedPads: switched off, a pad is unplugged.
PadEvent(state) ==
    /\ Sends
    /\ padState' = IF switches["input"] THEN state ELSE "unplugged"
    /\ UNCHANGED <<switches, stored, clipboardVars, keyDown, heldKey, microphone, awayTask,
                   settingsMade>>

\* The session opens the sink once, at the client's first sound; afterwards
\* each sound is played while it is allowed.
MicrophoneSound ==
    /\ Sends
    /\ microphone' = IF microphone # "unasked" THEN microphone
                     ELSE IF switches["microphone"] THEN "open" ELSE "refused"
    /\ UNCHANGED <<switches, stored, clipboardVars, keyDown, heldKey, padState, awayTask,
                   settingsMade>>

HostAppNext ==
    \/ \E s \in Switches : Apply(s)
    \/ AwayStarts
    \/ \E t \in HostTexts : CopiedOnHost(t)
    \/ ClipboardIsClosed
    \/ \E t \in ClientTexts : PutByClient(t) \/ SetClipboard(t)
    \/ HandleClipboard \/ LookAtClipboard \/ ShareClipboard
    \/ \E d \in BOOLEAN : KeyEvent(d)
    \/ \E p \in {"idle", "pressed"} : PadEvent(p)
    \/ MicrophoneSound

\* The tasks of the session run, and no program keeps the clipboard open.
HostAppFairness ==
    /\ WF_hostAppVars(LookAtClipboard) /\ WF_hostAppVars(ShareClipboard)
    /\ WF_hostAppVars(HandleClipboard) /\ WF_hostAppVars(ClipboardIsClosed)
    /\ \A t \in ClientTexts : WF_hostAppVars(SetClipboard(t))

HostAppSpec == HostAppInit /\ [][HostAppNext]_hostAppVars

-----------------------------------------------------------------------------
\* A text copied on the host while sharing is on reaches the client, also
\* when it is copied while another one is being looked at or sent, unless the
\* client has put one of its own since (share_clipboard).  A text that could
\* not be read when its number was seen is the exception: an empty one is sent
\* for it, and it never is.
CopiedTextArrives == HostAppFairness =>
    \A n \in 2..(MaxCopies + 1) :
        (board.counter = n /\ board.text \in HostTexts /\ switches["clipboard"] /\ seen < n)
            ~> (board.counter # n \/ ~ switches["clipboard"] \/ n \in unread
                  \/ clientText \in ClientTexts \cup {board.text})
=============================================================================
