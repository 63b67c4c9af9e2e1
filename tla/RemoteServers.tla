---------------------------- MODULE RemoteServers -----------------------------
(***************************************************************************)
(* One window served over RDP (rdp/src/host.rs): the server thread that    *)
(* WithRdp::start makes for a handoff or for compatibility mode, its loop  *)
(* of one connection at a time, and the capture thread that feeds a        *)
(* connection pictures through a queue of two.  The guard of the handoff   *)
(* stops the server from another thread.  RDP itself, the login included,  *)
(* is IronRDP's (external): a connection runs until its client leaves.     *)
(***************************************************************************)
EXTENDS Naturals, Sequences, FiniteSets, FiniteSetsExt

CONSTANTS
  RdpPictures,  \* pictures the window can show
  QUEUE,        \* pictures the connection's channel holds
  MaxDials,     \* bound: clients that connect
  MaxChanges    \* bound: changes of the window's picture

ASSUME RdpQueueAssumption == QUEUE \in Nat \ {0}

VARIABLES
  server,   \* the server thread: phase, enabled, input, dialled clients
  stopFlag, \* Stop: the watch channel's value
  screen,   \* the window (external): its picture, changes, whether it is there
  capture,  \* the capture thread of the current connection
  orphans,  \* captures whose connection is gone, until their next picture
  queue,    \* its channel
  shownTo,  \* what the connected client has
  rdpKeys   \* what the client's input holds down on the host

rdpVars == <<server, stopFlag, screen, capture, orphans, queue, shownTo,
             rdpKeys>>

Nothing == "nothing"

RdpInit ==
  /\ server = [phase |-> "none", enabled |-> TRUE, input |-> FALSE,
               dials |-> 0, dialled |-> 0]
  /\ stopFlag = FALSE
  /\ screen = [picture |-> CHOOSE p \in RdpPictures : TRUE, changes |-> 0,
               there |-> TRUE]
  /\ capture = "none"
  /\ orphans = 0
  /\ queue = <<>>
  /\ shownTo = Nothing
  /\ rdpKeys = {}

-----------------------------------------------------------------------------
(* set_enabled.                                                            *)
SetEnabled ==
  /\ server.phase = "none"
  /\ server' = [server EXCEPT !.enabled = ~@]
  /\ UNCHANGED <<stopFlag, screen, capture, orphans, queue, shownTo, rdpKeys>>

(* handoff (no input of its own) or the compatibility provider's open:     *)
(* pictures must be there, then the server's thread runs.                  *)
StartServer(input) ==
  /\ server.phase = "none" /\ screen.there
  /\ server.enabled \/ input
  /\ server' = [server EXCEPT !.phase = "starting", !.input = input]
  /\ UNCHANGED <<stopFlag, screen, capture, orphans, queue, shownTo, rdpKeys>>

(* StopOnDrop: the guard is dropped, at any time.                          *)
GuardDropped ==
  /\ server.phase # "none" /\ ~stopFlag
  /\ stopFlag' = TRUE
  /\ UNCHANGED <<server, screen, capture, orphans, queue, shownTo, rdpKeys>>

(* serve begins: the window's size, or its end.                            *)
ServeBegins ==
  /\ server.phase = "starting"
  /\ server' = [server EXCEPT
                  !.phase = IF screen.there THEN "accepting" ELSE "done"]
  /\ UNCHANGED <<stopFlag, screen, capture, orphans, queue, shownTo, rdpKeys>>

(* A client dials the listener, which the system queues.                   *)
Dial ==
  /\ server.phase \in {"starting", "accepting", "serving"}
  /\ server.dialled < MaxDials
  /\ server' = [server EXCEPT !.dials = @ + 1, !.dialled = @ + 1]
  /\ UNCHANGED <<stopFlag, screen, capture, orphans, queue, shownTo, rdpKeys>>

(* The first select of the loop takes either branch that is ready.         *)
AcceptRdp ==
  /\ server.phase = "accepting" /\ server.dials > 0
  /\ server' = [server EXCEPT !.phase = "serving", !.dials = @ - 1]
  /\ UNCHANGED <<stopFlag, screen, capture, orphans, queue, shownTo, rdpKeys>>

StoppedAccepting ==
  /\ server.phase = "accepting" /\ stopFlag
  /\ server' = [server EXCEPT !.phase = "done"]
  /\ UNCHANGED <<stopFlag, screen, capture, orphans, queue, shownTo, rdpKeys>>

(* WindowDisplay::updates: the client is let in, a capture of its own      *)
(* begins with its channel.                                                *)
BeginUpdates ==
  /\ server.phase = "serving" /\ shownTo = Nothing
  /\ screen.there /\ capture = "none"
  /\ capture' = "on"
  /\ queue' = <<>>
  /\ UNCHANGED <<server, stopFlag, screen, orphans, shownTo, rdpKeys>>

(* The capture thread: a picture when the window changes and once a second *)
(* regardless; one the connection is not ready for is dropped, and a       *)
(* channel whose other end is gone ends the thread.                        *)
Captures ==
  /\ capture = "on" /\ screen.there
  /\ queue' = IF Len(queue) < QUEUE
              THEN Append(queue, screen.picture) ELSE queue
  /\ UNCHANGED <<server, stopFlag, screen, capture, orphans, shownTo, rdpKeys>>

OrphanEnds ==
  /\ orphans > 0
  /\ orphans' = orphans - 1
  /\ UNCHANGED <<server, stopFlag, screen, capture, queue, shownTo, rdpKeys>>

(* The source ends with its window.                                        *)
CaptureEnds ==
  /\ capture = "on" /\ ~screen.there
  /\ capture' = "over"
  /\ UNCHANGED <<server, stopFlag, screen, orphans, queue, shownTo, rdpKeys>>

(* WindowUpdates::next_update.                                             *)
NextUpdate ==
  /\ server.phase = "serving" /\ queue # <<>>
  /\ shownTo' = Head(queue)
  /\ queue' = Tail(queue)
  /\ UNCHANGED <<server, stopFlag, screen, capture, orphans, rdpKeys>>

(* WindowInput: keys and buttons of a server that takes input.             *)
InputOverRdp(pressed) ==
  /\ server.phase = "serving" /\ server.input
  /\ rdpKeys' = IF pressed THEN {"left"} ELSE {}
  /\ UNCHANGED <<server, stopFlag, screen, capture, orphans, queue, shownTo>>

(* run_connection ends (the client left, a wrong login, the pictures are   *)
(* over), or the second select sees the stop: the connection's ends drop.  *)
(* The input handler is the server's, so what is held is released only     *)
(* when the server goes.                                                   *)
Drops(phase) ==
  /\ server' = [server EXCEPT !.phase = phase]
  /\ capture' = "none"
  /\ orphans' = orphans + (IF capture = "on" THEN 1 ELSE 0)
  /\ queue' = <<>>
  /\ shownTo' = Nothing
  /\ rdpKeys' = IF phase = "done" THEN {} ELSE rdpKeys
  /\ UNCHANGED <<stopFlag, screen>>

ConnectionEnds == server.phase = "serving" /\ Drops("accepting")

(* A stop told once to whoever waits: a server that is not at a select     *)
(* never hears it.                                                         *)
HearsOnce == stopFlag /\ shownTo = Nothing

Hears == stopFlag

StoppedServing == server.phase = "serving" /\ Hears /\ Drops("done")

(* The window (external).                                                  *)
ScreenChanges ==
  /\ screen.there
  /\ \/ /\ screen.changes < MaxChanges
        /\ \E p \in RdpPictures \ {screen.picture} :
             screen' = [screen EXCEPT !.picture = p, !.changes = @ + 1]
     \/ screen' = [screen EXCEPT !.there = FALSE]
  /\ UNCHANGED <<server, stopFlag, capture, orphans, queue, shownTo, rdpKeys>>

RdpNext ==
  \/ SetEnabled \/ GuardDropped \/ ServeBegins \/ Dial \/ AcceptRdp
  \/ \E b \in BOOLEAN : StartServer(b) \/ InputOverRdp(b)
  \/ StoppedAccepting \/ BeginUpdates \/ Captures \/ OrphanEnds
  \/ CaptureEnds
  \/ NextUpdate \/ ConnectionEnds \/ StoppedServing \/ ScreenChanges

(* Both threads run, the source repeats its picture, and tokio polls the   *)
(* branches of a select (in an order of its own, so each is seen in time). *)
RdpFairness ==
  /\ WF_rdpVars(ServeBegins) /\ SF_rdpVars(StoppedAccepting)
  /\ WF_rdpVars(StoppedServing) /\ WF_rdpVars(BeginUpdates)
  /\ WF_rdpVars(Captures) /\ WF_rdpVars(CaptureEnds)
  /\ WF_rdpVars(OrphanEnds)
  /\ SF_rdpVars(NextUpdate)

RdpSpec == RdpInit /\ [][RdpNext]_rdpVars

-----------------------------------------------------------------------------
(* A dropped guard ends the server: its loop, the client it is serving and *)
(* the capture of it, wherever the thread is when the flag is set          *)
(* (host.rs, Stop: the flag stays set, so a wait begun later sees it).     *)
StoppedServerEnds == RdpFairness =>
  stopFlag ~> (server.phase = "done" /\ shownTo = Nothing /\ orphans = 0)

-----------------------------------------------------------------------------
(***************************************************************************)
(* Compatibility mode's VNC endpoint (vnc/src/lib.rs): the RFB server of   *)
(* one window and one viewer of it.  An acceptor thread takes viewers; a   *)
(* viewer has an updater thread, which answers its update requests with    *)
(* what changed, and a reader thread, which sends its keys and pointer to  *)
(* the window.  The updater learns the viewer's wishes from a channel the  *)
(* reader writes.                                                          *)
(*                                                                         *)
(* Pictures have one dimension: a sequence of pixels, as long as the       *)
(* window is wide; the rows of a real one are handled alike.  A pixel      *)
(* format is a constant the viewer and the updater agree on, so a change   *)
(* of it only asks for everything again.  The viewer (external) draws what *)
(* it gets, and gives up on a rectangle outside its framebuffer.           *)
(***************************************************************************)

CONSTANTS
  Widths,        \* widths the window takes
  Colours,       \* colours a pixel takes; Black is one
  MaxViews,      \* bound: pictures the window makes
  MaxViewerMsgs  \* bound: messages the viewer sends

ASSUME WidthsAssumption == Widths \subseteq Nat \ {0} /\ Widths # {}
ASSUME ColoursAssumption == 0 \in Colours

Black == 0

VARIABLES
  vnc,      \* the endpoint: stop flag, acceptor, viewer's connection
  vwindow,  \* the window's picture (external), and how many it made
  wants,    \* the channel of Wanted from the reader to the updater
  updates,  \* the updater: resize, last, previous, sent_size; outgrown says
            \* it sent of a picture wider than the size the viewer was told
  vreader,  \* the reader: size, buttons, the modifiers held
  keysHeld, \* keys and buttons the host was told are down
  toViewer, \* updates written and not drawn yet
  vncViewer \* the viewer: framebuffer, the keys it holds, messages sent

vncVars == <<vnc, vwindow, wants, updates, vreader, keysHeld, toViewer,
             vncViewer>>

Pictures == UNION {[1..w -> Colours] : w \in Widths}
NoPicture == <<>>

VncInit ==
  /\ vnc = [stop |-> FALSE, accepts |-> TRUE, phase |-> "none"]
  /\ vwindow = [picture |-> [i \in 1..Min(Widths) |-> Black], made |-> 0,
                gone |-> FALSE]
  /\ wants = <<>>
  /\ updates = [resize |-> FALSE, last |-> NoPicture,
                previous |-> NoPicture, sent |-> 0, outgrown |-> FALSE]
  /\ vreader = [on |-> FALSE, size |-> 0, buttons |-> {}, shortcut |-> FALSE]
  /\ keysHeld = {}
  /\ toViewer = <<>>
  /\ vncViewer = [fb |-> NoPicture, asked |-> FALSE,
               holds |-> {}, sent |-> 0, broken |-> FALSE]

-----------------------------------------------------------------------------
(* The window (external) changes its picture, its size with it, or closes. *)
WindowDraws ==
  /\ vwindow.made < MaxViews
  /\ \E p \in Pictures \ {vwindow.picture} :
       vwindow' = [vwindow EXCEPT !.picture = p, !.made = @ + 1]
  /\ UNCHANGED <<vnc, wants, updates, vreader, keysHeld, toViewer, vncViewer>>

WindowCloses ==
  /\ ~vwindow.gone
  /\ vwindow' = [vwindow EXCEPT !.gone = TRUE]
  /\ UNCHANGED <<vnc, wants, updates, vreader, keysHeld, toViewer, vncViewer>>

(* Stop::drop: compatibility mode is off for the window.                   *)
VncStops ==
  /\ ~vnc.stop
  /\ vnc' = [vnc EXCEPT !.stop = TRUE]
  /\ UNCHANGED <<vwindow, wants, updates, vreader, keysHeld, toViewer, vncViewer>>

(* Server::accept: every 100 ms the acceptor looks at the flag.            *)
Accepts ==
  /\ vnc.accepts /\ ~vnc.stop /\ vnc.phase = "none"
  /\ vnc' = [vnc EXCEPT !.phase = "handshake"]
  /\ UNCHANGED <<vwindow, wants, updates, vreader, keysHeld, toViewer, vncViewer>>

AcceptorEnds ==
  /\ vnc.accepts /\ vnc.stop
  /\ vnc' = [vnc EXCEPT !.accepts = FALSE]
  /\ UNCHANGED <<vwindow, wants, updates, vreader, keysHeld, toViewer, vncViewer>>

(* The connection is over: the threads' ends of it are dropped, and the    *)
(* delivering thread, whose sender the reader held, releases what is held. *)
ViewerEnds ==
  /\ vnc' = [vnc EXCEPT !.phase = "over"]
  /\ vreader' = [vreader EXCEPT !.on = FALSE]
  /\ keysHeld' = {}
  /\ UNCHANGED <<vwindow, wants, updates, toViewer, vncViewer>>

(* handshake: a wrong version, security type or password, or 30 s.         *)
HandshakeFails ==
  /\ vnc.phase = "handshake"
  /\ ViewerEnds

(* serve after the handshake: the first picture, ServerInit with its size, *)
(* and the reader, which keeps that size.                                  *)
ServeViewer ==
  /\ vnc.phase = "handshake" /\ ~vwindow.gone
  /\ vnc' = [vnc EXCEPT !.phase = "on"]
  /\ updates' = [updates EXCEPT !.last = vwindow.picture]
  /\ vreader' = [vreader EXCEPT !.on = TRUE, !.size = Len(vwindow.picture)]
  /\ vncViewer' = [vncViewer EXCEPT
                  !.fb = [i \in 1..Len(vwindow.picture) |-> Black]]
  /\ UNCHANGED <<vwindow, wants, keysHeld, toViewer>>

-----------------------------------------------------------------------------
(* The reader, one message of the viewer.                                  *)

ReadsMessage(message) ==
  /\ vreader.on /\ ~vncViewer.broken /\ vncViewer.sent < MaxViewerMsgs
  /\ wants' = Append(wants, message)
  /\ UNCHANGED <<vnc, vwindow, updates, vreader, keysHeld, toViewer>>

(* SetPixelFormat; SetEncodings, with or without DesktopSize.              *)
SetPixelFormat ==
  /\ \E known \in BOOLEAN : ReadsMessage([t |-> "format", known |-> known])
  /\ vncViewer' = [vncViewer EXCEPT !.sent = @ + 1]

SetEncodings ==
  \E on \in BOOLEAN :
    /\ ReadsMessage([t |-> "resize", on |-> on])
    /\ vncViewer' = [vncViewer EXCEPT !.sent = @ + 1]

(* FramebufferUpdateRequest; a viewer asks again when it has its answer.   *)
UpdateRequest(incremental) ==
  /\ ~vncViewer.asked
  /\ ReadsMessage([t |-> "update", incremental |-> incremental])
  /\ vncViewer' = [vncViewer EXCEPT !.asked = TRUE]

(* Modifiers::event: a modifier goes as a key and is remembered; a         *)
(* character goes as a key while a modifier is held, and as text when not, *)
(* its release then being nothing.                                         *)
KeyEvent(key, pressed) ==
  /\ vreader.on /\ ~vncViewer.broken /\ vncViewer.sent < MaxViewerMsgs
  /\ (key \in vncViewer.holds) # pressed
  /\ vncViewer' = [vncViewer EXCEPT !.sent = @ + 1,
                  !.holds = IF pressed THEN @ \union {key} ELSE @ \ {key}]
  /\ vreader' = IF key = "control"
                THEN [vreader EXCEPT !.shortcut = pressed] ELSE vreader
  /\ keysHeld' = IF key = "control" \/ vreader.shortcut
             THEN IF pressed THEN keysHeld \union {key} ELSE keysHeld \ {key}
             ELSE keysHeld
  /\ UNCHANGED <<vnc, vwindow, wants, updates, toViewer>>

(* Reader::pointer: the buttons that differ from the mask before.          *)
PointerEvent(mask) ==
  /\ vreader.on /\ ~vncViewer.broken /\ vncViewer.sent < MaxViewerMsgs
  /\ vncViewer' = [vncViewer EXCEPT !.sent = @ + 1]
  /\ keysHeld' = (keysHeld \ (vreader.buttons \ mask))
                    \union (mask \ vreader.buttons)
  /\ vreader' = [vreader EXCEPT !.buttons = mask]
  /\ UNCHANGED <<vnc, vwindow, wants, updates, toViewer>>

(* The viewer goes, or sends what RFB does not know: the reader ends, and  *)
(* with its channel the updater.                                           *)
VncViewerLeaves ==
  /\ vreader.on
  /\ vreader' = [vreader EXCEPT !.on = FALSE]
  /\ keysHeld' = {}
  /\ UNCHANGED <<vnc, vwindow, wants, updates, toViewer, vncViewer>>

-----------------------------------------------------------------------------
(* The updater.                                                            *)

(* changed: the smallest range holding every pixel that differs.           *)
ChangedRange(before, after) ==
  LET differs == {i \in 1..Len(after) : before[i] # after[i]}
  IN IF differs = {} THEN {} ELSE Min(differs)..Max(differs)

(* The size the viewer has after this update.                              *)
ShownSize(u) ==
  IF u.sent # 0 /\ ~(u.sent # Len(u.last) /\ u.resize)
  THEN u.sent ELSE Len(u.last)

(* Updates::send: DesktopSize first for a viewer that follows, then the    *)
(* part that differs from `previous`, or all the viewer shows; black       *)
(* outside a smaller picture.  Two pictures in a row that are wider than   *)
(* the size sent are compared over all their width: a viewer that does not *)
(* follow may be given what lies beyond its framebuffer.                   *)
Resizes(u) == u.sent # 0 /\ u.sent # Len(u.last) /\ u.resize

(* An updater that keeps comparing with the picture before a resize.       *)
RectOfAnySize(u, before) ==
  IF before # NoPicture
  THEN ChangedRange(before, SubSeq(u.last, 1, Min({Len(before), Len(u.last)})))
  ELSE 1..ShownSize(u)

UpdateRect(u, before) ==
  IF before # NoPicture /\ ~Resizes(u) /\ Len(before) = Len(u.last)
  THEN ChangedRange(before, u.last)
  ELSE 1..ShownSize(u)

FramebufferUpdate(u, before) ==
  [resize |-> IF Resizes(u) THEN Len(u.last) ELSE 0,
   pixels |-> [i \in UpdateRect(u, before) |->
                 IF i <= Len(u.last) THEN u.last[i] ELSE Black]]

SendsUpdate(u, before) ==
  /\ toViewer' = Append(toViewer, FramebufferUpdate(u, before))
  /\ updates' = [u EXCEPT !.sent = ShownSize(u), !.previous = u.last,
                          !.outgrown = @ \/ Len(u.last) > ShownSize(u)]

(* Updates::run, one turn with a message: an incremental request waits for *)
(* the source's next picture (a change, or its once-a-second one).         *)
AnswerViewer ==
  /\ vnc.phase = "on" /\ ~vnc.stop /\ wants # <<>>
  /\ Head(wants).t = "update"
  /\ IF Head(wants).incremental /\ updates.previous # NoPicture
     THEN /\ ~vwindow.gone
          /\ SendsUpdate([updates EXCEPT !.last = vwindow.picture],
                   updates.previous)
     ELSE SendsUpdate(updates, NoPicture)
  /\ wants' = Tail(wants)
  /\ UNCHANGED <<vnc, vwindow, vreader, keysHeld, vncViewer>>

SetWanted ==
  /\ vnc.phase = "on" /\ ~vnc.stop /\ wants # <<>>
  /\ \/ /\ Head(wants).t = "format" /\ Head(wants).known
        /\ updates' = [updates EXCEPT !.previous = NoPicture]
     \/ /\ Head(wants).t = "resize"
        /\ updates' = [updates EXCEPT !.resize = Head(wants).on]
  /\ wants' = Tail(wants)
  /\ UNCHANGED <<vnc, vwindow, vreader, keysHeld, toViewer, vncViewer>>

(* A colour-map format, a window that is gone, or the reader's channel     *)
(* closed with nothing left in it.                                         *)
UpdaterEnds ==
  /\ vnc.phase = "on" /\ ~vnc.stop
  /\ \/ wants # <<>> /\ Head(wants).t = "format" /\ ~Head(wants).known
     \/ /\ wants # <<>> /\ Head(wants).t = "update"
        /\ Head(wants).incremental /\ updates.previous # NoPicture
        /\ vwindow.gone
     \/ wants = <<>> /\ ~vreader.on
  /\ ViewerEnds

(* The flag, seen within 500 ms: the connection is shut for the reader too.*)
SeesVncStop ==
  /\ vnc.phase = "on" /\ vnc.stop
  /\ ViewerEnds

-----------------------------------------------------------------------------
(* The viewer (external) draws an update; what a framebuffer of a new size *)
(* holds before it is drawn is not defined, here black.                    *)
ViewerDraws ==
  /\ toViewer # <<>> /\ ~vncViewer.broken
  /\ LET m == Head(toViewer)
         size == IF m.resize # 0 THEN m.resize ELSE Len(vncViewer.fb)
     IN vncViewer' = IF DOMAIN m.pixels \subseteq 1..size
          THEN [vncViewer EXCEPT !.asked = FALSE,
                  !.fb = [i \in 1..size |->
                            IF i \in DOMAIN m.pixels THEN m.pixels[i]
                            ELSE IF m.resize = 0 THEN @[i] ELSE Black]]
          ELSE [vncViewer EXCEPT !.broken = TRUE]
  /\ toViewer' = Tail(toViewer)
  /\ UNCHANGED <<vnc, vwindow, wants, updates, vreader, keysHeld>>

VncNext ==
  \/ WindowDraws \/ WindowCloses \/ VncStops
  \/ Accepts \/ AcceptorEnds \/ HandshakeFails \/ ServeViewer
  \/ SetPixelFormat \/ SetEncodings
  \/ \E b \in BOOLEAN : UpdateRequest(b)
  \/ \E k \in {"control", "c"}, b \in BOOLEAN : KeyEvent(k, b)
  \/ \E mask \in SUBSET {"left"} : mask # vreader.buttons /\ PointerEvent(mask)
  \/ VncViewerLeaves
  \/ AnswerViewer \/ SetWanted \/ UpdaterEnds \/ SeesVncStop
  \/ ViewerDraws

VncSpec == VncInit /\ [][VncNext]_vncVars

-----------------------------------------------------------------------------
(* What a viewer has drawn is the picture the updater sent last: the parts *)
(* sent since the last whole picture, over changes of size the viewer      *)
(* follows, add up to it (Updates::send; a viewer that does not follow     *)
(* sees the part of it that fits).  No viewer is sent a part it has no     *)
(* room for, with one exception, which the code makes: one that does not   *)
(* follow DesktopSize, once the window has grown beyond the size it was    *)
(* told, gets from changed() a rectangle outside its framebuffer           *)
(* (vnc/src/lib.rs:523), and is then as RFB leaves it.                     *)
ViewerShowsWhatWasSent ==
  /\ vncViewer.broken => updates.outgrown
  /\ (vnc.phase = "on" /\ toViewer = <<>> /\ updates.sent # 0
        /\ ~vncViewer.broken) =>
      \A i \in 1..Len(vncViewer.fb) :
        i <= Len(updates.last) => vncViewer.fb[i] = updates.last[i]

=============================================================================
