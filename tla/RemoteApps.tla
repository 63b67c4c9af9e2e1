------------------------------ MODULE RemoteApps ------------------------------
(***************************************************************************)
(* One RemoteApp the host runs through its own Remote Desktop: the launch  *)
(* (remoteapp_windows.rs, start), the RDP client thread that reads window  *)
(* orders and sends input (client.rs, run), the table of windows it keeps  *)
(* (remoteapp.rs, Windows), and the watch thread that puts them into the   *)
(* host's window list and ends the RemoteApp (watch).  Every RemoteApp has *)
(* its own connection, thread, table and watch; they share nothing but the *)
(* list, whose entries carry the connection's key.                         *)
(*                                                                         *)
(* A window is reduced to what its orders change and the list shows: its   *)
(* owner, its style ("tool": an untitled tool window, "caption", "plain")  *)
(* and whether it is shown with a size.  Windows itself is external: it    *)
(* opens, changes and closes windows, sending an order for each.           *)
(***************************************************************************)
EXTENDS Naturals, Sequences, FiniteSets, SequencesExt

CONSTANTS
  RemoteIds,      \* window ids of the session (u32, non-zero)
  MaxOrders,      \* bound: orders Windows sends
  MaxRemoteInput  \* bound: events clients send and views they open

VARIABLES
  rdp,      \* the launch and the RDP thread
  desk,     \* what Windows has: its windows
  wire,     \* PDUs sent by Windows and not read yet
  table,    \* remoteapp.rs Windows: windows, order, active
  shared,   \* RdpStream.windows: the listing and its number
  conn,     \* the entry of RemoteAppWindows.conns, or NoConn
  watcher,  \* the watch thread's locals
  remoteIn, \* RdpStream.input: events queued for the thread
  keysDown, \* ironrdp's Database: what Windows was told is pressed
  view      \* Latest and one RemotePictures

remoteVars == <<rdp, desk, wire, table, shared, conn, watcher, remoteIn,
                keysDown, view>>

Nobody == 0
NoConn == [on |-> FALSE, listed |-> <<>>]

RemoteWindow == [owner : RemoteIds \union {Nobody},
                 style : {"plain", "caption", "tool"}, show : BOOLEAN]

(* RemoteWindow::default: no owner, no style, not shown.                   *)
DefaultWindow == [owner |-> Nobody, style |-> "plain", show |-> FALSE]

RemoteInit ==
  /\ rdp = [phase |-> "off", stop |-> FALSE, ended |-> FALSE,
            tapped |-> <<>>, started |-> FALSE, exec |-> "none",
            orders |-> 0, events |-> 0]
  /\ desk = <<>>
  /\ wire = <<>>
  /\ table = [windows |-> <<>>, order |-> <<>>, active |-> Nobody]
  /\ shared = [number |-> 0, listed |-> <<>>]
  /\ conn = NoConn
  /\ watcher = [phase |-> "off", number |-> 0, had |-> FALSE,
                empty |-> "no"]
  /\ remoteIn = <<>>
  /\ keysDown = {}
  /\ view = [latest |-> 0, window |-> Nobody, seen |-> 0]

RdpLive == rdp.phase \in {"waiting", "held"} /\ ~rdp.ended

-----------------------------------------------------------------------------
(* The connection.                                                         *)

(* The PDUs of the connection sequence the tap rewrites, in their order:   *)
(* the rail channel's options, INFO_RAIL, and the capability sets.         *)
TapOrder == <<"channel", "info", "caps">>

(* RailTap::rewrite: each of the three is rewritten once, when it passes.  *)
Rewrites ==
  /\ rdp.phase = "connecting"
  /\ Len(rdp.tapped) < Len(TapOrder)
  /\ rdp' = [rdp EXCEPT !.tapped =
                          Append(@, TapOrder[Len(@) + 1])]
  /\ UNCHANGED <<desk, wire, table, shared, conn, watcher, remoteIn,
                 keysDown, view>>

(* start begins: client::connect.                                          *)
StartApp ==
  /\ rdp.phase = "off"
  /\ rdp' = [rdp EXCEPT !.phase = "connecting"]
  /\ UNCHANGED <<desk, wire, table, shared, conn, watcher, remoteIn,
                 keysDown, view>>

(* connect fails: no answer, the pinned certificate, or the login.         *)
ConnectFails ==
  /\ rdp.phase = "connecting"
  /\ rdp' = [rdp EXCEPT !.phase = "refused", !.ended = TRUE]
  /\ UNCHANGED <<desk, wire, table, shared, conn, watcher, remoteIn,
                 keysDown, view>>

(* connect is done: the RDP thread runs, and Windows, told that this is a  *)
(* RemoteApp client, greets on the rail channel (with a handshake, an      *)
(* extended one, or both).                                                 *)
Connected ==
  /\ rdp.phase = "connecting"
  /\ Len(rdp.tapped) = Len(TapOrder)
  /\ rdp' = [rdp EXCEPT !.phase = "waiting"]
  /\ \E n \in 1..2 : wire' = [i \in 1..n |-> [t |-> "handshake"]]
  /\ UNCHANGED <<desk, table, shared, conn, watcher, remoteIn, keysDown,
                 view>>

(* start's loop: exec_result is there, the session ended, or START_WITHIN  *)
(* passed.  A program that runs is listed under a key of its own and       *)
(* watched.                                                                *)
ExecSeen ==
  /\ rdp.phase = "waiting"
  /\ \/ /\ rdp.exec = "ok"
        /\ rdp' = [rdp EXCEPT !.phase = "held"]
        /\ conn' = [on |-> TRUE, listed |-> <<>>]
        /\ watcher' = [watcher EXCEPT !.phase = "on"]
     \/ /\ rdp.exec = "error"
        /\ rdp' = [rdp EXCEPT !.phase = "refused", !.stop = TRUE]
        /\ UNCHANGED <<conn, watcher>>
     \/ /\ rdp.exec = "none" /\ rdp.ended
        /\ rdp' = [rdp EXCEPT !.phase = "refused"]
        /\ UNCHANGED <<conn, watcher>>
  /\ UNCHANGED <<desk, wire, table, shared, remoteIn, keysDown, view>>

StartTimesOut ==
  /\ rdp.phase = "waiting" /\ rdp.exec = "none" /\ ~rdp.ended
  /\ rdp' = [rdp EXCEPT !.phase = "refused", !.stop = TRUE]
  /\ UNCHANGED <<desk, wire, table, shared, conn, watcher, remoteIn,
                 keysDown, view>>

-----------------------------------------------------------------------------
(* Windows (external): programs open, change, activate and close windows.  *)

SendsOrder(pdu) == wire' = Append(wire, pdu)

Describes(id, fields) ==
  [t |-> "window", id |-> id, fields |-> fields,
   window |-> [f \in fields |-> desk'[id][f]]]

DeskChanges(id) ==
  \/ /\ id \notin DOMAIN desk
     /\ \E w \in RemoteWindow :
          /\ w.owner # id
          /\ desk' = [j \in DOMAIN desk \union {id} |->
                        IF j = id THEN w ELSE desk[j]]
     /\ SendsOrder(Describes(id, {"owner", "style", "show"}))
  \/ /\ id \in DOMAIN desk
     /\ desk' = [desk EXCEPT ![id].show = ~@]
     /\ SendsOrder(Describes(id, {"show"}))
  \/ /\ id \in DOMAIN desk
     /\ desk' = [j \in DOMAIN desk \ {id} |-> desk[j]]
     /\ SendsOrder([t |-> "deleted", id |-> id])
  \/ /\ id \in DOMAIN desk
     /\ SendsOrder([t |-> "desktop", active |-> id])
     /\ UNCHANGED desk

DeskSteps(id) ==
  /\ RdpLive /\ rdp.exec = "ok" /\ rdp.orders < MaxOrders
  /\ DeskChanges(id)
  /\ rdp' = [rdp EXCEPT !.orders = @ + 1]
  /\ UNCHANGED <<table, shared, conn, watcher, remoteIn, keysDown, view>>

(* Windows ends the session, or the connection is lost.                    *)
SessionEnds ==
  /\ RdpLive
  /\ rdp' = [rdp EXCEPT !.ended = TRUE]
  /\ UNCHANGED <<desk, wire, table, shared, conn, watcher, remoteIn,
                 keysDown, view>>

-----------------------------------------------------------------------------
(* The RDP thread.                                                         *)

(* The members of the sequence s that are in S, in their order.            *)
Only(s, S) ==
  LET members == {i \in DOMAIN s : s[i] \in S}
      Rank(i) == Cardinality({j \in members : j <= i})
  IN [n \in 1..Cardinality(members) |-> s[CHOOSE i \in members : Rank(i) = n]]

(* A table that leaves out FIELD_SHOW.                                     *)
ChangedButShown(old, order) ==
  [f \in DOMAIN old |->
     IF f \in order.fields \ {"show"} THEN order.window[f] ELSE old[f]]

(* Windows::apply, one order into the table.                               *)
Changed(old, order) ==
  [f \in DOMAIN old |->
     IF f \in order.fields THEN order.window[f] ELSE old[f]]

Apply(k, order) ==
  CASE order.t = "desktop" -> [k EXCEPT !.active = order.active]
    [] order.t = "deleted" ->
         [k EXCEPT !.windows = [j \in DOMAIN @ \ {order.id} |-> @[j]],
                   !.order = Only(@, RemoteIds \ {order.id})]
    [] order.t = "window" ->
         LET known == order.id \in DOMAIN k.windows
             entry == IF known THEN k.windows[order.id] ELSE DefaultWindow
         IN [k EXCEPT
               !.windows = [j \in DOMAIN @ \union {order.id} |->
                              IF j = order.id THEN Changed(entry, order)
                                              ELSE @[j]],
               !.order = IF known THEN @ ELSE Append(@, order.id)]

(* Windows::listed: the shown windows in the order they appeared, a menu   *)
(* without an owner under the active window.                               *)
OwnerOf(k, id) ==
  LET w == k.windows[id]
  IN IF w.owner \in DOMAIN k.windows THEN w.owner
     ELSE IF w.style = "tool" /\ k.active # id
                              /\ k.active \in DOMAIN k.windows
          THEN k.active
          ELSE Nobody

KindOf(k, id) ==
  IF OwnerOf(k, id) = Nobody THEN "normal"
  ELSE IF k.windows[id].style = "caption" THEN "dialog" ELSE "popup"

Listed(k) ==
  LET shown == Only(k.order, {id \in DOMAIN k.windows : k.windows[id].show})
  IN [i \in DOMAIN shown |->
        [id |-> shown[i], owner |-> OwnerOf(k, shown[i]),
         kind |-> KindOf(k, shown[i])]]

(* Pictures::send: the newest picture is kept under the next number.       *)
SendsPicture == view' = [view EXCEPT !.latest = @ + 1]

(* run reads a window order: the table, then the listing when it differs,  *)
(* and a picture, for the views cut from it moved.                         *)
ReadsOrder ==
  LET now == Listed(Apply(table, Head(wire)))
  IN /\ Head(wire).t \in {"window", "deleted", "desktop"}
     /\ table' = Apply(table, Head(wire))
     /\ shared' = IF shared.listed = now THEN shared
                  ELSE [number |-> shared.number + 1, listed |-> now]
     /\ SendsPicture
     /\ wire' = Tail(wire)
     /\ UNCHANGED rdp

(* RailChannel::process: the first handshake is answered with the start    *)
(* messages, which run writes after the PDU (the status lock is never held *)
(* over a write); Windows then runs the program, or cannot.                *)
ReadsRail ==
  /\ UNCHANGED <<table, shared, view>>
  /\ \/ /\ Head(wire).t = "handshake" /\ ~rdp.started
        /\ rdp' = [rdp EXCEPT !.started = TRUE]
        /\ \E r \in {"ok", "error"} :
             wire' = Append(Tail(wire), [t |-> "exec", result |-> r])
     \/ /\ Head(wire).t = "handshake" /\ rdp.started
        /\ wire' = Tail(wire) /\ UNCHANGED rdp
     \/ /\ Head(wire).t = "exec"
        /\ rdp' = [rdp EXCEPT !.exec = Head(wire).result]
        /\ wire' = Tail(wire)

RunReads ==
  /\ rdp.phase \in {"waiting", "held", "refused"} /\ ~rdp.ended /\ ~rdp.stop
  /\ wire # <<>>
  /\ ReadsOrder \/ ReadsRail
  /\ UNCHANGED <<desk, conn, watcher, remoteIn, keysDown>>

(* operations_for and Database::apply: input for a window goes to Windows  *)
(* at that window's rectangle, and nowhere once the window is not listed.  *)
RunInput ==
  /\ rdp.phase = "held" /\ ~rdp.ended /\ ~rdp.stop
  /\ remoteIn # <<>>
  /\ LET e == Head(remoteIn)
         there == \E i \in DOMAIN shared.listed :
                     shared.listed[i].id = e.window
     IN keysDown' = IF ~there THEN keysDown
                    ELSE IF e.pressed THEN keysDown \union {e.key}
                                      ELSE keysDown \ {e.key}
  /\ remoteIn' = Tail(remoteIn)
  /\ UNCHANGED <<rdp, desk, wire, table, shared, conn, watcher, view>>

(* The stop flag is seen at the top of the loop: a graceful shutdown.      *)
RunStops ==
  /\ rdp.phase \in {"waiting", "held", "refused"} /\ rdp.stop /\ ~rdp.ended
  /\ rdp' = [rdp EXCEPT !.ended = TRUE]
  /\ UNCHANGED <<desk, wire, table, shared, conn, watcher, remoteIn,
                 keysDown, view>>

-----------------------------------------------------------------------------
(* The host's list and the views.                                          *)

(* RemoteAppWindows::find.                                                 *)
Findable(window) ==
  conn.on /\ \E i \in DOMAIN conn.listed : conn.listed[i].id = window

(* WithRemoteApps::input: to the window's session while it is listed.      *)
RemoteInput(window, pressed) ==
  /\ rdp.events < MaxRemoteInput
  /\ Findable(window)
  /\ remoteIn' = Append(remoteIn, [window |-> window, key |-> "left",
                                   pressed |-> pressed])
  /\ rdp' = [rdp EXCEPT !.events = @ + 1]
  /\ UNCHANGED <<desk, wire, table, shared, conn, watcher, keysDown, view>>

(* WithRemoteApps::pictures: a view of a listed window.                    *)
OpenView(window) ==
  /\ view.window = Nobody /\ rdp.events < MaxRemoteInput
  /\ Findable(window)
  /\ view' = [view EXCEPT !.window = window, !.seen = 0]
  /\ rdp' = [rdp EXCEPT !.events = @ + 1]
  /\ UNCHANGED <<desk, wire, table, shared, conn, watcher, remoteIn,
                 keysDown>>

(* RemotePictures::next_picture: ends with the window, or with the session *)
(* when nothing new came; otherwise the newer picture, or the latest again *)
(* after REFRESH.                                                          *)
NextRemotePicture ==
  /\ view.window # Nobody
  /\ view' = IF ~Findable(view.window) \/ (view.latest <= view.seen /\ rdp.ended)
             THEN [view EXCEPT !.window = Nobody]
             ELSE [view EXCEPT !.seen = view.latest]
  /\ UNCHANGED <<rdp, desk, wire, table, shared, conn, watcher, remoteIn,
                 keysDown>>

Emptied(had, listed) == IF had /\ listed = <<>> THEN "since" ELSE "no"

(* watch, one turn: a new listing goes into the list; the RemoteApp ends   *)
(* with its session, or once none of its windows came back in GONE_AFTER.  *)
WatchTurn ==
  /\ watcher.phase = "on"
  /\ LET fresh == shared.number # watcher.number
         had == watcher.had \/ (fresh /\ shared.listed # <<>>)
         empty == IF fresh THEN Emptied(had, shared.listed)
                           ELSE watcher.empty
         over == rdp.ended \/ empty = "over"
     IN /\ watcher' = [phase |-> IF over THEN "done" ELSE "on",
                       number |-> shared.number, had |-> had,
                       empty |-> empty]
        /\ conn' = IF over THEN NoConn
                   ELSE IF fresh THEN [conn EXCEPT !.listed = shared.listed]
                   ELSE conn
        /\ rdp' = [rdp EXCEPT !.stop = @ \/ over]
  /\ UNCHANGED <<desk, wire, table, shared, remoteIn, keysDown, view>>

(* GONE_AFTER passes on the watch's clock.                                 *)
GoneAfter ==
  /\ watcher.phase = "on" /\ watcher.empty = "since"
  /\ watcher' = [watcher EXCEPT !.empty = "over"]
  /\ UNCHANGED <<rdp, desk, wire, table, shared, conn, remoteIn, keysDown,
                 view>>

-----------------------------------------------------------------------------
RemoteNext ==
  \/ Rewrites \/ StartApp \/ ConnectFails \/ Connected
  \/ ExecSeen \/ StartTimesOut
  \/ \E id \in RemoteIds : DeskSteps(id)
  \/ SessionEnds
  \/ RunReads \/ RunInput \/ RunStops
  \/ \E id \in RemoteIds, b \in BOOLEAN : RemoteInput(id, b)
  \/ \E id \in RemoteIds : OpenView(id)
  \/ NextRemotePicture
  \/ WatchTurn \/ GoneAfter

(* The threads run (each loop wakes every 10 or 100 ms), and time passes.  *)
RemoteFairness ==
  /\ WF_remoteVars(RunReads) /\ WF_remoteVars(RunStops)
  /\ WF_remoteVars(WatchTurn) /\ WF_remoteVars(GoneAfter)

RemoteSpec == RemoteInit /\ [][RemoteNext]_remoteVars

-----------------------------------------------------------------------------
(* When every order is read and the watch has taken the newest listing,    *)
(* the host lists exactly the windows Windows shows, each once, and names  *)
(* as an owner only a window that is there (remoteapp.rs, listed: "every   *)
(* shown window with a size is its own entry ... naming its owner").       *)
ListIsWhatWindowsShows ==
  (conn.on /\ wire = <<>> /\ ~rdp.ended /\ watcher.number = shared.number) =>
    /\ IsInjective([i \in DOMAIN conn.listed |-> conn.listed[i].id])
    /\ {conn.listed[i].id : i \in DOMAIN conn.listed}
         = {id \in DOMAIN desk : desk[id].show}
    /\ \A i \in DOMAIN conn.listed :
         conn.listed[i].owner \in DOMAIN desk \union {Nobody}

-----------------------------------------------------------------------------
(***************************************************************************)
(* Which Windows user a RemoteApp launch logs in as (remoteapp_host.rs):   *)
(* the setting and this computer's status, the signed-in user's password,  *)
(* or an account the host makes, whose random password it sets in Windows  *)
(* and then keeps in one file for every account.  Each launch runs on the  *)
(* thread of the session that asked; nothing orders two of them.           *)
(*                                                                         *)
(* A password is a number, new each time.  Windows' user database, DPAPI   *)
(* and the RDP login are external.  The file is read and written whole; a  *)
(* host that dies while it writes leaves any part of the lines.            *)
(***************************************************************************)

CONSTANTS
  LaunchThreads,  \* sessions launching at the same time
  Principals,     \* who launches
  AccountNameOf,  \* host_account_name: principal -> local user's name
  MaxPasswords,   \* bound: passwords made
  MaxHostKills    \* bound: crashes of the host

ASSUME AccountNamesAssumption == DOMAIN AccountNameOf = Principals

Names == {AccountNameOf[p] : p \in Principals}
NoPassword == 0
AccountPasswords == 0..MaxPasswords

VARIABLES
  setting,   \* availability and login
  status,    \* Status: can Auto serve, is Remote Desktop on
  users,     \* Windows' local users: name -> password, NoPassword if none
  kept,      \* remoteapp-accounts: name -> sealed password
  launch,    \* each thread's launch
  made,      \* passwords made so far
  hostKills,
  unkept     \* history: launches overlapped, or one set a password it did
             \* not keep

launchVars ==
  <<setting, status, users, kept, launch, made, hostKills, unkept>>

NoAppLaunch == [phase |-> "idle", name |-> "none", read |-> <<>>,
             password |-> NoPassword, typed |-> FALSE, result |-> "none"]

LaunchesInit ==
  /\ setting = [availability |-> "off", login |-> "signed_in"]
  /\ status = [on |-> TRUE, auto |-> TRUE]
  /\ users = [n \in Names |-> NoPassword]
  /\ kept = [n \in Names |-> NoPassword]
  /\ launch = [t \in LaunchThreads |-> NoAppLaunch]
  /\ made = 0
  /\ hostKills = 0
  /\ unkept = FALSE

LaunchAt(t, phase) == launch[t].phase = phase

Finish(t, result) ==
  launch' = [launch EXCEPT ![t] = [NoAppLaunch EXCEPT !.result = result]]

-----------------------------------------------------------------------------
(* set: the owner changes the setting.                                     *)
Set ==
  /\ \E a \in {"off", "auto", "on"}, l \in {"signed_in", "host_account"} :
       setting' = [availability |-> a, login |-> l]
  /\ UNCHANGED <<status, users, kept, launch, made, hostKills, unkept>>

(* system::status: Remote Desktop goes on or off, sessions come and go.    *)
StatusChanges ==
  /\ \E on, auto \in BOOLEAN :
       /\ auto => on
       /\ status' = [on |-> on, auto |-> auto]
  /\ UNCHANGED <<setting, users, kept, launch, made, hostKills, unkept>>

(* launch: off (or Auto where it does not serve) is not a RemoteApp, and   *)
(* the program runs on the host's screen.                                  *)
ServesLaunch ==
          \/ setting.availability = "on"
          \/ setting.availability = "auto" /\ status.auto

NotServed(t) ==
  /\ LaunchAt(t, "idle") /\ ~ServesLaunch
  /\ Finish(t, "screen")
  /\ UNCHANGED <<setting, status, users, kept, made, hostKills, unkept>>

(* run: no port or no certificate refuses; the signed-in user needs the    *)
(* password the client sent.                                               *)
Runs(t) ==
  /\ LaunchAt(t, "idle") /\ ServesLaunch
  /\ \/ ~status.on /\ Finish(t, "refused")
     \/ /\ status.on /\ setting.login = "signed_in"
        /\ \/ Finish(t, "password_needed")
           \/ launch' = [launch EXCEPT ![t] =
                [NoAppLaunch EXCEPT !.phase = "login", !.typed = TRUE]]
  /\ UNCHANGED <<setting, status, users, kept, made, hostKills, unkept>>

(* host_account: it reads the file, and whatever other launch did so       *)
(* before it may write what it read later.                                 *)
AtTheFile(t) == launch[t].phase \in {"look", "make", "keep"}

ReadsKept(t) ==
  /\ LaunchAt(t, "idle") /\ ServesLaunch
  /\ status.on /\ setting.login = "host_account"
  /\ \E p \in Principals :
       launch' = [launch EXCEPT ![t] =
         [NoAppLaunch EXCEPT !.phase = "look", !.name = AccountNameOf[p],
                          !.read = kept]]
  /\ unkept' = (unkept \/ \E o \in LaunchThreads : AtTheFile(o))
  /\ UNCHANGED <<setting, status, users, kept, made, hostKills>>

(* A kept password of a user that exists is taken as it is.  *)
LooksUp(t) ==
  /\ LaunchAt(t, "look")
  /\ LET l == launch[t]
     IN launch' = [launch EXCEPT ![t] =
          IF l.read[l.name] # NoPassword /\ users[l.name] # NoPassword
          THEN [l EXCEPT !.phase = "login", !.password = l.read[l.name]]
          ELSE [l EXCEPT !.phase = "make"]]
  /\ UNCHANGED <<setting, status, users, kept, made, hostKills, unkept>>

(* new_password and make_user: the user is added, or its password reset,   *)
(* and let into the group.  Either needs administrator rights; a user that *)
(* is not let in has the new password all the same.                        *)
MakesUser(t) ==
  /\ LaunchAt(t, "make")
  /\ \/ /\ made < MaxPasswords
        /\ made' = made + 1
        /\ users' = [users EXCEPT ![launch[t].name] = made + 1]
        /\ \/ /\ launch' = [launch EXCEPT ![t].phase = "keep",
                                          ![t].password = made + 1]
              /\ UNCHANGED unkept
           \/ Finish(t, "refused") /\ unkept' = TRUE
     \/ Finish(t, "refused") /\ UNCHANGED <<users, made, unkept>>
  /\ UNCHANGED <<setting, status, kept, hostKills>>

(* The lines this launch read, with its own added.                         *)
KeptWith(t) ==
  [launch[t].read EXCEPT ![launch[t].name] = launch[t].password]

(* A file whose writing was cut short: read_kept leaves out a line that is *)
(* not whole.                                                              *)
CutShort(t) ==
  \E lines \in SUBSET Names :
    kept' = [n \in Names |-> IF n \in lines THEN KeptWith(t)[n] ELSE NoPassword]

(* protect and write_kept: the whole file, over what it is by now.         *)
Keeps(t) ==
  /\ LaunchAt(t, "keep")
  /\ \/ /\ kept' = KeptWith(t)
        /\ launch' = [launch EXCEPT ![t].phase = "login"]
        /\ UNCHANGED unkept
     \/ /\ Finish(t, "refused") /\ unkept' = TRUE
        /\ UNCHANGED kept \/ CutShort(t)
  /\ UNCHANGED <<setting, status, users, made, hostKills>>

(* RemoteAppWindows::start: the login, then the program (RemoteApps).  A   *)
(* login that fails asks again only for a password that was typed.         *)
LogsIn(t) ==
  /\ LaunchAt(t, "login")
  /\ LET l == launch[t]
     IN \/ /\ IF l.typed THEN TRUE ELSE users[l.name] = l.password
           /\ Finish(t, "running")
        \/ Finish(t, IF l.typed THEN "password_needed" ELSE "refused")
  /\ UNCHANGED <<setting, status, users, kept, made, hostKills, unkept>>

(* Somebody removes the local user (an administrator).                     *)
UserRemoved(n) ==
  /\ users[n] # NoPassword
  /\ users' = [users EXCEPT ![n] = NoPassword]
  /\ UNCHANGED <<setting, status, kept, launch, made, hostKills, unkept>>

(* The host dies: the launches are gone, and a file being written keeps    *)
(* some of its lines.                                                      *)
HostKilled ==
  /\ hostKills < MaxHostKills
  /\ hostKills' = hostKills + 1
  /\ launch' = [t \in LaunchThreads |-> NoAppLaunch]
  /\ \/ /\ unkept' = (unkept \/ \E t \in LaunchThreads : LaunchAt(t, "keep"))
        /\ UNCHANGED kept
     \/ /\ \E t \in LaunchThreads : LaunchAt(t, "keep") /\ CutShort(t)
        /\ UNCHANGED unkept
  /\ UNCHANGED <<setting, status, users, made>>

LaunchesNext ==
  \/ Set \/ StatusChanges \/ HostKilled
  \/ \E t \in LaunchThreads :
       NotServed(t) \/ Runs(t) \/ ReadsKept(t) \/ LooksUp(t) \/ MakesUser(t) \/ Keeps(t)
         \/ LogsIn(t)
  \/ \E n \in Names : UserRemoved(n)

LaunchesSpec == LaunchesInit /\ [][LaunchesNext]_launchVars

-----------------------------------------------------------------------------
(* While launches come one at a time and keep what they set, a host-made   *)
(* account's kept password is the one Windows has, whatever users are      *)
(* removed and wherever the host dies, or some launch is about to keep it: *)
(* host_account takes a kept password without trying it, so another would  *)
(* be refused by every launch to come.                                     *)
KeptPasswordLogsIn ==
  ~unkept =>
    \A n \in Names :
      (/\ kept[n] # NoPassword /\ users[n] # NoPassword
       /\ \A t \in LaunchThreads : ~(LaunchAt(t, "keep") /\ launch[t].name = n))
        => kept[n] = users[n]

(* What the host keeps of Windows' state (remoteapp.rs, remoteapp_host.rs):  *)
(* the windows listed are those shown, and the kept password logs in.        *)
WindowsStateIsKept == ListIsWhatWindowsShows /\ KeptPasswordLogsIn
=============================================================================
