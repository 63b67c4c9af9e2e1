------------------------------- MODULE Terminal -------------------------------
(***************************************************************************)
(* A terminal a client shows (terminal/src/screen.rs) on a channel of an   *)
(* SSH connection (terminal/src/ssh.rs, drive): the task that moves the    *)
(* user's commands to the server and its output back, the reader thread    *)
(* that feeds the emulator, and the view that waits for a change and draws *)
(* a snapshot (app/src/terminal.rs, terminal_ui).  The view and the reader *)
(* share the emulator and a version number, each behind its own lock.      *)
(*                                                                         *)
(* Output is numbered; the screen is the numbers it has taken, which is    *)
(* what an emulator's state depends on.  The emulator (vt100), the shell   *)
(* and the SSH server are external.                                        *)
(***************************************************************************)
EXTENDS Naturals, Sequences, FiniteSets

CONSTANTS
  MaxOutput,  \* bound: pieces of output the shell writes
  MaxTyped    \* bound: keys, pastes and sizes the user sends

VARIABLES
  shell,    \* the server's side: output written, typed input, its end
  sshNet,      \* messages of the SSH channel to the client, not read yet
  drive,    \* the drive task: its exit code, whether it is closing
  commands, \* Channel.commands
  events,   \* Channel.events
  screenShown,   \* the emulator: output taken, replies to send, the size, and
            \* whether a change of the size is still to be announced
  reader,   \* the reader thread's step
  version, endedWith,
  drawn     \* the view: the version it waits past and what it drew

termVars == <<shell, sshNet, drive, commands, events, screenShown, reader, version,
              endedWith, drawn>>

NoExit == "none"

Sizes == {1, 2}

TermInit ==
  /\ shell = [written |-> 0, got |-> 0, sent |-> 0, phase |-> "off"]
  /\ sshNet = <<>>
  /\ drive = [phase |-> "on", code |-> NoExit, closing |-> FALSE]
  /\ commands = <<>>
  /\ events = <<>>
  /\ screenShown = [taken |-> 0, replies |-> 0, size |-> 1, resized |-> FALSE]
  /\ reader = "waiting"
  /\ version = 1
  /\ endedWith = NoExit
  /\ drawn = [phase |-> "unopened", seen |-> 0, taken |-> 0, ended |-> NoExit,
              next |-> 0, size |-> 0]

-----------------------------------------------------------------------------
(* SshConnection::open: a channel, its terminal and its shell, each asked  *)
(* for and granted; then the drive task and the terminal's reader.  A      *)
(* request that is refused leaves no terminal, and the user may ask again. *)
OpenShell ==
  /\ drawn.phase = "unopened"
  /\ shell' = [shell EXCEPT !.phase = "on"]
  /\ drawn' = [drawn EXCEPT !.phase = "waiting"]
  /\ UNCHANGED <<sshNet, drive, commands, events, screenShown, reader, version,
                 endedWith>>

(* The shell (external) writes, exits, and its server closes the channel.  *)
ShellWrites ==
  /\ shell.phase = "on" /\ shell.written < MaxOutput
  /\ shell' = [shell EXCEPT !.written = @ + 1]
  /\ sshNet' = Append(sshNet, [t |-> "data", n |-> shell.written + 1])
  /\ UNCHANGED <<drive, commands, events, screenShown, reader, version, endedWith,
                 drawn>>

(* It exits with a code, or is killed without one; a channel the client    *)
(* closed, or a connection lost, ends alike.                               *)
ShellEnds ==
  /\ shell.phase = "on"
  /\ shell' = [shell EXCEPT !.phase = "over"]
  /\ \E codes \in {<<>>, <<[t |-> "exit"]>>} :
       sshNet' = sshNet \o codes \o <<[t |-> "close"]>>
  /\ UNCHANGED <<drive, commands, events, screenShown, reader, version, endedWith,
                 drawn>>

Shown == drawn.phase \notin {"unopened", "closed"}

UserMaySend == Shown /\ shell.sent < MaxTyped

(* The user types: send, send_text, send_key, send_control.                *)
UserSends ==
  /\ UserMaySend
  /\ shell' = [shell EXCEPT !.sent = @ + 1]
  /\ commands' = Append(commands, "data")
  /\ UNCHANGED <<sshNet, drive, events, screenShown, reader, version, endedWith, drawn>>

(* paste: between brackets when the program asked for them.                *)
UserPastes ==
  /\ UserMaySend
  /\ shell' = [shell EXCEPT !.sent = @ + 1]
  /\ \E bracketed \in BOOLEAN :
       commands' = commands \o (IF bracketed THEN <<"data", "data", "data">>
                                ELSE <<"data">>)
  /\ UNCHANGED <<sshNet, drive, events, screenShown, reader, version, endedWith, drawn>>

(* resize: the emulator under its lock and a command to the server, then   *)
(* the version; scroll_to is the same without the command.                 *)
UserResizes ==
  /\ Shown /\ ~screenShown.resized
  /\ \E size \in Sizes :
       /\ size # screenShown.size
       /\ screenShown' = [screenShown EXCEPT !.size = size, !.resized = TRUE]
  /\ shell.sent < MaxTyped
  /\ shell' = [shell EXCEPT !.sent = @ + 1]
  /\ commands' = Append(commands, "resize")
  /\ UNCHANGED <<sshNet, drive, events, reader, version, endedWith, drawn>>

ResizeBumps ==
  /\ screenShown.resized
  /\ screenShown' = [screenShown EXCEPT !.resized = FALSE]
  /\ version' = version + 1
  /\ UNCHANGED <<shell, sshNet, drive, commands, events, reader, endedWith, drawn>>

(* Terminal::drop (Terminals::close): the reader still holds the channel,  *)
(* so the close is sent, not left to the channel's own drop.               *)
UserCloses ==
  /\ Shown
  /\ drawn' = [drawn EXCEPT !.phase = "closed"]
  /\ commands' = Append(commands, "close")
  /\ UNCHANGED <<shell, sshNet, drive, events, screenShown, reader, version, endedWith>>

-----------------------------------------------------------------------------
(* drive: one turn of the select; commands are not taken once closing.     *)
DriveEnds ==
  /\ drive' = [drive EXCEPT !.phase = "over"]
  /\ events' = events \o <<[t |-> "exited", code |-> drive.code],
                           [t |-> "closed"]>>

DriveCommand ==
  /\ drive.phase = "on" /\ ~drive.closing /\ commands # <<>>
  /\ commands' = Tail(commands)
  /\ \/ /\ Head(commands) = "data" /\ shell.phase = "on"
        /\ shell' = [shell EXCEPT !.got = @ + 1]
        /\ UNCHANGED <<drive, events>>
     \/ /\ Head(commands) = "data" /\ shell.phase # "on"
        /\ DriveEnds
        /\ UNCHANGED shell
     \/ /\ Head(commands) = "resize"
        /\ UNCHANGED <<shell, drive, events>>
     \/ /\ Head(commands) = "close"
        /\ drive' = [drive EXCEPT !.closing = TRUE]
        /\ UNCHANGED <<shell, events>>
  /\ UNCHANGED <<sshNet, screenShown, reader, version, endedWith, drawn>>

DriveMessage ==
  /\ drive.phase = "on" /\ sshNet # <<>>
  /\ sshNet' = Tail(sshNet)
  /\ CASE Head(sshNet).t = "data" ->
            /\ events' = Append(events, Head(sshNet))
            /\ UNCHANGED drive
       [] Head(sshNet).t = "exit" ->
            /\ drive' = [drive EXCEPT !.code = "code"]
            /\ UNCHANGED events
       [] Head(sshNet).t = "close" -> DriveEnds
  /\ UNCHANGED <<shell, commands, screenShown, reader, version, endedWith, drawn>>

-----------------------------------------------------------------------------
(* The reader thread: an event into the emulator or the end, its replies   *)
(* to the shell, then the version and a wake of the waiting view.          *)
ReaderTakes ==
  /\ reader = "waiting" /\ events # <<>>
  /\ events' = Tail(events)
  /\ CASE Head(events).t = "data" ->
            /\ \E replies \in 0..1 :
                 screenShown' = [screenShown EXCEPT !.taken = Head(events).n,
                                          !.replies = replies]
            /\ reader' = "replying" /\ UNCHANGED endedWith
       [] Head(events).t = "exited" ->
            /\ endedWith' = IF endedWith = NoExit THEN <<Head(events).code>> ELSE endedWith
            /\ reader' = "bumping" /\ UNCHANGED screenShown
       [] Head(events).t = "closed" ->
            /\ endedWith' = IF endedWith = NoExit THEN <<NoExit>> ELSE endedWith
            /\ reader' = "last" /\ UNCHANGED screenShown
  /\ UNCHANGED <<shell, sshNet, drive, commands, version, drawn>>

ReaderReplies ==
  /\ reader = "replying"
  /\ commands' = IF screenShown.replies = 0 THEN commands
                 ELSE Append(commands, "data")
  /\ screenShown' = [screenShown EXCEPT !.replies = 0]
  /\ reader' = "bumping"
  /\ UNCHANGED <<shell, sshNet, drive, events, version, endedWith, drawn>>

ReaderBumps ==
  /\ reader \in {"bumping", "last"}
  /\ version' = version + 1
  /\ reader' = IF reader = "last" THEN "over" ELSE "waiting"
  /\ UNCHANGED <<shell, sshNet, drive, commands, events, screenShown, endedWith, drawn>>

-----------------------------------------------------------------------------
(* The view: wait_change returns once the version is not the one drawn.    *)
WaitChange ==
  /\ drawn.phase = "waiting" /\ version # drawn.seen
  /\ drawn' = [drawn EXCEPT !.phase = "changed"]
  /\ UNCHANGED <<shell, sshNet, drive, commands, events, screenShown, reader,
                 version, endedWith>>

(* snapshot: the version, then the emulator, each under its own lock; the  *)
(* end is asked after.                                                     *)
SnapshotVersion ==
  /\ drawn.phase = "changed"
  /\ drawn' = [drawn EXCEPT !.phase = "drawing", !.next = version]
  /\ UNCHANGED <<shell, sshNet, drive, commands, events, screenShown, reader,
                 version, endedWith>>

(* A snapshot that takes the version last.                                 *)
LateVersion == version

VersionTaken == drawn.next

Snapshot ==
  /\ drawn.phase = "drawing"
  /\ drawn' = [drawn EXCEPT !.phase = "drawn", !.taken = screenShown.taken,
                            !.size = screenShown.size]
  /\ UNCHANGED <<shell, sshNet, drive, commands, events, screenShown, reader,
                 version, endedWith>>

ShowsEnd ==
  /\ drawn.phase = "drawn"
  /\ drawn' = [drawn EXCEPT !.phase = "waiting", !.ended = endedWith,
                            !.seen = VersionTaken]
  /\ UNCHANGED <<shell, sshNet, drive, commands, events, screenShown, reader,
                 version, endedWith>>

TermNext ==
  \/ OpenShell \/ ShellWrites \/ ShellEnds
  \/ UserSends \/ UserPastes \/ UserResizes \/ ResizeBumps \/ UserCloses
  \/ DriveCommand \/ DriveMessage
  \/ ReaderTakes \/ ReaderReplies \/ ReaderBumps
  \/ WaitChange \/ SnapshotVersion \/ Snapshot \/ ShowsEnd

TermSpec == TermInit /\ [][TermNext]_termVars

-----------------------------------------------------------------------------
(* A view that has nothing to wait for shows everything: when the version  *)
(* is the one it drew and neither the reader nor a resize is about to tell  *)
(* it more, its picture has all the output the emulator took, the size it  *)
(* has and the shell's end.                                                *)
NothingIsMissed ==
  (drawn.phase = "waiting" /\ drawn.seen = version
     /\ reader \in {"waiting", "over"} /\ ~screenShown.resized) =>
    /\ drawn.taken = screenShown.taken
    /\ drawn.size = screenShown.size
    /\ drawn.ended = endedWith

-----------------------------------------------------------------------------
(***************************************************************************)
(* Logins to SSH servers from a client (terminal/src/ssh.rs, connect) and  *)
(* the pinned host keys they share (terminal/src/hostkeys.rs), as the app  *)
(* drives them (app/src/terminal.rs, open_ssh): each login runs on a       *)
(* thread of its own, looks the presented key up, decides by its policy    *)
(* and pins what it trusts.  The look-up and the pin each hold the store's *)
(* lock; the decision between them, which may ask the user, holds nothing. *)
(* One server is enough: pins of different servers do not touch.           *)
(***************************************************************************)

CONSTANTS
  Logins,      \* login threads
  HostKeys,    \* keys a server presents (its own, after a change another)
  MaxLogins,   \* bound: logins begun
  MaxForgets   \* bound: pins the user removes

NoKey == "no key"

VARIABLES
  pin,      \* HostKeyStore.pins for the server, NoKey when unknown
  pinFile,  \* the file it is kept in (written aside and renamed)
  login,    \* each login thread
  progress, \* the app's SshProgress: what it offers to trust
  pinning   \* history: [logins, forgets]

loginVars == <<pin, pinFile, login, progress, pinning>>

Policies == {"first_use", "ask", "pinned"} \union HostKeys

NoLogin == [phase |-> "idle", policy |-> "pinned", presented |-> NoKey]

LoginsInit ==
  /\ pin = NoKey
  /\ pinFile = NoKey
  /\ login = [l \in Logins |-> NoLogin]
  /\ progress = NoKey
  /\ pinning = [logins |-> 0, forgets |-> 0]

-----------------------------------------------------------------------------
(* open_ssh begins: the app's own policy is Pinned, or the fingerprint the *)
(* user has just agreed to; other users of the library give the others.    *)
SshConnects(l) ==
  /\ login[l].phase = "idle" /\ pinning.logins < MaxLogins
  /\ \E policy \in Policies :
       /\ policy \in HostKeys => policy = progress
       /\ login' = [login EXCEPT ![l] =
                      [NoLogin EXCEPT !.phase = "connecting",
                                      !.policy = policy]]
  /\ progress' = NoKey
  /\ pinning' = [pinning EXCEPT !.logins = @ + 1]
  /\ UNCHANGED <<pin, pinFile>>

Fails(l) == login' = [login EXCEPT ![l] = NoLogin]

(* connect: no answer within CONNECT_TIMEOUT, or a certificate instead of  *)
(* a plain key.                                                            *)
ConnectError(l) ==
  /\ login[l].phase = "connecting"
  /\ Fails(l)
  /\ UNCHANGED <<pin, pinFile, progress, pinning>>

(* check_server_key: the store's answer for the key presented.             *)
CheckHostKey(l) ==
  /\ login[l].phase = "connecting"
  /\ \E key \in HostKeys :
       IF pin = NoKey
       THEN login' = [login EXCEPT ![l].phase = "unknown",
                                   ![l].presented = key]
       ELSE IF pin = key
       THEN login' = [login EXCEPT ![l].phase = "login",
                                   ![l].presented = key]
       ELSE Fails(l)
  /\ UNCHANGED <<pin, pinFile, progress, pinning>>

(* An unknown server: trusted by the policy and recorded, or refused; the  *)
(* app then offers the fingerprint to the user.  A pin that cannot be      *)
(* written to the file is kept in memory.                                  *)
Trusts(l) ==
  LET policy == login[l].policy
  IN policy \in {"first_use", "ask", login[l].presented}

Pin(l) ==
  /\ login[l].phase = "unknown" /\ Trusts(l)
  /\ pin' = login[l].presented
  /\ \/ pinFile' = login[l].presented
     \/ UNCHANGED pinFile
  /\ login' = [login EXCEPT ![l].phase = "login"]
  /\ UNCHANGED <<progress, pinning>>

Refuse(l) ==
  /\ login[l].phase = "unknown"
  /\ ~Trusts(l) \/ login[l].policy = "ask"
  /\ Fails(l)
  /\ progress' = login[l].presented
  /\ UNCHANGED <<pin, pinFile, pinning>>

(* authenticate: refused by the server, or a connection whose terminal the *)
(* app opens and adds to its list.                                         *)
Authenticate(l) ==
  /\ login[l].phase = "login"
  /\ \/ Fails(l)
     \/ login' = [login EXCEPT ![l].phase = "open"]
  /\ UNCHANGED <<pin, pinFile, progress, pinning>>

(* Terminals::close, or the server ends the connection.                    *)
CloseLogin(l) ==
  /\ login[l].phase = "open"
  /\ Fails(l)
  /\ UNCHANGED <<pin, pinFile, progress, pinning>>

(* forget: the user removes the pin.                                       *)
Forget ==
  /\ pinning.forgets < MaxForgets /\ pin # NoKey
  /\ pin' = NoKey /\ pinFile' = NoKey
  /\ pinning' = [pinning EXCEPT !.forgets = @ + 1]
  /\ UNCHANGED <<login, progress>>

(* The program ends and is started again: open reads the file.             *)
Restart ==
  /\ \A l \in Logins : login[l].phase = "idle"
  /\ pin # pinFile
  /\ pin' = pinFile
  /\ progress' = NoKey
  /\ UNCHANGED <<pinFile, login, pinning>>

LoginsNext ==
  \/ \E l \in Logins : \/ SshConnects(l) \/ ConnectError(l) \/ CheckHostKey(l)
                       \/ Pin(l) \/ Refuse(l) \/ Authenticate(l)
                       \/ CloseLogin(l)
  \/ Forget \/ Restart

LoginsSpec == LoginsInit /\ [][LoginsNext]_loginVars

-----------------------------------------------------------------------------

=============================================================================
