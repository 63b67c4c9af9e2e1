------------------------------ MODULE SecureScreen ------------------------------
(* The secure-screen helper of a Windows host: the broker that runs as       *)
(* SYSTEM in the console session and shows and controls the Winlogon desktop *)
(* for one account, the scheduled task that starts it, the grant in the      *)
(* registry it reads before every operation, and the clients (the host       *)
(* processes of a user) that talk to it over one named pipe.                 *)
(*                                                                           *)
(* The pipe has one instance, so there is one connection at a time.  A       *)
(* session of Windows is named after the account signed in to it, NoUser for *)
(* the sign-in screen.  Pictures and keys are the operation they belong to.  *)
EXTENDS Naturals

CONSTANTS
    Brokers,          \* processes of the helper that may exist at one time
    ScreenClients,    \* processes that hold a Client of the helper
    Sids,             \* accounts
    SidOf,            \* the account a client runs as
    MaxAdmin,         \* bound: install, enable, disable and uninstall
    MaxConsole,       \* bound: switches of the console and of its desktop
    MaxExits          \* bound: clients that exit

VARIABLES
    machine,   \* helper installed, task registered, grant, and the lifecycle command under way
    console,   \* whose session is on the console, and which desktop has the input
    broker,    \* the helper's processes
    pipe,      \* the connection: its client, the request and the answer in it
    asking,    \* per client: its handle, the operation it asks for, how often it tried
    screen,    \* per client: secure desktop listed, stream running
    screenLeft \* what is left of the bounds

screenVars == <<machine, console, broker, pipe, asking, screen, screenLeft>>

NoUser == "nobody"
NoClient == "no client"
Gone == "gone"
ASSUME ScreenAssumption == NoClient \notin ScreenClients /\ Gone \notin ScreenClients
NoOp == "none"
Ops == {"state", "capture", "input"}

NoBroker == [phase |-> "none", sid |-> NoUser, of |-> NoUser, op |-> NoOp]
Unconnected == [client |-> NoClient, request |-> NoOp, answer |-> NoOp]
NotAsking == [handle |-> FALSE, phase |-> "idle", op |-> NoOp, attempt |-> 0]

ScreenInit ==
    /\ \E grant \in Sids \cup {NoUser} :
          machine = [installed |-> TRUE, task |-> grant # NoUser, grant |-> grant,
                     doing |-> NoOp]
    /\ console \in [of : Sids \cup {NoUser}, desktop : {"Default", "Winlogon"}]
    /\ broker = [b \in Brokers |-> NoBroker]
    /\ pipe = Unconnected
    /\ asking = [c \in ScreenClients |-> NotAsking]
    /\ screen = [c \in ScreenClients |-> [listed |-> FALSE, stream |-> FALSE]]
    /\ screenLeft = [admin |-> MaxAdmin, console |-> MaxConsole, exits |-> MaxExits]

(* --- the lifecycle, run elevated ------------------------------------------------ *)

Administers(command) ==
    /\ machine.doing = NoOp /\ screenLeft.admin > 0
    /\ screenLeft' = [screenLeft EXCEPT !.admin = @ - 1]
    /\ UNCHANGED <<console, broker, pipe, asking, screen>>

Install ==
    /\ Administers("install")
    /\ machine' = [machine EXCEPT !.installed = TRUE]

(* enable writes the grant, then registers the task.                         *)
Enable(sid) ==
    /\ Administers("enable") /\ machine.installed
    /\ machine' = [machine EXCEPT !.grant = sid, !.doing = "registers"]

(* Task Scheduler takes the task, and lets go of it, or does not.            *)
RegisterTask == BOOLEAN
UnregisterTask == BOOLEAN

Registers ==
    /\ machine.doing = "registers"
    /\ \E registered \in RegisterTask :
          machine' = [machine EXCEPT !.doing = NoOp,
                                     !.task = @ \/ registered,
                                     !.grant = IF registered THEN @ ELSE NoUser]
    /\ UNCHANGED <<console, broker, pipe, asking, screen, screenLeft>>

(* disable removes the grant, then the task; uninstall goes on with the      *)
(* binary, which Windows does not delete while it runs.                      *)
Disable(goesOn) ==
    /\ Administers("disable")
    /\ machine' = [machine EXCEPT !.grant = NoUser,
                                  !.doing = IF goesOn THEN "uninstalls" ELSE "unregisters"]

Unregisters ==
    /\ machine.doing \in {"unregisters", "uninstalls"}
    /\ \E gone \in UnregisterTask :
          machine' = [machine EXCEPT
                        !.task = @ /\ ~gone,
                        !.doing = IF gone /\ @ = "uninstalls" THEN "removes" ELSE NoOp]
    /\ UNCHANGED <<console, broker, pipe, asking, screen, screenLeft>>

Removes ==
    /\ machine.doing = "removes"
    /\ machine' = [machine EXCEPT !.doing = NoOp,
                                  !.installed = @ /\ \E b \in Brokers : broker[b] # NoBroker]
    /\ UNCHANGED <<console, broker, pipe, asking, screen, screenLeft>>

(* --- the console ------------------------------------------------------------------ *)

(* The console goes to a session, or a desktop gets or gives up the input.   *)
(* A session that gets the console and one that is unlocked start the task,  *)
(* whose process in session 0 starts one in the console's session.           *)
Starting(session) == [phase |-> "starting", sid |-> NoUser, of |-> session, op |-> NoOp]

Triggered(session) ==
    IF machine.task /\ machine.installed /\ \E b \in Brokers : broker[b] = NoBroker
    THEN \E b \in Brokers : broker[b] = NoBroker
                            /\ broker' = [broker EXCEPT ![b] = Starting(session)]
    ELSE UNCHANGED broker

ConsoleChanges(of, desktop) ==
    /\ screenLeft.console > 0 /\ console # [of |-> of, desktop |-> desktop]
    /\ console' = [of |-> of, desktop |-> desktop]
    /\ screenLeft' = [screenLeft EXCEPT !.console = @ - 1]
    /\ IF of # console.of \/ desktop = "Default" THEN Triggered(of) ELSE UNCHANGED broker
    /\ UNCHANGED <<machine, pipe, asking, screen>>

(* --- the broker ---------------------------------------------------------------------- *)

Serves(b, phases) == broker[b].phase \in phases

(* The grant as it is read: a part of one is none.                           *)
Granted == machine.grant

(* The console is the granting account's or nobody's, and this process is in *)
(* its session.                                                              *)
ConsoleIsOurs(b, sid) == broker[b].of = console.of /\ console.of \in {NoUser, sid}

MayServe(b) == Granted = broker[b].sid /\ ConsoleIsOurs(b, broker[b].sid)

(* The process ends, and its pipe with it.                                   *)
Ends(b) ==
    /\ broker' = [broker EXCEPT ![b] = NoBroker]
    /\ pipe' = IF Serves(b, {"starting"}) THEN pipe ELSE Unconnected

KeepsTheAnswer(b) ==
    /\ broker' = [broker EXCEPT ![b].phase = "listening", ![b].op = NoOp]
    /\ pipe' = [Unconnected EXCEPT !.answer = pipe.answer]

(* The connection is given up; what the client did not read of it is lost.   *)
Disconnects(b) ==
    /\ broker' = [broker EXCEPT ![b].phase = "listening", ![b].op = NoOp]
    /\ pipe' = Unconnected

PipeTaken == \E other \in Brokers : ~Serves(other, {"none", "starting"})

(* run: without a grant, for another account, or with the pipe taken by a    *)
(* process that is still there, it stops.  Outside the console's session it  *)
(* starts another one inside.                                                *)
BrokerStarts(b) ==
    /\ Serves(b, {"starting"})
    /\ IF Granted = NoUser THEN Ends(b)
       ELSE IF broker[b].of # console.of
       THEN /\ broker' = [broker EXCEPT ![b] = Starting(console.of)]
            /\ UNCHANGED pipe
       ELSE IF ~ConsoleIsOurs(b, Granted) \/ PipeTaken
       THEN Ends(b)
       ELSE /\ broker' = [broker EXCEPT ![b].phase = "listening", ![b].sid = Granted]
            /\ UNCHANGED pipe
    /\ UNCHANGED <<machine, console, asking, screen, screenLeft>>

(* Waiting for a client and waiting for its next request, it looks at the    *)
(* grant and at the console again and again.                                 *)
Polls(b) ==
    /\ Serves(b, {"listening", "serving"}) /\ ~MayServe(b)
    /\ Serves(b, {"serving"}) => pipe.client # Gone /\ pipe.request = NoOp
    /\ Ends(b)
    /\ UNCHANGED <<machine, console, asking, screen, screenLeft>>

Arrived == pipe.client # NoClient
Authorized(c) == SidOf[c] = Granted /\ console.of = SidOf[c]

(* A client is served when it runs as the granting account, in the console's *)
(* session, from an installed program.  One that went before it was accepted *)
(* is an error of ConnectNamedPipe.                                          *)
Accepts(b) ==
    /\ Serves(b, {"listening"}) /\ Arrived /\ MayServe(b)
    /\ IF pipe.client = Gone THEN Ends(b)
       ELSE IF Authorized(pipe.client)
       THEN /\ broker' = [broker EXCEPT ![b].phase = "serving"]
            /\ UNCHANGED pipe
       ELSE Disconnects(b)
    /\ UNCHANGED <<machine, console, asking, screen, screenLeft>>

(* A client that went, or asked for nothing in 30 seconds, is let go.        *)
LetsGo(b) ==
    /\ Serves(b, {"serving"}) /\ pipe.request = NoOp
    /\ Disconnects(b)
    /\ UNCHANGED <<machine, console, asking, screen, screenLeft>>

(* A request is read, then the grant and the console are read again.         *)
ReadsRequest(b) ==
    /\ Serves(b, {"serving"}) /\ pipe.request # NoOp
    /\ IF MayServe(b)
       THEN /\ broker' = [broker EXCEPT ![b].phase = "running", ![b].op = pipe.request]
            /\ pipe' = [pipe EXCEPT !.request = NoOp]
       ELSE Ends(b)
    /\ UNCHANGED <<machine, console, asking, screen, screenLeft>>

(* Desktop Duplication and SendInput can fail.                               *)
CaptureAnswers == {"capture", "refused"}
InputAnswers == {"input", "refused"}

(* Only the Winlogon desktop is shown and controlled.                        *)
AnswersTo(op) ==
    IF op = "state" THEN {"state"}
    ELSE IF console.desktop # "Winlogon" THEN {"refused"}
    ELSE IF op = "capture" THEN CaptureAnswers ELSE InputAnswers

(* The answer is written; a client that went while the operation ran leaves  *)
(* a broken pipe, an error the process ends with.                            *)
Executes(b) ==
    /\ Serves(b, {"running"})
    /\ IF pipe.client = Gone
       THEN Ends(b)
       ELSE \E answer \in AnswersTo(broker[b].op) :
              /\ pipe' = [pipe EXCEPT !.answer = answer]
              /\ broker' = [broker EXCEPT ![b].phase = "serving", ![b].op = NoOp]
    /\ UNCHANGED <<machine, console, asking, screen, screenLeft>>

(* --- the client -------------------------------------------------------------------------- *)

(* Input is routed to the helper for the secure desktop's own stream.        *)
RoutesInput(c) == screen[c].stream

(* Client::request for the host's list of windows, for its stream of the     *)
(* secure desktop and for the input it routes there.                         *)
Asks(c, op) ==
    /\ asking[c].phase = "idle" /\ machine.installed /\ Granted # NoUser
    /\ op = "capture" => screen[c].stream
    /\ op = "input" => RoutesInput(c)
    /\ asking' = [asking EXCEPT ![c] = [@ EXCEPT !.phase = "sending", !.op = op, !.attempt = 0]]
    /\ UNCHANGED <<machine, console, broker, pipe, screen, screenLeft>>

(* What the host makes of an answer, and of none: the window is listed while *)
(* the secure desktop is there, and the stream ends without a picture.       *)
ListedWith(c, answer) ==
    IF asking[c].op = "state" THEN answer = "state" /\ console.desktop = "Winlogon"
    ELSE screen[c].listed
StreamsWith(c, answer) == screen[c].stream /\ (asking[c].op = "capture" => answer = "capture")

Taken(c, answer) == [listed |-> ListedWith(c, answer), stream |-> StreamsWith(c, answer)]

GivesUp(c) ==
    /\ asking' = [asking EXCEPT ![c] = [NotAsking EXCEPT !.handle = FALSE]]
    /\ screen' = [screen EXCEPT ![c] = Taken(c, "error")]

(* The handle is of no use any more: one more try with a new one.            *)
TriesAgain(c) ==
    IF asking[c].attempt = 0
    THEN /\ asking' = [asking EXCEPT ![c].handle = FALSE, ![c].attempt = 1,
                                     ![c].phase = "sending"]
         /\ UNCHANGED screen
    ELSE GivesUp(c)

Connects(c) ==
    /\ asking[c].phase = "sending" /\ ~asking[c].handle
    /\ IF pipe.client = NoClient /\ \E b \in Brokers : Serves(b, {"listening"})
       THEN /\ pipe' = [pipe EXCEPT !.client = c]
            /\ asking' = [asking EXCEPT ![c].handle = TRUE]
            /\ UNCHANGED screen
       ELSE GivesUp(c) /\ UNCHANGED pipe
    /\ UNCHANGED <<machine, console, broker, screenLeft>>

Writes(c) ==
    /\ asking[c].phase = "sending" /\ asking[c].handle
    /\ IF pipe.client = c
       THEN /\ pipe' = [pipe EXCEPT !.request = asking[c].op]
            /\ asking' = [asking EXCEPT ![c].phase = "reading"]
            /\ UNCHANGED screen
       ELSE TriesAgain(c) /\ UNCHANGED pipe
    /\ UNCHANGED <<machine, console, broker, screenLeft>>

Reads(c) ==
    /\ asking[c].phase = "reading"
    /\ \/ /\ pipe.client = c /\ pipe.answer # NoOp
          /\ pipe' = [pipe EXCEPT !.answer = NoOp]
          /\ asking' = [asking EXCEPT ![c] = [NotAsking EXCEPT !.handle = TRUE]]
          /\ screen' = [screen EXCEPT ![c] = Taken(c, pipe.answer)]
       \/ /\ pipe.client # c
          /\ TriesAgain(c) /\ UNCHANGED pipe
    /\ UNCHANGED <<machine, console, broker, screenLeft>>

(* A stream of the listed secure desktop is opened.                          *)
OpensSecure(c) ==
    /\ screen[c].listed /\ ~screen[c].stream /\ asking[c].phase = "idle"
    /\ screen' = [screen EXCEPT ![c].stream = TRUE]
    /\ UNCHANGED <<machine, console, broker, pipe, asking, screenLeft>>

(* The host's process ends, whatever it is doing, and is started again.      *)
ClientExits(c) ==
    /\ screenLeft.exits > 0
    /\ screenLeft' = [screenLeft EXCEPT !.exits = @ - 1]
    /\ asking' = [asking EXCEPT ![c] = NotAsking]
    /\ screen' = [screen EXCEPT ![c] = [listed |-> FALSE, stream |-> FALSE]]
    /\ pipe' = IF pipe.client = c THEN [Unconnected EXCEPT !.client = Gone] ELSE pipe
    /\ UNCHANGED <<machine, console, broker>>

BrokerSteps(b) ==
    BrokerStarts(b) \/ Polls(b) \/ Accepts(b) \/ LetsGo(b) \/ ReadsRequest(b) \/ Executes(b)

ClientSteps(c) == Connects(c) \/ Writes(c) \/ Reads(c)

ScreenNext ==
    \/ Install \/ Registers \/ Unregisters \/ Removes
    \/ \E sid \in Sids : Enable(sid)
    \/ \E goesOn \in BOOLEAN : Disable(goesOn)
    \/ \E of \in Sids \cup {NoUser}, desktop \in {"Default", "Winlogon"} :
          ConsoleChanges(of, desktop)
    \/ \E b \in Brokers : BrokerSteps(b)
    \/ \E c \in ScreenClients : OpensSecure(c) \/ ClientExits(c) \/ ClientSteps(c)
    \/ \E c \in ScreenClients, op \in Ops : Asks(c, op)

(* Every process takes its steps; a client need not ask.                     *)
ScreenFairness ==
    /\ \A b \in Brokers : WF_screenVars(BrokerSteps(b))
    /\ \A c \in ScreenClients : WF_screenVars(ClientSteps(c))

ScreenSpec == ScreenInit /\ [][ScreenNext]_screenVars

(* --- properties ------------------------------------------------------------------------------ *)

(* What a client reads from the pipe answers what it asked there, though     *)
(* connections are cut at any point, other clients come in between and it    *)
(* sends what it asked again.                                                *)
AnswersFitTheQuestion ==
    \A c \in ScreenClients :
       asking[c].phase = "reading" /\ pipe.client = c /\ pipe.answer # NoOp
          => pipe.answer \in {asking[c].op, "refused"}

===============================================================================
