------------------------------ MODULE Commands ------------------------------
(***************************************************************************)
(* The command stream of a session: shells, commands, services (files, folder *)
(* watch, chat) and launches opened as channels (client-core/src/command.rs,  *)
(* host-core/src/command.rs, terminal/src/channel.rs).  At the client the     *)
(* calls of the app, pump_events and a task per channel run side by side; at  *)
(* the host the session loop, and per command its readers and the thread that *)
(* waits for it.  What is typed into a command is left out.                   *)
(***************************************************************************)
EXTENDS Naturals, Sequences, FiniteSets

CONSTANTS
    MaxOpens,       \* bound: channels opened
    MaxChunks,      \* bound: chunks of output of a command
    MAX_CHANNELS

ASSUME CommandsAssumption ==
    /\ MaxOpens \in Nat
    /\ MaxChunks \in Nat
    /\ MAX_CHANNELS \in Nat \ {0}

Ids == 1 .. MaxOpens
Answers == {"Opened", "PasswordNeeded", "Refused"}

\* "Exec" stands for Shell, Exec, Files, Watch and Chat: something runs until it
\* ends or is killed (the services: until killed).  A Launch is started and done; a
\* RemoteApp is a Launch that the host serves as one.
ChannelKinds == {"Exec", "Launch", "RemoteApp"}

VARIABLES
    \* The client.
    opens,      \* Routes.next
    call,       \* open(), by channel: not called, waiting, or what it returned
    routes,     \* Routes.map: the channels in it
    events,     \* history, by channel: the events put into it
    closing,    \* the channels whose Command::Close their task has yet to send
    linked,     \* whether the client's end of the session is up
    late,       \* history: the channels given up on before the host's answer was taken
    \* The control channel.
    toHost, toClient,
    \* The host.
    serving,    \* whether the session loop runs
    opening,    \* the Open it is handling, and how far: {} or {[id, kind, started]}
    open,       \* Channels.open
    shut,       \* the channels whose `closed` flag is set
    running,    \* the commands running
    waited,     \* the commands a thread still waits for
    written,    \* chunks of output, by command
    unread,     \* ... and how many its readers have yet to send
    listed      \* StatusMap: HostControl::commands

clientSide == <<opens, call, routes, events, closing, linked, late>>
hostSide == <<serving, opening, open, shut, running, waited, written, unread, listed>>
commandVars == <<clientSide, toHost, toClient, hostSide>>

Message(type, id) == [type |-> type, id |-> id]

CommandsTypeOK ==
    /\ opens \in 0 .. MaxOpens
    /\ call \in [Ids -> {"no", "waiting", "silent", "ended"} \cup Answers]
    /\ events \in [Ids -> Seq({"Data", "Exited", "Closed"})]
    /\ \A s \in {routes, closing, late, open, shut, running, waited, listed} : s \subseteq Ids
    /\ linked \in BOOLEAN /\ serving \in BOOLEAN
    /\ toHost \in Seq([type : {"Close"}, id : Ids]
                      \cup [type : {"Open"}, id : Ids, kind : ChannelKinds])
    /\ toClient \in Seq([type : Answers \cup {"Data", "Exited"}, id : Ids])
    /\ opening \subseteq [id : Ids, kind : ChannelKinds, started : BOOLEAN]
    /\ Cardinality(opening) <= 1
    /\ written \in [Ids -> 0 .. MaxChunks]
    /\ unread \in [Ids -> 0 .. MaxChunks]

CommandsInit ==
    /\ opens = 0 /\ call = [i \in Ids |-> "no"] /\ events = [i \in Ids |-> <<>>]
    /\ routes = {} /\ closing = {} /\ late = {} /\ linked = TRUE
    /\ toHost = <<>> /\ toClient = <<>>
    /\ serving = TRUE /\ opening = {} /\ open = {} /\ shut = {}
    /\ running = {} /\ waited = {} /\ listed = {}
    /\ written = [i \in Ids |-> 0] /\ unread = [i \in Ids |-> 0]

-----------------------------------------------------------------------------
\* The client.  What is sent to an end that is gone is lost.
ToHost(m) == toHost' = IF serving THEN Append(toHost, m) ELSE toHost
ToClient(ms) == toClient' = IF linked THEN toClient \o ms ELSE toClient

\* ClientSession::open, up to the wait for the answer.
Open(kind) ==
    /\ linked
    /\ opens < MaxOpens
    /\ opens' = opens + 1
    /\ routes' = routes \cup {opens'}
    /\ call' = [call EXCEPT ![opens'] = "waiting"]
    /\ ToHost([type |-> "Open", id |-> opens', kind |-> kind])
    /\ UNCHANGED <<events, closing, linked, late, toClient, hostSide>>

\* ... no answer within OPEN_WITHIN.
OpenTimesOut(i) ==
    /\ call[i] = "waiting"
    /\ call' = [call EXCEPT ![i] = "silent"]
    /\ routes' = routes \ {i}
    /\ late' = late \cup {i}
    /\ UNCHANGED <<opens, events, closing, linked, toHost, toClient, hostSide>>

\* Routes::handle.  An Exited that comes before the answer takes the route, and
\* with it the sender the call waits on.
Handle ==
    /\ linked
    /\ toClient # <<>>
    /\ toClient' = Tail(toClient)
    /\ LET m == Head(toClient)
           i == m.id
           had == i \in routes
       IN  /\ routes' = IF m.type \in {"Opened", "Data"} THEN routes ELSE routes \ {i}
           /\ call' = [call EXCEPT ![i] =
                  IF ~ had \/ @ # "waiting" \/ m.type = "Data" THEN @
                  ELSE IF m.type = "Exited" THEN "silent" ELSE m.type]
           /\ events' = [events EXCEPT ![i] =
                  IF ~ had \/ m.type \in Answers THEN @
                  ELSE IF m.type = "Exited" THEN @ \o <<"Exited", "Closed">>
                  ELSE Append(@, "Data")]
           \* launch drops the channel of an answer that opened none.
           /\ closing' = IF had /\ m.type = "PasswordNeeded" THEN closing \cup {i} ELSE closing
    /\ UNCHANGED <<opens, linked, late, toHost, hostSide>>

\* Channel::close, or the channel is dropped.
CloseChannel(i) ==
    /\ call[i] = "Opened"
    /\ i \notin closing
    /\ closing' = closing \cup {i}
    /\ UNCHANGED <<opens, call, routes, events, linked, late, toHost, toClient, hostSide>>

\* The task of the channel sends it and forgets the route.
Forward(i) ==
    /\ i \in closing
    /\ closing' = closing \ {i}
    /\ call' = [call EXCEPT ![i] = "ended"]
    /\ ToHost(Message("Close", i))
    /\ routes' = routes \ {i}
    /\ events' = [events EXCEPT ![i] = IF i \in routes THEN Append(@, "Closed") ELSE @]
    /\ UNCHANGED <<opens, linked, late, toClient, hostSide>>

\* pump_events hears that the session ended: Routes::close_all.
ClientEnds ==
    /\ linked
    /\ linked' = FALSE
    /\ routes' = {}
    /\ call' = [i \in Ids |-> IF call[i] = "waiting" /\ i \in routes THEN "ended" ELSE call[i]]
    /\ events' = [i \in Ids |-> IF i \in routes THEN Append(events[i], "Closed") ELSE events[i]]
    /\ toClient' = <<>>
    /\ UNCHANGED <<opens, closing, late, toHost, hostSide>>

-----------------------------------------------------------------------------
\* The host's session loop.  Channels::handle, Open: Channels::start clears away what
\* is over and refuses more than MAX_CHANNELS, a RemoteApp is left to its provider,
\* and either may refuse for reasons of its own.
Take(refuse) ==
    /\ serving
    /\ opening = {}
    /\ toHost # <<>> /\ Head(toHost).type = "Open"
    /\ toHost' = Tail(toHost)
    /\ LET m == Head(toHost)
           left == IF m.kind = "RemoteApp" THEN open ELSE open \ shut
           full == m.kind # "RemoteApp" /\ Cardinality(left) >= MAX_CHANNELS
       IN  /\ refuse = "PasswordNeeded" => m.kind = "RemoteApp"
           /\ open' = left
           /\ IF full \/ refuse # "no"
              THEN /\ ToClient(<<Message(IF full THEN "Refused" ELSE refuse, m.id)>>)
                   /\ UNCHANGED opening
              ELSE /\ opening' = {[id |-> m.id, kind |-> m.kind, started |-> FALSE]}
                   /\ UNCHANGED toClient
    /\ UNCHANGED <<clientSide, serving, shut, running, waited, written, unread, listed>>

\* Channels::start, from where the command runs (a launch is nobody's to wait for):
\* its readers and the thread that waits for it may report before the loop answers.
Start ==
    /\ \E o \in opening :
         /\ ~ o.started
         /\ opening' = {[o EXCEPT !.started = TRUE]}
         /\ LET new == IF o.kind = "Exec" THEN {o.id} ELSE {}
            IN  /\ running' = running \cup new
                /\ waited' = waited \cup new
                /\ listed' = listed \cup new
                /\ open' = open \cup new
    /\ UNCHANGED <<clientSide, toHost, toClient, serving, shut, written, unread>>

\* ... and the answer; a launch has nothing more to come.
Answer ==
    /\ \E o \in opening :
         /\ o.started
         /\ ToClient(<<Message("Opened", o.id)>>
                     \o IF o.kind = "Exec" THEN <<>> ELSE <<Message("Exited", o.id)>>)
    /\ opening' = {}
    /\ UNCHANGED <<clientSide, toHost, serving, open, shut, running, waited, written, unread, listed>>

\* Channels::handle, Close, and Channels' end.
Kill(is) ==
    /\ shut' = shut \cup is
    /\ running' = running \ is
    /\ listed' = listed \ is

TakeClose ==
    /\ serving
    /\ opening = {}
    /\ toHost # <<>> /\ Head(toHost).type = "Close"
    /\ toHost' = Tail(toHost)
    /\ LET i == Head(toHost).id
       IN  open' = open \ {i} /\ Kill(open \cap {i})
    /\ UNCHANGED <<clientSide, toClient, serving, opening, waited, written, unread>>

\* The session ends, or an answer cannot be sent: Channels is dropped.
HostEnds ==
    /\ serving
    /\ \A o \in opening : o.started
    /\ serving' = FALSE
    /\ opening' = {} /\ open' = {}
    /\ Kill(open)
    /\ toHost' = <<>>
    /\ UNCHANGED <<clientSide, toClient, waited, written, unread>>

-----------------------------------------------------------------------------
\* A command writes, and ends by itself.
Write(i) ==
    /\ i \in running
    /\ written[i] < MaxChunks
    /\ written' = [written EXCEPT ![i] = @ + 1]
    /\ unread' = [unread EXCEPT ![i] = @ + 1]
    /\ UNCHANGED <<clientSide, toHost, toClient, serving, opening, open, shut, running, waited, listed>>

Exit(i) ==
    /\ i \in running
    /\ running' = running \ {i}
    /\ UNCHANGED <<clientSide, toHost, toClient, serving, opening, open, shut, waited, written, unread, listed>>

\* A reader sends what it read; with the session gone it stops.
Read(i) ==
    /\ unread[i] > 0
    /\ unread' = [unread EXCEPT ![i] = IF serving THEN @ - 1 ELSE 0]
    /\ IF serving THEN ToClient(<<Message("Data", i)>>) ELSE UNCHANGED toClient
    /\ UNCHANGED <<clientSide, toHost, serving, opening, open, shut, running, waited, written, listed>>

\* Bug to catch: the exit is reported without waiting for the readers.
NotJoined(i) == i \in Ids

\* reader.join: the output is sent to its end.
Joined(i) == unread[i] = 0

\* The thread that waits for the command.
Report(i) ==
    /\ i \in waited \ running
    /\ Joined(i)
    /\ waited' = waited \ {i}
    /\ listed' = listed \ {i}
    /\ shut' = shut \cup {i}
    /\ IF i \notin shut /\ serving THEN ToClient(<<Message("Exited", i)>>) ELSE UNCHANGED toClient
    /\ UNCHANGED <<clientSide, toHost, serving, opening, open, running, written, unread>>

CommandsNext ==
    \/ Handle \/ ClientEnds \/ Start \/ Answer \/ TakeClose \/ HostEnds
    \/ \E kind \in ChannelKinds : Open(kind)
    \/ \E refuse \in {"no", "Refused", "PasswordNeeded"} : Take(refuse)
    \/ \E i \in Ids :
         \/ OpenTimesOut(i) \/ CloseChannel(i) \/ Forward(i)
         \/ Write(i) \/ Exit(i) \/ Read(i) \/ Report(i)

CommandsSpec == CommandsInit /\ [][CommandsNext]_commandVars

-----------------------------------------------------------------------------
\* Everything said was heard and every thread has done what it can.
CommandsSettled ==
    /\ toHost = <<>> /\ toClient = <<>>
    /\ opening = {} /\ closing = {}
    /\ linked = serving
    /\ waited = running

\* Once everything has settled, the channels the app can use and the commands that
\* run for them are the same, and these are what HostControl::commands lists.  Only
\* an open the client gave up on leaves a command that runs for nobody.
ChannelsMatchCommands ==
    CommandsSettled => running \ late = routes /\ listed = running

\* "Closed: The channel (or the whole connection) is gone. Always last."
\* (ChannelEvent), and a command's end is reported after all of its output.
EndComesLast ==
    \A i \in Ids :
        LET e == events[i]
            Data == {n \in DOMAIN e : e[n] = "Data"}
        IN  /\ \A n \in DOMAIN e : e[n] = "Closed" => n = Len(e)
            /\ (\E n \in DOMAIN e : e[n] = "Exited") => Cardinality(Data) = written[i]

\* The command channel at both ends (command.rs): commands run for the channels there
\* are, and the end of each is told last.
CommandsAccountedFor == CommandsTypeOK /\ ChannelsMatchCommands /\ EndComesLast
=============================================================================
