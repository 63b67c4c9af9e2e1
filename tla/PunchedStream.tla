---------------------------- MODULE PunchedStream ----------------------------
(***************************************************************************)
(* Signaling away from the LAN (transport/src/punched.rs): a byte stream over *)
(* UDP segments that may be lost, repeated and reordered.  A client opens     *)
(* connections one after another, from one address, to a host that accepts;   *)
(* each end of a connection is a run_stream.  The network is external.        *)
(***************************************************************************)
EXTENDS Integers, Sequences, FiniteSets, FiniteSetsExt

Ends == {"client", "host"}
Other(s) == IF s = "client" THEN "host" ELSE "client"

\* A plan is what the network and the programs do in a behaviour.  If it is lossy,
\* segments are lost; if not, what arrived may arrive again, and nothing may arrive
\* for as long as IDLE.  The rest are bounds: the connections the client opens, the
\* segments a program writes to one, and whether it may drop its end.
CONSTANTS
    Plans,          \* the plans considered
    Window          \* WINDOW: segments in flight

ASSUME PunchedAssumption ==
    /\ Window \in Nat \ {0}
    /\ IsFiniteSet(Plans)
    /\ \A p \in Plans :
          /\ p.lossy \in BOOLEAN /\ p.drops \in BOOLEAN
          /\ p.connections \in Nat
          /\ p.most \in [Ends -> Nat]

Connections == 1 .. Max({p.connections : p \in Plans})
MaxOut == Max(UNION {{p.most[s] : s \in Ends} : p \in Plans})
NoFin == -1
SegmentKinds == {"SYN", "DATA", "ACK", "FIN"}

VARIABLES
    plan,       \* the plan of this behaviour
    connected,     \* connections opened so far; each has its number for an id
    phase,      \* phase[s]: no stream, SYN sent, or run_stream running
    stream,     \* stream[s]: the locals of run_stream
    segments,        \* the segments on their way
    wrote, got, ended,  \* history, as in ByteStream
    final,      \* history: what a program had written when it closed, or NoFin
    admitted,   \* history: the connections the host accepted
    cut,        \* history: the connections whose stream ended before both FINs
    dropped     \* history: the connections of which a program dropped its end

history == <<wrote, final, got, ended>>
punchedVars == <<plan, connected, phase, stream, segments, history, admitted, cut, dropped>>

Fresh(id) ==
    [id |-> id, next_out |-> 0, acked |-> 0, next_in |-> 0, early |-> {},
     read_closed |-> FALSE, gone |-> FALSE, fin_sent |-> FALSE, peer_fin |-> NoFin]

Streams ==
    [id : {0} \cup Connections, next_out : 0 .. MaxOut, acked : 0 .. MaxOut, next_in : 0 .. MaxOut,
     early : SUBSET (0 .. MaxOut - 1), read_closed : BOOLEAN, gone : BOOLEAN,
     fin_sent : BOOLEAN, peer_fin : {NoFin} \cup 0 .. MaxOut]

Segments ==
    [to : Ends, kind : SegmentKinds, id : Connections, seq : 0 .. MaxOut]

PunchedTypes ==
    /\ plan \in Plans
    /\ connected \in {0} \cup Connections
    /\ phase \in [Ends -> {"off", "opening", "open"}]
    /\ stream \in [Ends -> Streams]
    /\ \A s \in Ends : stream[s].acked <= stream[s].next_out
    /\ segments \subseteq Segments
    /\ cut \subseteq Connections /\ dropped \subseteq Connections

PunchedInit ==
    /\ plan \in Plans
    /\ connected = 0
    /\ phase = [s \in Ends |-> "off"]
    /\ stream = [s \in Ends |-> Fresh(0)]
    /\ segments = {}
    /\ wrote = [c \in Connections |-> [s \in Ends |-> 0]]
    /\ final = [c \in Connections |-> [s \in Ends |-> NoFin]]
    /\ got = [c \in Connections |-> [s \in Ends |-> <<>>]]
    /\ ended = [c \in Connections |-> [s \in Ends |-> FALSE]]
    /\ admitted = {} /\ cut = {} /\ dropped = {}

Segment(s, kind, id, seq) == [to |-> Other(s), kind |-> kind, id |-> id, seq |-> seq]

\* What is left of the network after m arrived.
Without(m) == IF ~ plan.lossy THEN segments ELSE segments \ {m}

-----------------------------------------------------------------------------
(* Opening. *)

\* connect: a new id, and the first SYN.
Connect ==
    /\ phase["client"] = "off"
    /\ connected < plan.connections
    /\ connected' = connected + 1
    /\ phase' = [phase EXCEPT !["client"] = "opening"]
    /\ stream' = [stream EXCEPT !["client"] = Fresh(connected + 1)]
    /\ segments' = segments \cup {Segment("client", "SYN", connected + 1, 0)}
    /\ UNCHANGED <<history, admitted, cut>>

\* connect repeats its SYN.
RepeatSyn ==
    /\ phase["client"] = "opening"
    /\ segments' = segments \cup {Segment("client", "SYN", stream["client"].id, 0)}
    /\ UNCHANGED <<connected, phase, stream, history, admitted, cut>>

\* connect's deadline.
ConnectTimesOut ==
    /\ phase["client"] = "opening"
    /\ ~ plan.lossy
    /\ phase' = [phase EXCEPT !["client"] = "off"]
    /\ cut' = cut \cup {stream["client"].id}
    /\ UNCHANGED <<connected, stream, segments, history, admitted>>

\* connect hears its SYN answered.
Answered(m) ==
    /\ m.to = "client" /\ phase["client"] = "opening"
    /\ m.kind = "SYN" /\ m.id = stream["client"].id
    /\ phase' = [phase EXCEPT !["client"] = "open"]
    /\ segments' = Without(m)
    /\ UNCHANGED <<connected, stream, history, admitted, cut>>

\* read_loop accepts a stream.  Assumed of the network: no copy of a SYN comes
\* after the host's stream of that connection ended.
AcceptConnection(m) ==
    /\ m.to = "host" /\ phase["host"] = "off"
    /\ m.kind = "SYN" /\ m.id \notin admitted
    /\ phase' = [phase EXCEPT !["host"] = "open"]
    /\ stream' = [stream EXCEPT !["host"] = Fresh(m.id)]
    /\ admitted' = admitted \cup {m.id}
    /\ segments' = Without(m) \cup {Segment("host", "SYN", m.id, 0)}
    /\ UNCHANGED <<connected, history, cut>>

\* Nobody takes the segment: no stream, or one with another id.
Ignore(m) ==
    /\ \/ phase[m.to] = "off" /\ ~ (m.to = "host" /\ m.kind = "SYN" /\ m.id \notin admitted)
       \/ phase[m.to] = "opening" /\ ~ (m.kind = "SYN" /\ m.id = stream[m.to].id)
       \/ phase[m.to] = "open" /\ m.id # stream[m.to].id
    /\ segments' = Without(m)
    /\ UNCHANGED <<connected, phase, stream, history, admitted, cut>>

-----------------------------------------------------------------------------
(* run_stream: one turn of its loop each. *)

Running(s) == phase[s] = "open"

\* Bug to catch: the stream goes on after both FINs.
TurnOn(s, after) ==
    LET through == after.peer_fin = after.next_in
        id == after.id
    IN /\ UNCHANGED phase
       /\ stream' = [stream EXCEPT ![s] = after]
       /\ ended' = IF through THEN [ended EXCEPT ![id][s] = TRUE] ELSE ended
       /\ UNCHANGED <<connected, admitted, cut>>

\* The end of a turn: the program reads the end once all before the peer's FIN
\* arrived, and the stream is over once ours was sent as well.
Turn(s, after) ==
    LET through == after.peer_fin = after.next_in
        id == after.id
    IN /\ phase' = IF through /\ after.fin_sent THEN [phase EXCEPT ![s] = "off"] ELSE phase
       /\ stream' = [stream EXCEPT ![s] = after]
       /\ ended' = IF through THEN [ended EXCEPT ![id][s] = TRUE] ELSE ended
       /\ UNCHANGED <<connected, admitted, cut>>

\* The program's bytes go out, at most WINDOW segments unacknowledged.
SendBytes(s) ==
    LET st == stream[s] IN
    /\ Running(s)
    /\ ~ st.read_closed /\ ~ st.gone
    /\ st.next_out - st.acked < Window
    /\ st.next_out < plan.most[s]
    /\ segments' = segments \cup {Segment(s, "DATA", st.id, st.next_out)}
    /\ wrote' = [wrote EXCEPT ![st.id][s] = @ + 1]
    /\ Turn(s, [st EXCEPT !.next_out = @ + 1])
    /\ UNCHANGED <<final, got>>

\* The program closes its side for writing.
CloseWrite(s) ==
    LET st == stream[s] IN
    /\ Running(s)
    /\ ~ st.read_closed
    /\ st.next_out - st.acked < Window
    /\ final' = [final EXCEPT ![st.id][s] = wrote[st.id][s]]
    /\ Turn(s, [st EXCEPT !.read_closed = TRUE])
    /\ UNCHANGED <<segments, wrote, got>>

\* The program drops its end: it reads no more either.
Drop(s) ==
    /\ plan.drops
    /\ Running(s) /\ ~ stream[s].gone
    /\ stream' = [stream EXCEPT ![s].gone = TRUE]
    /\ dropped' = dropped \cup {stream[s].id}
    /\ UNCHANGED <<connected, phase, segments, history, admitted, cut>>

OnAck(s, m) ==
    LET st == stream[s] IN
    /\ m.kind = "ACK"
    /\ segments' = Without(m)
    /\ Turn(s, [st EXCEPT !.acked = Max({@, Min({m.seq, st.next_out})})])
    /\ UNCHANGED <<wrote, final, got>>

\* What can be handed on of the segments held: the numbers from next_in up to the
\* first gap; nothing to a program that is gone, and the first one is dropped.
Drained(st, held) ==
    IF st.gone
      THEN [st EXCEPT !.early = held \ {st.next_in}]
      ELSE LET gap == CHOOSE n \in st.next_in .. MaxOut :
                         n \notin held /\ st.next_in .. n - 1 \subseteq held
           IN [st EXCEPT !.early = held \ (st.next_in .. gap - 1), !.next_in = gap]

Payloads(s, from, to) == [i \in 1 .. to - from |-> [by |-> Other(s), n |-> from + i - 1]]

\* Bug to catch: a segment already handed on is handed on again.
OnDataAgain(s, m) ==
    LET st == stream[s]
        after == Drained([st EXCEPT !.next_in = Min({@, m.seq})], st.early \cup {m.seq})
        start == Min({st.next_in, m.seq})
    IN /\ m.kind = "DATA"
       /\ got' = [got EXCEPT ![st.id][s] = @ \o Payloads(s, start, after.next_in)]
       /\ segments' = Without(m) \cup {Segment(s, "ACK", st.id, after.next_in)}
       /\ Turn(s, after)
       /\ UNCHANGED <<wrote, final>>

OnData(s, m) ==
    LET st == stream[s]
        held == IF m.seq >= st.next_in THEN st.early \cup {m.seq} ELSE st.early
        after == Drained(st, held)
    IN /\ m.kind = "DATA"
       /\ got' = [got EXCEPT ![st.id][s] = @ \o Payloads(s, st.next_in, after.next_in)]
       /\ segments' = Without(m) \cup {Segment(s, "ACK", st.id, after.next_in)}
       /\ Turn(s, after)
       /\ UNCHANGED <<wrote, final>>

OnFin(s, m) ==
    LET st == stream[s] IN
    /\ m.kind = "FIN"
    /\ segments' = Without(m) \cup {Segment(s, "ACK", st.id, st.next_in)}
    /\ Turn(s, [st EXCEPT !.peer_fin = m.seq])
    /\ UNCHANGED <<wrote, final, got>>

\* A repeated opening whose answer was lost.
OnSyn(s, m) ==
    /\ m.kind = "SYN"
    /\ segments' = Without(m) \cup {Segment(s, "SYN", stream[s].id, 0)}
    /\ Turn(s, stream[s])
    /\ UNCHANGED <<wrote, final, got>>

Hear(m) ==
    /\ Running(m.to) /\ m.id = stream[m.to].id
    /\ OnAck(m.to, m) \/ OnData(m.to, m) \/ OnFin(m.to, m) \/ OnSyn(m.to, m)

\* A tick: what was not acknowledged in time goes again.
Resend(s) ==
    LET st == stream[s] IN
    /\ Running(s)
    /\ st.acked < st.next_out
    /\ \E due \in (SUBSET (st.acked .. st.next_out - 1)) \ {{}} :
          segments' = segments \cup {Segment(s, "DATA", st.id, q) : q \in due}
    /\ Turn(s, st)
    /\ UNCHANGED <<wrote, final, got>>

\* A tick: our side is done once everything is acknowledged; said again until the
\* stream is over.
SendFin(s) ==
    LET st == stream[s] IN
    /\ Running(s)
    /\ st.read_closed /\ st.acked = st.next_out
    /\ segments' = segments \cup {Segment(s, "FIN", st.id, st.next_out)}
    /\ Turn(s, [st EXCEPT !.fin_sent = TRUE])
    /\ UNCHANGED <<wrote, final, got>>

\* Something of its connection may still reach s: a segment on its way, or one that
\* the other end, if it is still there, has to send or to answer.
Talking(s) ==
    LET id == stream[s].id
        there == phase[Other(s)] # "off" /\ stream[Other(s)].id = id
    IN \/ \E m \in segments : m.id = id /\ (m.to = s \/ there)
       \/ /\ there
          /\ \E t \in Ends : \/ phase[t] = "opening" \/ stream[t].read_closed
                            \/ stream[t].acked < stream[t].next_out

\* A tick: nothing heard for IDLE.  The stream drops its end of the pipe, and the
\* program reads the end that one closed by FINs shows.
StreamIdle(s) ==
    LET id == stream[s].id IN
    /\ Running(s)
    /\ ~ plan.lossy \/ ~ Talking(s)
    /\ phase' = [phase EXCEPT ![s] = "off"]
    /\ ended' = [ended EXCEPT ![id][s] = TRUE]
    /\ cut' = cut \cup {id}
    /\ UNCHANGED <<connected, stream, segments, wrote, final, got, admitted>>

-----------------------------------------------------------------------------
SegmentLost(m) ==
    /\ plan.lossy
    /\ segments' = segments \ {m}
    /\ UNCHANGED <<connected, phase, stream, history, admitted, cut>>

SegmentArrives(m) == Answered(m) \/ AcceptConnection(m) \/ Hear(m)

PunchedStep ==
    \/ Connect \/ RepeatSyn \/ ConnectTimesOut
    \/ \E m \in segments : SegmentArrives(m) \/ Ignore(m) \/ SegmentLost(m)
    \/ \E s \in Ends :
          SendBytes(s) \/ CloseWrite(s) \/ Resend(s) \/ SendFin(s) \/ StreamIdle(s)

PunchedNext ==
    /\ UNCHANGED plan
    /\ \/ PunchedStep /\ UNCHANGED dropped
       \/ \E s \in Ends : Drop(s)

PunchedSpec == PunchedInit /\ [][PunchedNext]_punchedVars

\* Where segments are lost: the loops tick; a segment sent again and again arrives;
\* a program that dropped its end reads the end of its pipe.
Still == UNCHANGED <<plan, dropped>>

PunchedFairness ==
    /\ WF_punchedVars(plan.lossy /\ RepeatSyn /\ Still)
    /\ \A s \in Ends :
          /\ \A k \in SegmentKinds :
                SF_punchedVars(plan.lossy /\ (\E m \in segments : m.to = s /\ m.kind = k /\ SegmentArrives(m)) /\ Still)
          /\ WF_punchedVars(plan.lossy /\ Resend(s) /\ Still)
          /\ WF_punchedVars(plan.lossy /\ SendFin(s) /\ Still)
          /\ WF_punchedVars(plan.lossy /\ StreamIdle(s) /\ Still)
          /\ WF_punchedVars(plan.lossy /\ stream[s].gone /\ CloseWrite(s) /\ Still)


-----------------------------------------------------------------------------
Stream == INSTANCE ByteStream WITH
    closed <- [c \in Connections |-> [s \in Ends |-> final[c][s] # NoFin]]

\* The segments carry a byte stream: "a reliable byte stream over one UDP socket"
\* (the module's doc), whatever the network repeats, reorders and delays and
\* however connections follow each other.  A program that reads an end has read all
\* the other wrote, unless its stream was silent for IDLE: the pipe is dropped, and
\* its end comes early, at that moment and looking like any other.
IsByteStream == Stream!Spec

\* run_stream never holds more than a window of segments early, though it does not
\* check: only what the sender keeps unacknowledged can be on its way.
EarlyIsBounded ==
    \A s \in Ends :
        Running(s) => stream[s].early \subseteq stream[s].next_in .. stream[s].next_in + Window - 1

\* A stream that ended by FINs lost nothing: what its program wrote before closing
\* was all handed to the peer's program.
CloseIsClean ==
    \A c \in Connections \ cut : \A s \in Ends :
        phase[s] = "off" /\ stream[s].id = c /\ stream[s].peer_fin # NoFin
            => Len(got[c][Other(s)]) = wrote[c][s]

\* "`FIN` closes; a stream silent for [`IDLE`] is dropped" (the module's doc): once
\* both programs closed, and neither dropped its end instead, both streams end.
Closed(c) == c \notin dropped /\ \A s \in Ends : final[c][s] # NoFin
Over(c) == \A s \in Ends : stream[s].id = c => phase[s] = "off"

StreamsEnd == PunchedFairness =>
    (plan.lossy /\ \E c \in Connections : Closed(c))
        ~> \A c \in Connections : Closed(c) => Over(c)

\* run_stream's end: closed streams end, one that ended by FINs lost nothing, and
\* meanwhile what came early never filled more than the window.
StreamsEndCleanly == []PunchedTypes /\ StreamsEnd /\ []CloseIsClean /\ []EarlyIsBounded
=============================================================================
