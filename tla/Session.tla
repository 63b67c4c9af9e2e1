------------------------------- MODULE Session -------------------------------
(***************************************************************************)
(* A session of transport/src/lib.rs after it is up: both ends attach and    *)
(* detach tracks, each change renegotiated with an offer and an answer over  *)
(* the control channel, which also carries the application's messages, the   *)
(* end of a window's tracks and the goodbye.  The peer connection is webrtc's *)
(* (external): its signaling state is kept as far as the code relies on it.  *)
(***************************************************************************)
EXTENDS Integers, Sequences, FiniteSets

CONSTANTS
    Tracks,         \* Tracks[s]: the tracks side s may send
    MaxOps,         \* bound: attaches and detaches of both sides
    MaxData,        \* bound: MaxData[s]: application messages of side s
    Closers         \* the sides that may close the session

Sides == {"host", "client"}
Peer(s) == IF s = "host" THEN "client" ELSE "host"
Kinds == {"video", "audio", "microphone"}

ASSUME SessionAssumption ==
    /\ Tracks \in [Sides -> SUBSET Kinds]
    /\ MaxOps \in Nat /\ MaxData \in [Sides -> Nat]
    /\ Closers \subseteq Sides

None == "None"

VARIABLES
    ops,        \* attaches and detaches begun; an offer has its operation's number
    op,         \* op[s][k]: what is being done to a track, and under which number
    senders,    \* senders[s]: the tracks the peer connection sends, with their numbers
    recorded,   \* Session.windows and .audio: the tracks recorded
    sig,        \* the connection's signaling state
    negotiation,\* Session.negotiation: the track whose operation holds the lock
    slot,       \* Session.pending_answer: the operation whose sender is in it, or 0
    answer,     \* what the waiting renegotiation was sent, or 0
    channel,    \* channel[s]: the control messages from s, in order
    inbound,    \* Session.inbound
    closed,     \* Session.closed
    arrived,    \* client: Session.remote_tracks, not taken yet
    flags,      \* client: Session.ended_windows: the tracks that can be ended
    live,       \* client: the tracks taken whose end was not signalled
    said, heard,\* history: application messages sent, and handed to the application
    lastWord,   \* history: how many had been sent at the goodbye, or -1
    left,       \* history: the application was told the session is closed
    over,       \* history: the tracks whose end the control loop handled
    crossed,    \* history: an answer was applied to another offer than its own
    gaveUp      \* history: the operations whose renegotiation got no answer in time

opVars == <<ops, op, senders, recorded>>
negotiationVars == <<sig, negotiation, slot, answer, crossed, gaveUp>>
controlVars == <<channel, inbound, closed, said, heard, lastWord, left>>
trackVars == <<arrived, flags, live, over>>
vars == <<opVars, negotiationVars, controlVars, trackVars>>

Operations == [what : {"idle", "attach", "detach"}, n : 0 .. MaxOps]
Numbered == [kind : Kinds, n : 1 .. MaxOps]

IsData(item) == item = "data"

TypeOK ==
    /\ ops \in 0 .. MaxOps
    /\ \A s \in Sides : \A k \in Tracks[s] : op[s][k] \in Operations
    /\ \A s \in Sides : senders[s] \subseteq Numbered /\ recorded[s] \subseteq Numbered
    /\ sig \in [Sides -> {"stable", "offered"}]
    /\ negotiation \in [Sides -> Kinds \cup {None}]
    /\ slot \in [Sides -> 0 .. MaxOps]
    /\ answer \in [Sides -> 0 .. MaxOps]
    /\ closed \in [Sides -> BOOLEAN]
    /\ \A s \in Sides : heard[s] + Cardinality({i \in DOMAIN inbound[s] : IsData(inbound[s][i])}) <= said[Peer(s)]

NoOp == [what |-> "idle", n |-> 0]

Init ==
    /\ ops = 0
    /\ op = [s \in Sides |-> [k \in Tracks[s] |-> NoOp]]
    /\ senders = [s \in Sides |-> {}]
    /\ recorded = [s \in Sides |-> {}]
    /\ sig = [s \in Sides |-> "stable"]
    /\ negotiation = [s \in Sides |-> None]
    /\ slot = [s \in Sides |-> 0]
    /\ answer = [s \in Sides |-> 0]
    /\ crossed = FALSE /\ gaveUp = {}
    /\ channel = [s \in Sides |-> <<>>]
    /\ inbound = [s \in Sides |-> <<>>]
    /\ closed = [s \in Sides |-> FALSE]
    /\ said = [s \in Sides |-> 0]
    /\ heard = [s \in Sides |-> 0]
    /\ lastWord = [s \in Sides |-> -1]
    /\ left = [s \in Sides |-> FALSE]
    /\ arrived = <<>>
    /\ flags = {} /\ live = {} /\ over = {}

-----------------------------------------------------------------------------
(* Attaching and detaching. *)

Sent(s, message) == [channel EXCEPT ![s] = Append(@, message)]

Of(set, k) == {t \in set : t.kind = k}

\* attach_window, attach_audio and attach_microphone up to the renegotiation.
Attach(s, k) ==
    /\ op[s][k] = NoOp
    /\ Of(recorded[s], k) = {}
    /\ ops < MaxOps
    /\ ops' = ops + 1
    /\ op' = [op EXCEPT ![s][k] = [what |-> "attach", n |-> ops + 1]]
    /\ senders' = [senders EXCEPT ![s] = @ \cup {[kind |-> k, n |-> ops + 1]}]
    /\ UNCHANGED <<recorded, negotiationVars, controlVars, trackVars>>

\* Bug to catch: the track stays on the connection.
DetachKeepsSender(s, k) ==
    /\ op[s][k] = NoOp
    /\ Of(recorded[s], k) # {}
    /\ ops < MaxOps
    /\ ops' = ops + 1
    /\ op' = [op EXCEPT ![s][k] = [what |-> "detach", n |-> ops + 1]]
    /\ senders' = senders
    /\ recorded' = [recorded EXCEPT ![s] = @ \ Of(@, k)]
    /\ UNCHANGED <<negotiationVars, controlVars, trackVars>>

\* detach_window, detach_audio and detach_microphone up to the renegotiation.
Detach(s, k) ==
    /\ op[s][k] = NoOp
    /\ Of(recorded[s], k) # {}
    /\ ops < MaxOps
    /\ ops' = ops + 1
    /\ op' = [op EXCEPT ![s][k] = [what |-> "detach", n |-> ops + 1]]
    /\ senders' = [senders EXCEPT ![s] = @ \ Of(recorded[s], k)]
    /\ recorded' = [recorded EXCEPT ![s] = @ \ Of(@, k)]
    /\ UNCHANGED <<negotiationVars, controlVars, trackVars>>

\* renegotiate up to its wait; the offer names the tracks sent.
Offer(s, k) ==
    /\ op[s][k] # NoOp
    /\ negotiation[s] = None
    /\ ~ closed[s]
    /\ negotiation' = [negotiation EXCEPT ![s] = k]
    /\ slot' = [slot EXCEPT ![s] = op[s][k].n]
    /\ sig' = [sig EXCEPT ![s] = "offered"]
    /\ channel' = Sent(s, [type |-> "offer", n |-> op[s][k].n, tracks |-> senders[s]])
    /\ UNCHANGED <<opVars, answer, crossed, gaveUp, inbound, closed, said, heard, lastWord, left, trackVars>>

\* The connection is closed: the operation returns an error.
OfferFails(s, k) ==
    /\ op[s][k] # NoOp
    /\ negotiation[s] = None
    /\ closed[s]
    /\ slot' = [slot EXCEPT ![s] = op[s][k].n]
    /\ op' = [op EXCEPT ![s][k] = NoOp]
    /\ UNCHANGED <<ops, senders, recorded, sig, negotiation, answer, crossed, gaveUp, controlVars, trackVars>>

\* Bug to catch: the lock is kept.
GiveUpKeepsLock(s) ==
    LET k == negotiation[s] IN
    /\ k # None /\ answer[s] = 0 /\ op[s][k] # NoOp
    /\ UNCHANGED negotiation
    /\ op' = [op EXCEPT ![s][k] = NoOp]
    /\ gaveUp' = gaveUp \cup {op[s][k].n}
    /\ UNCHANGED <<ops, senders, recorded, sig, slot, answer, crossed, controlVars, trackVars>>

\* renegotiate's wait ends without an answer, after NEGOTIATION_TIMEOUT or with the
\* connection; the slot keeps its sender.
GiveUp(s) ==
    LET k == negotiation[s] IN
    /\ k # None /\ answer[s] = 0
    /\ negotiation' = [negotiation EXCEPT ![s] = None]
    /\ op' = [op EXCEPT ![s][k] = NoOp]
    /\ gaveUp' = gaveUp \cup {op[s][k].n}
    /\ UNCHANGED <<ops, senders, recorded, sig, slot, answer, crossed, controlVars, trackVars>>

\* renegotiate applies the answer it was sent, and the operation ends: an attach
\* records its track, a detach of a window's video is told to the peer.
Apply(s) ==
    LET k == negotiation[s]
        o == op[s][k]
    IN /\ k # None /\ answer[s] # 0
       /\ sig' = [sig EXCEPT ![s] = "stable"]
       /\ crossed' = (crossed \/ answer[s] # o.n)
       /\ answer' = [answer EXCEPT ![s] = 0]
       /\ negotiation' = [negotiation EXCEPT ![s] = None]
       /\ op' = [op EXCEPT ![s][k] = NoOp]
       /\ recorded' = IF o.what = "attach"
                        THEN [recorded EXCEPT ![s] = @ \cup {[kind |-> k, n |-> o.n]}]
                        ELSE recorded
       /\ channel' = IF o.what = "detach" /\ k = "video" /\ ~ closed[s]
                       THEN Sent(s, [type |-> "ended"]) ELSE channel
       /\ UNCHANGED <<ops, senders, slot, gaveUp, inbound, closed, said, heard, lastWord, left, trackVars>>

-----------------------------------------------------------------------------
(* run_control_channel, one message each. *)

Next1(s, type) ==
    /\ ~ closed[s]
    /\ channel[Peer(s)] # <<>>
    /\ Head(channel[Peer(s)]).type = type

Taken(s) == [channel EXCEPT ![Peer(s)] = Tail(@)]

\* What the client has not seen of the tracks an offer names.
Fresh(tracks) ==
    {t \in tracks : t \notin live \cup over /\ \A i \in DOMAIN arrived : arrived[i] # t}

Listed(set) == CHOOSE seq \in [1 .. Cardinality(set) -> set] : \A t \in set : \E i \in DOMAIN seq : seq[i] = t

\* answer_renegotiation; an offer that meets one of ours is refused by the
\* connection, and no answer goes back.
TakeOffer(s) ==
    LET offer == Head(channel[Peer(s)]) IN
    /\ Next1(s, "offer")
    /\ \/ /\ sig[s] = "stable"
          /\ channel' = [Taken(s) EXCEPT ![s] = Append(@, [type |-> "answer", n |-> offer.n])]
          /\ arrived' = IF s = "client" THEN arrived \o Listed(Fresh(offer.tracks)) ELSE arrived
       \/ /\ sig[s] # "stable"
          /\ channel' = Taken(s)
          /\ UNCHANGED arrived
    /\ UNCHANGED <<opVars, negotiationVars, inbound, closed, said, heard, lastWord, left, flags, live, over>>

\* The answer goes to whoever has the slot, if that one still waits.
TakeAnswer(s) ==
    /\ Next1(s, "answer")
    /\ channel' = Taken(s)
    /\ slot' = [slot EXCEPT ![s] = 0]
    /\ answer' = IF slot[s] # 0 /\ negotiation[s] # None /\ op[s][negotiation[s]].n = slot[s]
                   THEN [answer EXCEPT ![s] = Head(channel[Peer(s)]).n]
                   ELSE answer
    /\ UNCHANGED <<opVars, sig, negotiation, crossed, gaveUp, inbound, closed, said, heard, lastWord, left, trackVars>>

\* TrackEnded: every track of the window that can be ended is, and the application
\* is handed the message too.
TakeEnded(s) ==
    /\ Next1(s, "ended")
    /\ channel' = Taken(s)
    /\ live' = live \ flags
    /\ flags' = {}
    /\ over' = over \cup live \cup {arrived[i] : i \in DOMAIN arrived}
    /\ inbound' = [inbound EXCEPT ![s] = Append(@, "ended")]
    /\ UNCHANGED <<opVars, negotiationVars, closed, said, heard, lastWord, left, arrived>>

TakeData(s) ==
    /\ Next1(s, "data")
    /\ channel' = Taken(s)
    /\ inbound' = [inbound EXCEPT ![s] = Append(@, "data")]
    /\ UNCHANGED <<opVars, negotiationVars, closed, said, heard, lastWord, left, trackVars>>

TakeGoodbye(s) ==
    /\ Next1(s, "goodbye")
    /\ channel' = Taken(s)
    /\ closed' = [closed EXCEPT ![s] = TRUE]
    /\ UNCHANGED <<opVars, negotiationVars, inbound, said, heard, lastWord, left, trackVars>>

-----------------------------------------------------------------------------
(* The application's side of the session. *)

\* send_control.
Say(s) ==
    /\ ~ closed[s]
    /\ said[s] < MaxData[s]
    /\ said' = [said EXCEPT ![s] = @ + 1]
    /\ channel' = Sent(s, [type |-> "data"])
    /\ UNCHANGED <<opVars, negotiationVars, inbound, closed, heard, lastWord, left, trackVars>>

\* recv_control: what arrived before the end is handed on first.
Hear(s) ==
    /\ inbound[s] # <<>>
    /\ ~ left[s]
    /\ inbound' = [inbound EXCEPT ![s] = Tail(@)]
    /\ heard' = [heard EXCEPT ![s] = @ + (IF IsData(Head(inbound[s])) THEN 1 ELSE 0)]
    /\ UNCHANGED <<opVars, negotiationVars, channel, closed, said, lastWord, left, trackVars>>

\* until_closed.
Leave(s) ==
    /\ closed[s] /\ ~ left[s]
    /\ inbound[s] = <<>>
    /\ left' = [left EXCEPT ![s] = TRUE]
    /\ UNCHANGED <<opVars, negotiationVars, channel, inbound, closed, said, heard, lastWord, trackVars>>

\* Session::close.
Close(s) ==
    /\ s \in Closers
    /\ ~ closed[s]
    /\ channel' = Sent(s, [type |-> "goodbye"])
    /\ closed' = [closed EXCEPT ![s] = TRUE]
    /\ lastWord' = [lastWord EXCEPT ![s] = said[s]]
    /\ UNCHANGED <<opVars, negotiationVars, inbound, said, heard, left, trackVars>>

\* next_remote_track: the track can be ended from now on.
NextRemoteTrack ==
    /\ arrived # <<>>
    /\ arrived' = Tail(arrived)
    /\ live' = live \cup {Head(arrived)}
    /\ flags' = flags \cup {Head(arrived)}
    /\ UNCHANGED <<opVars, negotiationVars, controlVars, over>>

Side(s) ==
    \/ GiveUp(s) \/ Apply(s) \/ TakeOffer(s) \/ TakeAnswer(s) \/ TakeEnded(s) \/ TakeData(s)
    \/ TakeGoodbye(s) \/ Say(s) \/ Hear(s) \/ Leave(s) \/ Close(s)
    \/ \E k \in Tracks[s] : Attach(s, k) \/ Detach(s, k) \/ Offer(s, k) \/ OfferFails(s, k)

Next == NextRemoteTrack \/ \E s \in Sides : Side(s)

Spec == Init /\ [][Next]_vars

\* A renegotiation that may proceed does, and its timer fires; nobody has to
\* answer, attach, talk or close.
Fairness ==
    \A s \in Sides :
        /\ WF_vars(GiveUp(s) \/ Apply(s))
        /\ \A k \in Tracks[s] : WF_vars(Offer(s, k) \/ OfferFails(s, k))


-----------------------------------------------------------------------------
\* The doc of renegotiate: "Sends a fresh offer over the control channel and
\* applies the client's answer."  The answer applied is the one to that offer
\* as long as none was given up: after that each may get the one before.
AnswersMatch == crossed => gaveUp # {}

\* "Items that arrived before the end are still delivered first." (until_closed):
\* whoever is told the end has heard all that was said before the goodbye.
EndIsLast ==
    \A s \in Sides : left[s] /\ lastWord[s] = -1 => heard[s] = lastWord[Peer(s)]

\* What an open session's connection sends is what the session has recorded or is
\* attaching; only an attach whose renegotiation was given up leaves a track behind.
SendersAreKnown ==
    \A s \in Sides : \A t \in senders[s] :
        \/ closed[s] \/ t \in recorded[s] \/ t.n \in gaveUp
        \/ op[s][t.kind] = [what |-> "attach", n |-> t.n]

\* Every attach and detach returns, when offers collide and when the session ends
\* under it: with no more of them begun, all sides come to rest.
Idle == \A s \in Sides : \A k \in Tracks[s] : op[s][k] = NoOp

OperationsReturn == Fairness => ~ Idle ~> Idle

\* Renegotiations one after another (transport lib.rs): each answer meets its offer,
\* what is sent is what is recorded, and the end comes after the last word.
SessionInOrder == TypeOK /\ AnswersMatch /\ SendersAreKnown /\ EndIsLast
=============================================================================
