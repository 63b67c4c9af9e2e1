------------------------------- MODULE GameHost -------------------------------
(* A GameStream host's launches and streams, and the client of each            *)
(* (src/gamestream/src/server.rs, stream.rs, control.rs, session.rs,           *)
(* windows.rs), with the compatibility mode that decides which windows are     *)
(* apps (compat.rs there and in src/host-core).                                *)
(*                                                                             *)
(* /launch and /resume make a launch, /cancel stops it. The client's ANNOUNCE  *)
(* starts the stream's thread, which needs three fixed ports: video is its     *)
(* own, audio belongs to a thread that ends only when the launch is stopped or *)
(* the sound ends, control to a thread that ends with the stream or the        *)
(* client. RTSP names no launch: every request is for the one that is current  *)
(* when it is accepted.                                                        *)
EXTENDS Naturals, FiniteSets

CONSTANTS MaxLaunches,       \* bound: launches and resumes
          CompatWindows,     \* windows, each an app
          CompatOwners,      \* who may turn compatibility mode on: the host, sessions
          MaxCompatTurns     \* bound: how often it is turned on or off

Launches == 1 .. MaxLaunches
NoLaunch == 0

VARIABLES
    \* host: GameStreamServer.launch and the Launch records
    current,      \* the current launch, or NoLaunch
    launches,     \* [Launches -> [app, made, stop, streaming]]
    \* the threads of a launch's stream
    thread,       \* [Launches -> what its run thread is at]
    listening,    \* launches whose control events are listened to
    gone,         \* launches whose stream has seen its client leave, or its picture end
    videoPort, audioPort,   \* the launch whose thread has it, or NoLaunch
    control,      \* [launch, client, sender]: the control thread, NoControl when none
    \* the clients, named by the launch that /launch or /resume gave them
    viewer,       \* [Launches -> [at, ping, data]]
    \* compatibility mode
    owners,       \* [CompatWindows -> SUBSET CompatOwners]: on while not empty
    turns

gameVars == <<current, launches, thread, listening, gone, videoPort, audioPort, control,
              viewer, owners, turns>>
hostVars == <<thread, listening, gone, videoPort, audioPort, control>>

NotMade == [app |-> "none", made |-> FALSE, stop |-> FALSE, streaming |-> FALSE]
NoControl == [launch |-> NoLaunch, client |-> NoLaunch, sender |-> FALSE]
NoViewer == [at |-> "none", ping |-> NoLaunch, data |-> NoLaunch]

GameInit ==
    /\ current = NoLaunch /\ launches = [l \in Launches |-> NotMade]
    /\ thread = [l \in Launches |-> "none"] /\ listening = {} /\ gone = {}
    /\ videoPort = NoLaunch /\ audioPort = NoLaunch /\ control = NoControl
    /\ viewer = [l \in Launches |-> NoViewer]
    /\ owners = [w \in CompatWindows |-> {}] /\ turns = 0

Running == current # NoLaunch /\ ~launches[current].stop
Shows(w) == owners[w] # {}
-----------------------------------------------------------------------------
(* Compatibility mode: on for a window while somebody holds it.                *)

TurnOn(w, o) ==
    /\ turns < MaxCompatTurns /\ o \notin owners[w]
    /\ owners' = [owners EXCEPT ![w] = @ \union {o}]
    /\ turns' = turns + 1
    /\ UNCHANGED <<current, launches, viewer, hostVars>>

TurnOff(w, o) ==
    /\ turns < MaxCompatTurns /\ o \in owners[w]
    /\ owners' = [owners EXCEPT ![w] = @ \ {o}]
    /\ turns' = turns + 1
    /\ UNCHANGED <<current, launches, viewer, hostVars>>

CompatSessionEnded(o) ==
    /\ turns < MaxCompatTurns /\ o # "host" /\ \E w \in CompatWindows : o \in owners[w]
    /\ owners' = [w \in CompatWindows |-> owners[w] \ {o}]
    /\ turns' = turns + 1
    /\ UNCHANGED <<current, launches, viewer, hostVars>>
-----------------------------------------------------------------------------
(* The HTTPS requests of a paired client.                                      *)

\* A launch takes the place of the current one, which is told to stop.
Launched(app) ==
    \E l \in Launches :
        /\ ~launches[l].made /\ \A k \in 1 .. l - 1 : launches[k].made
        /\ launches' = [k \in Launches |->
               CASE k = l -> [NotMade EXCEPT !.app = app, !.made = TRUE]
                 [] k = current -> [launches[k] EXCEPT !.stop = TRUE]
                 [] OTHER -> launches[k]]
        /\ current' = l
        /\ viewer' = [viewer EXCEPT ![l].at = "setup"]

\* GameStreamClient::stream: /launch, refused while one runs.
Launch(w) ==
    /\ ~Running /\ Shows(w)
    /\ Launched(w)
    /\ UNCHANGED <<owners, turns, hostVars>>

Resume ==
    /\ Running
    /\ Launched(launches[current].app)
    /\ UNCHANGED <<owners, turns, hostVars>>

Cancel ==
    /\ current # NoLaunch
    /\ launches' = [launches EXCEPT ![current].stop = TRUE]
    /\ current' = NoLaunch
    /\ UNCHANGED <<viewer, owners, turns, hostVars>>
-----------------------------------------------------------------------------
(* The client sets its stream up over RTSP. Any refusal ends it.               *)

ViewerAt(l, at) == viewer' = [viewer EXCEPT ![l].at = at]

\* OPTIONS, DESCRIBE and SETUP of audio and video: the ping payload.
SetupVideo(l) ==
    /\ viewer[l].at = "setup"
    /\ IF current = NoLaunch THEN ViewerAt(l, "ended")
       ELSE viewer' = [viewer EXCEPT ![l] = [at |-> "control", ping |-> current, data |-> NoLaunch]]
    /\ UNCHANGED <<current, launches, owners, turns, hostVars>>

\* SETUP of control: what to connect with.
SetupControl(l) ==
    /\ viewer[l].at = "control"
    /\ IF current = NoLaunch THEN ViewerAt(l, "ended")
       ELSE viewer' = [viewer EXCEPT ![l].at = "announce", ![l].data = current]
    /\ UNCHANGED <<current, launches, owners, turns, hostVars>>

\* ANNOUNCE starts the stream's thread, unless the launch has one; it is
\* answered before the thread knows whether it can stream.
Announce(l) ==
    /\ viewer[l].at = "announce"
    /\ IF current = NoLaunch
       THEN ViewerAt(l, "ended") /\ UNCHANGED <<launches, thread>>
       ELSE /\ ViewerAt(l, "connecting")
            /\ launches' = [launches EXCEPT ![current].streaming = TRUE]
            /\ thread' = IF launches[current].streaming THEN thread
                         ELSE [thread EXCEPT ![current] = "start"]
    /\ UNCHANGED <<current, listening, gone, videoPort, audioPort, control, owners, turns>>
-----------------------------------------------------------------------------
(* The stream's thread on the host (stream.rs run).                            *)

\* It returns: its video port and its end of the control stream go with it.
Returns(l) ==
    /\ thread' = [thread EXCEPT ![l] = "none"]
    /\ launches' = [launches EXCEPT ![l].streaming = FALSE]
    /\ videoPort' = IF videoPort = l THEN NoLaunch ELSE videoPort

SenderDropped(l) ==
    control' = IF control.launch = l THEN [control EXCEPT !.sender = FALSE] ELSE control

\* The ports, in this order; one that is taken ends the thread. The audio
\* thread has its port by the time the control port fails.
Binds(l) ==
    /\ thread[l] = "start"
    /\ IF videoPort # NoLaunch \/ audioPort # NoLaunch
       THEN Returns(l) /\ UNCHANGED <<audioPort, control, gone>>
       ELSE /\ audioPort' = l
            /\ IF control # NoControl
               THEN Returns(l) /\ UNCHANGED <<control, gone>>
               ELSE /\ videoPort' = l /\ gone' = gone \ {l}
                    /\ control' = [launch |-> l, client |-> NoLaunch, sender |-> TRUE]
                    /\ thread' = [thread EXCEPT ![l] = "ping"]
                    /\ UNCHANGED launches
    /\ UNCHANGED <<current, listening, viewer, owners, turns>>

\* No ping within fifteen seconds, or the launch was stopped before one.
NeverPinged(l) ==
    /\ thread[l] = "ping"
    /\ Returns(l) /\ SenderDropped(l)
    /\ UNCHANGED <<current, listening, gone, audioPort, viewer, owners, turns>>

\* A client's ping says where to send. The window must still be in
\* compatibility mode, and there.
Pinged(l) ==
    /\ thread[l] = "ping" /\ ~launches[l].stop
    /\ \E c \in Launches : viewer[c].ping = l /\ viewer[c].at \in {"connecting", "on"}
    /\ \/ /\ Shows(launches[l].app)
          /\ thread' = [thread EXCEPT ![l] = "stream"]
          /\ listening' = listening \union {l}
          /\ UNCHANGED <<launches, videoPort, control>>
       \/ Returns(l) /\ SenderDropped(l) /\ UNCHANGED listening
    /\ UNCHANGED <<current, gone, audioPort, viewer, owners, turns>>

\* The next frame is sent: nothing here changes. The picture may have ended,
\* which the listener sees, and ends.
PictureEnds(l) ==
    /\ thread[l] = "stream" /\ ~launches[l].stop /\ l \notin gone
    /\ gone' = gone \union {l} /\ listening' = listening \ {l}
    /\ Returns(l) /\ SenderDropped(l)
    /\ UNCHANGED <<current, audioPort, viewer, owners, turns>>

SeesStop(l) ==
    /\ thread[l] = "stream" /\ launches[l].stop
    /\ thread' = [thread EXCEPT ![l] = "join"]
    /\ UNCHANGED <<current, launches, listening, gone, videoPort, audioPort, control, viewer, owners, turns>>

\* TERMINATION has been sent; the listener and the audio thread are waited for.
Joined(l) ==
    /\ thread[l] = "join" /\ l \notin listening /\ audioPort # l
    /\ Returns(l) /\ SenderDropped(l)
    /\ UNCHANGED <<current, listening, gone, audioPort, viewer, owners, turns>>

SeesLeft(l) ==
    /\ thread[l] = "stream" /\ ~launches[l].stop /\ l \in gone
    /\ Returns(l) /\ SenderDropped(l)
    /\ UNCHANGED <<current, listening, gone, audioPort, viewer, owners, turns>>

\* The control thread is over when its client has gone.
ListenerEnds(l) ==
    /\ l \in listening
    /\ launches[l].stop \/ l \in gone \/ control.launch # l
    /\ listening' = listening \ {l} /\ gone' = gone \union {l}
    /\ UNCHANGED <<current, launches, thread, videoPort, audioPort, control, viewer, owners, turns>>

\* The audio thread polls stop; its sound may end on its own.
AudioOutlives(l) == audioPort = l /\ launches[l].stop /\ thread[l] = "join"

AudioStops(l) == audioPort = l /\ launches[l].stop

AudioEnds(l) ==
    /\ AudioStops(l)
    /\ audioPort' = NoLaunch
    /\ UNCHANGED <<current, launches, thread, listening, gone, videoPort, control, viewer, owners, turns>>

SoundEnds(l) ==
    /\ audioPort = l /\ ~launches[l].stop
    /\ audioPort' = NoLaunch
    /\ UNCHANGED <<current, launches, thread, listening, gone, videoPort, control, viewer, owners, turns>>
-----------------------------------------------------------------------------
(* The control stream (control.rs run), at both ends.                          *)

\* The host lets in the first client that has this launch's connect data, and
\* turns any other away.
Connects(l) ==
    /\ viewer[l].at = "connecting" /\ control.launch # NoLaunch
    /\ IF control.sender /\ viewer[l].data = control.launch /\ control.client = NoLaunch
       THEN control' = [control EXCEPT !.client = l] /\ ViewerAt(l, "on")
       ELSE ViewerAt(l, "ended") /\ UNCHANGED control
    /\ UNCHANGED <<current, launches, thread, listening, gone, videoPort, audioPort, owners, turns>>

\* Nobody answers for ten seconds.
ConnectTimesOut(l) ==
    /\ viewer[l].at = "connecting"
    /\ ViewerAt(l, "ended")
    /\ UNCHANGED <<current, launches, owners, turns, hostVars>>

\* The host's end is dropped: the client is told and the thread is over.
ControlCloses ==
    /\ control # NoControl /\ ~control.sender
    /\ control' = NoControl
    /\ viewer' = [l \in Launches |-> IF control.client = l /\ viewer[l].at = "on"
                                     THEN [viewer[l] EXCEPT !.at = "ended"] ELSE viewer[l]]
    /\ UNCHANGED <<current, launches, thread, listening, gone, videoPort, audioPort, owners, turns>>

\* A client drops its stream, or is lost and times out.
ViewerLeaves(l) ==
    /\ viewer[l].at \in {"connecting", "on"}
    /\ ViewerAt(l, "ended")
    /\ control' = IF control.client = l THEN NoControl ELSE control
    /\ UNCHANGED <<current, launches, thread, listening, gone, videoPort, audioPort, owners, turns>>

GameNext ==
    \/ \E w \in CompatWindows : Launch(w) \/ \E o \in CompatOwners : TurnOn(w, o) \/ TurnOff(w, o)
    \/ \E o \in CompatOwners : CompatSessionEnded(o)
    \/ Resume \/ Cancel \/ ControlCloses
    \/ \E l \in Launches :
          \/ SetupVideo(l) \/ SetupControl(l) \/ Announce(l)
          \/ Binds(l) \/ NeverPinged(l) \/ Pinged(l) \/ PictureEnds(l) \/ SeesStop(l) \/ Joined(l)
          \/ SeesLeft(l) \/ ListenerEnds(l) \/ AudioEnds(l) \/ SoundEnds(l)
          \/ Connects(l) \/ ConnectTimesOut(l) \/ ViewerLeaves(l)

\* The host's threads poll their flags and their sockets have timeouts; the
\* control thread and a client that connects run on timers of their own.
GameFairness ==
    \A l \in Launches :
        /\ WF_gameVars(Binds(l)) /\ WF_gameVars(NeverPinged(l)) /\ WF_gameVars(SeesStop(l))
        /\ WF_gameVars(Joined(l)) /\ WF_gameVars(SeesLeft(l)) /\ WF_gameVars(ListenerEnds(l))
        /\ WF_gameVars(AudioEnds(l)) /\ WF_gameVars(ConnectTimesOut(l)) /\ WF_gameVars(ControlCloses)

GameSpec == GameInit /\ [][GameNext]_gameVars
-----------------------------------------------------------------------------
(* A launch that is stopped, by /cancel or by a /resume in its place, lets go  *)
(* of every port, however far its stream had come and however often it was     *)
(* announced, and the client on its control stream learns of the end; so the   *)
(* next launch can stream.                                                     *)
StoppedLaunchEnds == GameFairness =>
    \A l \in Launches :
        launches[l].stop ~> /\ l \notin {videoPort, audioPort, control.launch}
                            /\ ~launches[l].streaming

-----------------------------------------------------------------------------
(* GameStream pairing (src/gamestream/src/pairing.rs, server.rs, client.rs).   *)
(* A device that pairs makes a PIN and shows it; the person types it at the    *)
(* host; four requests over plain HTTP prove to each side that the other has   *)
(* the same PIN, and the host then pins the device's certificate. The host     *)
(* keeps what it has of an exchange under the id the device names itself by,   *)
(* and devices may well use the same id: Moonlight's is a constant.            *)
(*                                                                             *)
(* Cryptography is symbolic. A key is the salt (one per call, so the call      *)
(* itself stands for it) and the PIN; what is sealed under one key and opened  *)
(* with another is Garbage; challenges and secrets are random, and so named    *)
(* by the exchange or call that made them.                                     *)

CONSTANTS GameClients,     \* devices, each with its certificate
          UniqueIdOf,      \* [GameClients -> the id it gives]
          GamePins,        \* PINs
          MaxPairCalls     \* bound: how often devices pair

ASSUME GamePairingAssumption == MaxPairCalls \in Nat

PairCalls == 1 .. MaxPairCalls
UniqueIds == {UniqueIdOf[d] : d \in GameClients}
Garbage == 0        \* no call has this number

VARIABLES
    \* client: what each call of `pair` is at
    pairCall,      \* [PairCalls -> [dev, pin, at, proof, challenge]]
    \* requests on their way to the host, and answers on their way back
    pairRequests,  \* SUBSET (PairCalls \X STRING)
    pairAnswers,   \* set of [call, ok, secret]
    \* host
    pendingPair,   \* [UniqueIds -> the exchange with this id, or NoExchange]
    heldPair,      \* calls whose getservercert is held for the PIN
    pairedCerts    \* {[cert, pin]}: pinned certificates, with the PIN typed for them

gamePairVars == <<pairCall, pairRequests, pairAnswers, pendingPair, heldPair, pairedCerts>>

NoCall == [dev |-> "none", pin |-> "none", at |-> "off", proof |-> Garbage, challenge |-> Garbage]
NoExchange == [call |-> Garbage, cert |-> "none", phase |-> "none", pin |-> "none", hash |-> <<>>]

GamePairInit ==
    /\ pairCall = [n \in PairCalls |-> NoCall]
    /\ pairRequests = {} /\ pairAnswers = {}
    /\ pendingPair = [u \in UniqueIds |-> NoExchange]
    /\ heldPair = {} /\ pairedCerts = {}

IdOf(n) == UniqueIdOf[pairCall[n].dev]
KeyOf(n) == <<n, pairCall[n].pin>>

PairAnswer(n, ok, proof, secret, challenge) ==
    [call |-> n, ok |-> ok, proof |-> proof, secret |-> secret, challenge |-> challenge]
PairingRefused(n) == PairAnswer(n, FALSE, Garbage, Garbage, Garbage)
-----------------------------------------------------------------------------
(* The client. Every request waits for its answer; a request that times out    *)
(* ends the call, and the host may still come to it.                           *)

StartPairing(n, d, pin) ==
    /\ pairCall[n].at = "off" /\ \A m \in 1 .. n - 1 : pairCall[m].at # "off"
    /\ \A m \in PairCalls : pairCall[m].dev = d => pairCall[m].at \in {"paired", "failed"}
    /\ pairCall' = [pairCall EXCEPT ![n] = [NoCall EXCEPT !.dev = d, !.pin = pin, !.at = "getservercert"]]
    /\ pairRequests' = pairRequests \union {<<n, "getservercert">>}
    /\ UNCHANGED <<pairAnswers, pendingPair, heldPair, pairedCerts>>

\* The call goes on with the next request.
Asks(n, phase, call) ==
    /\ pairCall' = [pairCall EXCEPT ![n] = [call EXCEPT !.at = phase]]
    /\ pairRequests' = pairRequests \union {<<n, phase>>}

\* The call ends, after the host has been told to forget it.
Unpairs(n) ==
    /\ pairCall' = [pairCall EXCEPT ![n].at = "failed"]
    /\ pairRequests' = pairRequests \union {<<n, "unpair">>}

\* The host's certificate came: the PIN was typed. Challenge the host with it.
TakeCertificate(n, a) ==
    IF a.ok THEN Asks(n, "clientchallenge", pairCall[n])
    ELSE pairCall' = [pairCall EXCEPT ![n].at = "failed"] /\ UNCHANGED pairRequests

\* What the host proves is looked at only with its secret, one answer later.
TakeChallenge(n, a) ==
    IF a.ok THEN Asks(n, "serverchallengeresp",
                      [pairCall[n] EXCEPT !.proof = a.proof, !.challenge = a.challenge])
    ELSE Unpairs(n)

TakeSecret(n, a) ==
    IF a.ok /\ a.secret = pairCall[n].proof THEN Asks(n, "clientpairingsecret", pairCall[n])
    ELSE Unpairs(n)

TakePaired(n, a) ==
    IF a.ok THEN Asks(n, "pairchallenge", pairCall[n]) ELSE Unpairs(n)

TakeChecked(n, a) ==
    IF a.ok THEN pairCall' = [pairCall EXCEPT ![n].at = "paired"] /\ UNCHANGED pairRequests
    ELSE Unpairs(n)

TakePairAnswer(a) ==
    /\ a \in pairAnswers
    /\ pairAnswers' = pairAnswers \ {a}
    /\ CASE pairCall[a.call].at = "getservercert" -> TakeCertificate(a.call, a)
         [] pairCall[a.call].at = "clientchallenge" -> TakeChallenge(a.call, a)
         [] pairCall[a.call].at = "serverchallengeresp" -> TakeSecret(a.call, a)
         [] pairCall[a.call].at = "clientpairingsecret" -> TakePaired(a.call, a)
         [] pairCall[a.call].at = "pairchallenge" -> TakeChecked(a.call, a)
         [] OTHER -> UNCHANGED <<pairCall, pairRequests>>
    /\ UNCHANGED <<pendingPair, heldPair, pairedCerts>>

\* The answer does not come in time, or the connection fails.
PairTimesOut(n) ==
    /\ pairCall[n].at \notin {"off", "paired", "failed"}
    /\ pairCall' = [pairCall EXCEPT ![n].at = "failed"]
    /\ pairAnswers' = {a \in pairAnswers : a.call # n}
    /\ UNCHANGED <<pairRequests, pendingPair, heldPair, pairedCerts>>
-----------------------------------------------------------------------------
(* The host.                                                                   *)

\* An answer is of use only to a call that still waits for it.
Answers(a) ==
    pairAnswers' = IF pairCall[a.call].at \in {"paired", "failed"} THEN pairAnswers
                   ELSE pairAnswers \union {a}

Forgotten(u) == [pendingPair EXCEPT ![u] = NoExchange]

\* A new exchange takes the place of one with the same id, unless that one
\* waits for its PIN.
GetServerCert(n) ==
    /\ <<n, "getservercert">> \in pairRequests
    /\ pairRequests' = pairRequests \ {<<n, "getservercert">>}
    /\ IF pendingPair[IdOf(n)].phase = "WaitingForPin"
       THEN Answers(PairingRefused(n)) /\ UNCHANGED <<pendingPair, heldPair>>
       ELSE /\ pendingPair' = [pendingPair EXCEPT ![IdOf(n)] =
                   [call |-> n, cert |-> pairCall[n].dev, phase |-> "WaitingForPin",
                    pin |-> "none", hash |-> <<>>]]
            /\ heldPair' = heldPair \union {n}
            /\ UNCHANGED pairAnswers
    /\ UNCHANGED <<pairCall, pairedCerts>>

\* The person types a PIN; it goes to one of those that wait, by its name if
\* the host says which.
EnterPin(u, pin) ==
    /\ pendingPair[u].phase = "WaitingForPin"
    /\ pendingPair' = [pendingPair EXCEPT ![u].phase = "ServerCert", ![u].pin = pin]
    /\ Answers(PairAnswer(pendingPair[u].call, TRUE, Garbage, Garbage, Garbage))
    /\ heldPair' = heldPair \ {pendingPair[u].call}
    /\ UNCHANGED <<pairCall, pairRequests, pairedCerts>>

\* Nobody typed it, or the exchange was removed meanwhile: the held request is
\* closed and whatever has its id now is removed.
HeldIsClosed(n) ==
    /\ n \in heldPair
    /\ heldPair' = heldPair \ {n}
    /\ pendingPair' = Forgotten(IdOf(n))
    /\ UNCHANGED <<pairCall, pairRequests, pairAnswers, pairedCerts>>

HostKey(p) == <<p.call, p.pin>>

\* The exchange goes on, or fails and is removed.
Advances(n, p, a) ==
    /\ pendingPair' = [pendingPair EXCEPT ![IdOf(n)] = p]
    /\ Answers(a) /\ UNCHANGED pairedCerts

PairingFails(n) ==
    /\ pendingPair' = Forgotten(IdOf(n))
    /\ Answers(PairingRefused(n)) /\ UNCHANGED pairedCerts

ClientChallenge(n, p) ==
    IF p.phase # "ServerCert" THEN PairingFails(n)
    ELSE LET same == HostKey(p) = KeyOf(n)
         IN Advances(n, [p EXCEPT !.phase = "ClientChallenge"],
                     PairAnswer(n, TRUE, IF same THEN p.call ELSE Garbage, Garbage,
                                IF same THEN p.call ELSE Garbage))

ServerChallengeResp(n, p) ==
    IF p.phase # "ClientChallenge" THEN PairingFails(n)
    ELSE Advances(n, [p EXCEPT !.phase = "ServerChallengeResponse",
                               !.hash = IF HostKey(p) = KeyOf(n)
                                        THEN <<pairCall[n].challenge, n>> ELSE <<>>],
                  PairAnswer(n, TRUE, Garbage, p.call, Garbage))

\* The hash is of this exchange's challenge and the secret now shown, and the
\* secret is signed by the certificate the exchange began with.
SecretMatches(n, p) == p.hash = <<p.call, n>> /\ pairCall[n].dev = p.cert

ClientPairingSecret(n, p) ==
    IF p.phase # "ServerChallengeResponse" THEN PairingFails(n)
    ELSE /\ pendingPair' = Forgotten(IdOf(n))
         /\ Answers([PairingRefused(n) EXCEPT !.ok = SecretMatches(n, p)])
         /\ pairedCerts' = IF SecretMatches(n, p)
                           THEN pairedCerts \union {[cert |-> p.cert, pin |-> p.pin, shown |-> pairCall[p.call].pin]}
                           ELSE pairedCerts

PairStep(n, phase) ==
    /\ <<n, phase>> \in pairRequests
    /\ pairRequests' = pairRequests \ {<<n, phase>>}
    /\ LET p == pendingPair[IdOf(n)]
       IN CASE p = NoExchange -> Answers(PairingRefused(n)) /\ UNCHANGED <<pendingPair, pairedCerts>>
            [] p.phase = "WaitingForPin" -> PairingFails(n)
            [] p.phase \notin {"none", "WaitingForPin"} ->
               CASE phase = "clientchallenge" -> ClientChallenge(n, p)
                 [] phase = "serverchallengeresp" -> ServerChallengeResp(n, p)
                 [] phase = "clientpairingsecret" -> ClientPairingSecret(n, p)
                 [] phase = "unpair" -> PairingFails(n)
    /\ UNCHANGED <<pairCall, heldPair>>

\* Over HTTPS, where the connection shows the device's certificate.
PairChallenge(n) ==
    /\ <<n, "pairchallenge">> \in pairRequests
    /\ pairRequests' = pairRequests \ {<<n, "pairchallenge">>}
    /\ Answers([PairingRefused(n) EXCEPT !.ok = \E c \in pairedCerts : c.cert = pairCall[n].dev])
    /\ UNCHANGED <<pairCall, pendingPair, heldPair, pairedCerts>>

GamePairNext ==
    \/ \E n \in PairCalls, d \in GameClients, pin \in GamePins : StartPairing(n, d, pin)
    \/ \E a \in pairAnswers : TakePairAnswer(a)
    \/ \E n \in PairCalls :
          \/ PairTimesOut(n) \/ GetServerCert(n) \/ HeldIsClosed(n) \/ PairChallenge(n)
          \/ \E phase \in {"clientchallenge", "serverchallengeresp", "clientpairingsecret", "unpair"} :
                PairStep(n, phase)
    \/ \E u \in UniqueIds, pin \in GamePins : EnterPin(u, pin)

GamePairSpec == GamePairInit /\ [][GamePairNext]_gamePairVars
-----------------------------------------------------------------------------
(* Whatever devices pair at the same time, under the same id or not, and       *)
(* whichever of their requests come late, the host pins a certificate only     *)
(* when the PIN typed for its exchange is the one that device shows            *)
(* (HostPairing::step, server.rs pair).                                        *)
PinnedByItsPin == \A c \in pairedCerts : c.pin = c.shown

(* A GameStream host with several devices at a time (server.rs, stream.rs):    *)
(* only the device whose PIN was typed is pinned, and a launch that is stopped *)
(* lets go of the ports and the window.                                        *)
DevicesKeptApart == []PinnedByItsPin /\ StoppedLaunchEnds
=============================================================================
