----------------------------- MODULE CarrierProofs -----------------------------
(***************************************************************************)
(* Proofs about one window's carriers, end to end (WindowCarriers), for     *)
(* every set of carriers and any number of starts and switches: whatever    *)
(* the session loop, the frame threads, the timers and the user do, while   *)
(* it is calm, host and client come to rest with the same carrier.          *)
(*                                                                         *)
(* The invariant says where a generation may be: asked for on the way to    *)
(* the host, being started there, answered on the way back, logging in, or  *)
(* up.  A step moves one message, so there are lemmas for what is under way *)
(* once a message is sent or taken; then one lemma for each action.         *)
(***************************************************************************)
EXTENDS WindowCarriers, SequenceTheorems, TLAPS

-----------------------------------------------------------------------------
(* One window's carriers.  What is under way in a queue, by classes of      *)
(* messages, and in which order.                                            *)

Has(q, A) == \E i \in DOMAIN q : q[i] \in A
Ahead(q, A, B) == \E i, j \in DOMAIN q : i < j /\ q[i] \in A /\ q[j] \in B

Starts(g) == {StartRequest(g, k) : k \in Kinds}
Yes(g) == {StartResponse(g, k, TRUE) : k \in Kinds}
No(g) == {StartResponse(g, k, FALSE) : k \in Kinds}
Answers(g) == Yes(g) \cup No(g)

\* On the way to the host.
Asks(g) == Has(toHost, Starts(g))
AskedAs(g, k) == Has(toHost, {StartRequest(g, k)})
StopComing == Has(toHost, {StopRequest})
Doomed(g) == Has(toHost, {CarrierStop(g)})
AsksTwice(g) == Ahead(toHost, Starts(g), Starts(g))
StopThenStart(g) == Ahead(toHost, {StopRequest}, Starts(g))
StartThenStop(g) == Ahead(toHost, Starts(g), {StopRequest})

\* At the host.
Starting(g) == serving.at \in {"open", "sound", "answer"} /\ serving.gen = g
Stopping == serving.at \in {"endSound", "endTrack", "endTell"}
Runs(g) == \E r \in running : r.gen = g

\* On the way back.
Granted(g) == Has(toClient, Yes(g))
GrantedAs(g, k) == Has(toClient, {StartResponse(g, k, TRUE)})
Denied(g) == Has(toClient, No(g))
Told(g) == Granted(g) \/ Denied(g)
EndComing == Has(toClient, {StreamStopped})
ToldTwice(g) == Ahead(toClient, Answers(g), Answers(g))
EndThenAnswer(g) == Ahead(toClient, {StreamStopped}, Answers(g))
AnswerThenEnd(g) == Ahead(toClient, Answers(g), {StreamStopped})

\* At the client.
LogsIn(g) == g \in logins
Shows(g) == \E s \in shown : s.gen = g

\* The host's last stream has ended, which the client may not have heard.
Ended == Stopping \/ EndComing

\* A stop of the window gets to the host, or its end to the client, before the
\* start g does.
StopAhead(g) ==
    \/ StopThenStart(g)
    \/ Asks(g) /\ Ended
    \/ Starting(g) /\ EndComing
    \/ EndThenAnswer(g)

-----------------------------------------------------------------------------
(* Whatever happens.                                                        *)
Served ==
    /\ serving.at \in {"open", "sound", "answer"} => serving.gen \in Gens
    /\ Stopping => running = {}
    /\ \A r, s \in running : r.gen = s.gen => r = s

\* Only RDP carriers log in.
LoginsFit == logins # {} => "Rdp" \in Kinds

BaseInv == CarrierTypeOK /\ Served /\ LoginsFit /\ OneCarrierPerBackend /\ FeedsAccountedFor

-----------------------------------------------------------------------------
(* In calm.                                                                 *)

FeedsRun == \A f \in feeds : f.at = "run"

OneShown ==
    /\ \A a, b \in shown : a = b
    /\ \A a, b \in next : a = b
    /\ shown = {} => next = {}
    /\ up => next # {}

\* No generation in use is newer than the last one asked for.
InUse(g) ==
    \/ Asks(g) \/ Starting(g) \/ Told(g) \/ LogsIn(g) \/ Doomed(g)
    \/ Runs(g) \/ Shows(g) \/ Switching(g) \/ asked = g \/ g \in givenUp

Fresh == \A g \in Gens : InUse(g) => g <= gen

\* What is asked for is the app's start or the switch under way.
Owned ==
    \A g \in Gens :
        /\ Asks(g) \/ Starting(g) \/ Told(g) => asked = g \/ Switching(g)
        /\ LogsIn(g) => asked = g \/ Switching(g) \/ ~ Runs(g)

\* It is in one place, until it is answered, and runs only when it was started.
OnePlace ==
    \A g \in Gens :
        /\ ~ AsksTwice(g) /\ ~ ToldTwice(g)
        /\ Asks(g) => ~ Starting(g) /\ ~ Told(g) /\ ~ LogsIn(g) /\ ~ Runs(g)
        /\ Starting(g) => ~ Told(g) /\ ~ LogsIn(g) /\ ~ Runs(g)
        /\ Told(g) => ~ LogsIn(g)
        /\ up /\ Switching(g) => ~ Asks(g) /\ ~ Starting(g) /\ ~ Told(g) /\ ~ LogsIn(g)
        /\ asked = g => Asks(g) \/ Starting(g) \/ Told(g) \/ LogsIn(g)

\* A generation has one part at the client.
Apart ==
    \A g \in Gens :
        /\ Shows(g) => asked # g /\ ~ Switching(g)
        /\ asked = g => ~ Switching(g)
        /\ Doomed(g) \/ g \in givenUp => ~ Shows(g) /\ ~ Switching(g) /\ asked # g

\* A switch is never behind a stop, and a start of a window still shown always.
\* Once the stream has ended, what the client shows or waits for does not run,
\* and what runs is not behind the end.
StopsInTurn ==
    /\ \A g \in Gens : Switching(g) => ~ StopAhead(g)
    /\ \A g \in Gens : asked = g /\ shown # {} => StopAhead(g)
    /\ Ended => \A g \in Gens : Shows(g) \/ Switching(g) => ~ Runs(g)
    /\ \A g \in Gens : LogsIn(g) /\ Runs(g) => ~ EndComing
    /\ \A g \in Gens : Runs(g) => ~ AnswerThenEnd(g)

AnswersAreTrue ==
    \A g \in Gens :
        /\ Granted(g) => Runs(g) \/ Stopping \/ AnswerThenEnd(g)
        /\ Denied(g) => ~ Runs(g)

\* What is shown, or up, runs until the stream ends; what runs is known to the
\* client or will be stopped; and what will be stopped never runs alone.
Carried ==
    \A g \in Gens :
        /\ Shows(g) \/ (up /\ Switching(g)) => Runs(g) \/ Ended
        /\ Runs(g) => Shows(g) \/ Switching(g) \/ asked = g \/ Doomed(g) \/ StopComing
        /\ Doomed(g) /\ Runs(g) => \E h \in Gens : Shows(h) /\ Runs(h)

DetachKeeps == serving.at = "detach" => running # {}

\* A stop the user asked for is behind every start.
Unwanted ==
    ~ wanted =>
        /\ running # {} \/ serving.at \in {"open", "sound", "answer"} => StopComing
        /\ \A g \in Gens : Asks(g) => StartThenStop(g)

KindsAgree ==
    \A n \in next :
        /\ \A k \in Kinds : AskedAs(n.gen, k) \/ GrantedAs(n.gen, k) => (k = "Rdp" <=> n.kind = "Rdp")
        /\ Starting(n.gen) => (serving.kind = "Rdp" <=> n.kind = "Rdp")
        /\ LogsIn(n.gen) => n.kind = "Rdp"
        /\ \A s \in shown : s.kind = "Rdp" => n.kind # "Rdp"

\* The connection held is a shown carrier's, or one's that is up, and such a
\* carrier over RDP has it unless the window is being stopped.
RdpIsHeld ==
    /\ rdp # 0 =>
         \/ \E c \in shown : c.gen = rdp /\ c.kind = "Rdp"
         \/ up /\ \E c \in next : c.gen = rdp /\ c.kind = "Rdp"
    /\ \A c \in shown : c.kind = "Rdp" => rdp = c.gen \/ StopComing \/ Ended
    /\ up => \A c \in next : c.kind = "Rdp" => rdp = c.gen \/ StopComing \/ Ended

CalmInv ==
    /\ FeedsRun /\ OneShown /\ Fresh /\ Owned /\ OnePlace /\ Apart /\ StopsInTurn /\ AnswersAreTrue
    /\ Carried /\ DetachKeeps /\ Unwanted /\ KindsAgree /\ RdpIsHeld

\* A host that RDP may be asked of serves it.
RdpOffered == "Rdp" \in Kinds => "Rdp" \in Offered

IInv == BaseInv /\ (calm => CalmInv)

-----------------------------------------------------------------------------
(* Queues.                                                                  *)

LEMMA HasEmpty ==
    ASSUME NEW A, NEW B
    PROVE  ~ Has(<<>>, A) /\ ~ Ahead(<<>>, A, B)
BY DEF Has, Ahead

LEMMA AppendIsLast ==
    ASSUME NEW S, NEW q \in Seq(S), NEW m \in S
    PROVE  /\ DOMAIN q = 1 .. Len(q) /\ Len(q) \in Nat
           /\ DOMAIN Append(q, m) = 1 .. Len(q) + 1
           /\ \A i \in DOMAIN q : i < Len(q) + 1 /\ i \in DOMAIN Append(q, m) /\ Append(q, m)[i] = q[i]
           /\ Append(q, m)[Len(q) + 1] = m /\ Len(q) + 1 \in DOMAIN Append(q, m)
           /\ \A i \in DOMAIN Append(q, m) : i \in DOMAIN q \/ i = Len(q) + 1
<1> DEFINE a == Append(q, m)
<1>1. a \in Seq(S) /\ Len(a) = Len(q) + 1 /\ a[Len(q) + 1] = m
      /\ \A i \in 1 .. Len(q) : a[i] = q[i]
  BY AppendProperties
<1>2. DOMAIN q = 1 .. Len(q) /\ Len(q) \in Nat
  BY LenProperties
<1>3. DOMAIN a = 1 .. Len(q) + 1
  BY <1>1, LenProperties
<1> HIDE DEF a
<1>4. PICK n \in Nat : n = Len(q)
  BY <1>2
<1>5. \A i \in 1 .. n : i < n + 1 /\ i \in 1 .. n + 1 /\ a[i] = q[i]
  BY <1>1, <1>4
<1>6. n + 1 \in 1 .. n + 1 /\ \A i \in 1 .. n + 1 : i \in 1 .. n \/ i = n + 1
  OBVIOUS
<1> QED
  BY <1>1, <1>2, <1>3, <1>4, <1>5, <1>6 DEF a

LEMMA HasAppend ==
    ASSUME NEW S, NEW q \in Seq(S), NEW m \in S, NEW A
    PROVE  Has(Append(q, m), A) <=> Has(q, A) \/ m \in A
BY AppendIsLast DEF Has

LEMMA AheadAppend ==
    ASSUME NEW S, NEW q \in Seq(S), NEW m \in S, NEW A, NEW B
    PROVE  Ahead(Append(q, m), A, B) <=> Ahead(q, A, B) \/ (Has(q, A) /\ m \in B)
<1> DEFINE a == Append(q, m)
<1>1. PICK n : n = Len(q) + 1
  OBVIOUS
<1>2. /\ DOMAIN q = 1 .. Len(q) /\ Len(q) \in Nat
      /\ \A i \in DOMAIN q : i < n /\ i \in DOMAIN a /\ a[i] = q[i]
      /\ a[n] = m /\ n \in DOMAIN a
      /\ \A i \in DOMAIN a : i \in DOMAIN q \/ i = n
  BY <1>1, AppendIsLast
<1>3. ASSUME Ahead(q, A, B) PROVE Ahead(a, A, B)
  BY <1>2, <1>3 DEF Ahead
<1>4. ASSUME Has(q, A), m \in B PROVE Ahead(a, A, B)
  BY <1>2, <1>4 DEF Ahead, Has
<1>5. ASSUME Ahead(a, A, B) PROVE Ahead(q, A, B) \/ (Has(q, A) /\ m \in B)
  <2>1. PICK i \in DOMAIN a, j \in DOMAIN a : i < j /\ a[i] \in A /\ a[j] \in B
    BY <1>5 DEF Ahead
  <2>2. i \in DOMAIN q
    BY <2>1, <1>1, <1>2
  <2>3. CASE j \in DOMAIN q
    BY <2>1, <2>2, <2>3, <1>2 DEF Ahead
  <2>4. CASE j = n
    BY <2>1, <2>2, <2>4, <1>2 DEF Has
  <2> QED
    BY <2>3, <2>4, <1>2
<1> QED
  BY <1>3, <1>4, <1>5

LEMMA TailIsRest ==
    ASSUME NEW S, NEW q \in Seq(S), q # <<>>
    PROVE  /\ Tail(q) \in Seq(S) /\ Head(q) \in S
           /\ 1 \in DOMAIN q /\ q[1] = Head(q)
           /\ \A i \in DOMAIN Tail(q) : i \in Nat /\ i + 1 \in DOMAIN q /\ 1 < i + 1 /\ Tail(q)[i] = q[i + 1]
           /\ \A i \in DOMAIN q : i \in Nat /\ 1 <= i /\ (i # 1 => i - 1 \in DOMAIN Tail(q) /\ Tail(q)[i - 1] = q[i])
<1> DEFINE t == Tail(q)
<1>1. /\ t \in Seq(S) /\ Len(t) = Len(q) - 1 /\ Head(q) \in S
      /\ \A i \in 1 .. Len(t) : t[i] = q[i + 1]
  BY HeadTailProperties
<1>2. DOMAIN t = 1 .. Len(t) /\ DOMAIN q = 1 .. Len(q) /\ Len(q) \in Nat \ {0}
  BY <1>1, LenProperties, EmptySeq
<1>3. q[1] = Head(q)
  OBVIOUS
<1> HIDE DEF t
<1>4. PICK n \in Nat \ {0} : n = Len(q)
  BY <1>2
<1>5. \A i \in 1 .. n - 1 : i \in Nat /\ i + 1 \in 1 .. n /\ 1 < i + 1 /\ t[i] = q[i + 1]
  BY <1>1, <1>4
<1>6. \A i \in 1 .. n : i \in Nat /\ 1 <= i /\ (i # 1 => i - 1 \in 1 .. n - 1 /\ (i - 1) + 1 = i)
  OBVIOUS
<1>7. \A i \in 1 .. n : i # 1 => t[i - 1] = q[i]
  BY <1>5, <1>6
<1>8. DOMAIN t = 1 .. n - 1 /\ DOMAIN q = 1 .. n /\ 1 \in 1 .. n
  BY <1>1, <1>2, <1>4
<1> QED
  BY <1>1, <1>3, <1>5, <1>6, <1>7, <1>8 DEF t

LEMMA HasTail ==
    ASSUME NEW S, NEW q \in Seq(S), q # <<>>, NEW A
    PROVE  Has(q, A) <=> Has(Tail(q), A) \/ Head(q) \in A
<1>1. /\ 1 \in DOMAIN q /\ q[1] = Head(q)
      /\ \A i \in DOMAIN Tail(q) : i + 1 \in DOMAIN q /\ Tail(q)[i] = q[i + 1]
      /\ \A i \in DOMAIN q : i # 1 => i - 1 \in DOMAIN Tail(q) /\ Tail(q)[i - 1] = q[i]
  BY TailIsRest
<1> QED
  BY <1>1 DEF Has

LEMMA AheadTail ==
    ASSUME NEW S, NEW q \in Seq(S), q # <<>>, NEW A, NEW B
    PROVE  Ahead(q, A, B) <=> Ahead(Tail(q), A, B) \/ (Head(q) \in A /\ Has(Tail(q), B))
<1> DEFINE t == Tail(q)
<1>1. /\ 1 \in DOMAIN q /\ q[1] = Head(q)
      /\ \A i \in DOMAIN t : i \in Nat /\ i + 1 \in DOMAIN q /\ 1 < i + 1 /\ t[i] = q[i + 1]
      /\ \A i \in DOMAIN q : i \in Nat /\ 1 <= i /\ (i # 1 => i - 1 \in DOMAIN t /\ t[i - 1] = q[i])
  BY TailIsRest
<1> HIDE DEF t
<1>2. ASSUME Ahead(t, A, B) PROVE Ahead(q, A, B)
  <2>1. PICK i \in DOMAIN t, j \in DOMAIN t : i < j /\ t[i] \in A /\ t[j] \in B
    BY <1>2 DEF Ahead
  <2>2. i + 1 \in DOMAIN q /\ j + 1 \in DOMAIN q /\ i + 1 < j + 1 /\ q[i + 1] \in A /\ q[j + 1] \in B
    BY <2>1, <1>1
  <2> QED
    BY <2>2 DEF Ahead
<1>3. ASSUME Head(q) \in A, Has(t, B) PROVE Ahead(q, A, B)
  <2>1. PICK j \in DOMAIN t : t[j] \in B
    BY <1>3 DEF Has
  <2>2. j + 1 \in DOMAIN q /\ 1 < j + 1 /\ q[j + 1] \in B /\ q[1] \in A
    BY <2>1, <1>1, <1>3
  <2> QED
    BY <2>2, <1>1 DEF Ahead
<1>4. ASSUME Ahead(q, A, B) PROVE Ahead(t, A, B) \/ (Head(q) \in A /\ Has(t, B))
  <2>1. PICK i \in DOMAIN q, j \in DOMAIN q : i < j /\ q[i] \in A /\ q[j] \in B
    BY <1>4 DEF Ahead
  <2>2. i \in Nat /\ j \in Nat /\ j # 1 /\ j - 1 \in DOMAIN t /\ t[j - 1] = q[j]
    BY <2>1, <1>1
  <2>3. CASE i = 1
    BY <2>1, <2>2, <2>3, <1>1 DEF Has
  <2>4. CASE i # 1
    <3>1. i - 1 \in DOMAIN t /\ t[i - 1] = q[i] /\ i - 1 < j - 1
      BY <2>1, <2>2, <2>4, <1>1
    <3> QED
      BY <2>1, <2>2, <3>1 DEF Ahead
  <2> QED
    BY <2>3, <2>4
<1> QED
  BY <1>2, <1>3, <1>4 DEF t

-----------------------------------------------------------------------------
(* What sending and taking a message changes.                               *)

HostQueueSame ==
    /\ StopComing' <=> StopComing
    /\ \A g \in Gens :
         /\ Asks(g)' <=> Asks(g)
         /\ \A k \in Kinds : AskedAs(g, k)' <=> AskedAs(g, k)
         /\ Doomed(g)' <=> Doomed(g)
         /\ AsksTwice(g)' <=> AsksTwice(g)
         /\ StopThenStart(g)' <=> StopThenStart(g)
         /\ StartThenStop(g)' <=> StartThenStop(g)

StartSent(h, l) ==
    /\ StopComing' <=> StopComing
    /\ \A g \in Gens :
         /\ Asks(g)' <=> Asks(g) \/ g = h
         /\ \A k \in Kinds : AskedAs(g, k)' <=> AskedAs(g, k) \/ (g = h /\ k = l)
         /\ Doomed(g)' <=> Doomed(g)
         /\ AsksTwice(g)' <=> AsksTwice(g) \/ (Asks(g) /\ g = h)
         /\ StopThenStart(g)' <=> StopThenStart(g) \/ (StopComing /\ g = h)
         /\ StartThenStop(g)' <=> StartThenStop(g)

StopSent ==
    /\ StopComing'
    /\ \A g \in Gens :
         /\ Asks(g)' <=> Asks(g)
         /\ \A k \in Kinds : AskedAs(g, k)' <=> AskedAs(g, k)
         /\ Doomed(g)' <=> Doomed(g)
         /\ AsksTwice(g)' <=> AsksTwice(g)
         /\ StopThenStart(g)' <=> StopThenStart(g)
         /\ StartThenStop(g)' <=> StartThenStop(g) \/ Asks(g)

DoomSent(h) ==
    /\ StopComing' <=> StopComing
    /\ \A g \in Gens :
         /\ Asks(g)' <=> Asks(g)
         /\ \A k \in Kinds : AskedAs(g, k)' <=> AskedAs(g, k)
         /\ Doomed(g)' <=> Doomed(g) \/ g = h
         /\ AsksTwice(g)' <=> AsksTwice(g)
         /\ StopThenStart(g)' <=> StopThenStart(g)
         /\ StartThenStop(g)' <=> StartThenStop(g)

StartTaken(h, l) ==
    /\ StopComing' <=> StopComing
    /\ \A g \in Gens :
         /\ Asks(g) <=> Asks(g)' \/ g = h
         /\ \A k \in Kinds : AskedAs(g, k) <=> AskedAs(g, k)' \/ (g = h /\ k = l)
         /\ Doomed(g)' <=> Doomed(g)
         /\ AsksTwice(g) <=> AsksTwice(g)' \/ (g = h /\ Asks(g)')
         /\ StopThenStart(g)' <=> StopThenStart(g)
         /\ StartThenStop(g) <=> StartThenStop(g)' \/ (g = h /\ StopComing')

StopTaken ==
    /\ StopComing
    /\ \A g \in Gens :
         /\ Asks(g)' <=> Asks(g)
         /\ \A k \in Kinds : AskedAs(g, k)' <=> AskedAs(g, k)
         /\ Doomed(g)' <=> Doomed(g)
         /\ AsksTwice(g)' <=> AsksTwice(g)
         /\ StopThenStart(g) <=> StopThenStart(g)' \/ Asks(g)'
         /\ StartThenStop(g)' <=> StartThenStop(g)

DoomTaken(h) ==
    /\ StopComing' <=> StopComing
    /\ \A g \in Gens :
         /\ Asks(g)' <=> Asks(g)
         /\ \A k \in Kinds : AskedAs(g, k)' <=> AskedAs(g, k)
         /\ Doomed(g) <=> Doomed(g)' \/ g = h
         /\ AsksTwice(g)' <=> AsksTwice(g)
         /\ StopThenStart(g)' <=> StopThenStart(g)
         /\ StartThenStop(g)' <=> StartThenStop(g)

ClientQueueSame ==
    /\ EndComing' <=> EndComing
    /\ \A g \in Gens :
         /\ Granted(g)' <=> Granted(g)
         /\ Denied(g)' <=> Denied(g)
         /\ \A k \in Kinds : GrantedAs(g, k)' <=> GrantedAs(g, k)
         /\ ToldTwice(g)' <=> ToldTwice(g)
         /\ EndThenAnswer(g)' <=> EndThenAnswer(g)
         /\ AnswerThenEnd(g)' <=> AnswerThenEnd(g)

AnswerSent(h, l, ok) ==
    /\ EndComing' <=> EndComing
    /\ \A g \in Gens :
         /\ Granted(g)' <=> Granted(g) \/ (g = h /\ ok)
         /\ Denied(g)' <=> Denied(g) \/ (g = h /\ ~ ok)
         /\ \A k \in Kinds : GrantedAs(g, k)' <=> GrantedAs(g, k) \/ (g = h /\ k = l /\ ok)
         /\ ToldTwice(g)' <=> ToldTwice(g) \/ (Told(g) /\ g = h)
         /\ EndThenAnswer(g)' <=> EndThenAnswer(g) \/ (EndComing /\ g = h)
         /\ AnswerThenEnd(g)' <=> AnswerThenEnd(g)

EndSent ==
    /\ EndComing'
    /\ \A g \in Gens :
         /\ Granted(g)' <=> Granted(g)
         /\ Denied(g)' <=> Denied(g)
         /\ \A k \in Kinds : GrantedAs(g, k)' <=> GrantedAs(g, k)
         /\ ToldTwice(g)' <=> ToldTwice(g)
         /\ EndThenAnswer(g)' <=> EndThenAnswer(g)
         /\ AnswerThenEnd(g)' <=> AnswerThenEnd(g) \/ Told(g)

AnswerTaken(h, l, ok) ==
    /\ EndComing' <=> EndComing
    /\ \A g \in Gens :
         /\ Granted(g) <=> Granted(g)' \/ (g = h /\ ok)
         /\ Denied(g) <=> Denied(g)' \/ (g = h /\ ~ ok)
         /\ \A k \in Kinds : GrantedAs(g, k) <=> GrantedAs(g, k)' \/ (g = h /\ k = l /\ ok)
         /\ ToldTwice(g) <=> ToldTwice(g)' \/ (g = h /\ Told(g)')
         /\ EndThenAnswer(g)' <=> EndThenAnswer(g)
         /\ AnswerThenEnd(g) <=> AnswerThenEnd(g)' \/ (g = h /\ EndComing')

EndTaken ==
    /\ EndComing
    /\ \A g \in Gens :
         /\ Granted(g)' <=> Granted(g)
         /\ Denied(g)' <=> Denied(g)
         /\ \A k \in Kinds : GrantedAs(g, k)' <=> GrantedAs(g, k)
         /\ ToldTwice(g)' <=> ToldTwice(g)
         /\ EndThenAnswer(g) <=> EndThenAnswer(g)' \/ Told(g)'
         /\ AnswerThenEnd(g)' <=> AnswerThenEnd(g)

LEMMA NothingSent ==
    /\ UNCHANGED toHost => HostQueueSame
    /\ UNCHANGED toClient => ClientQueueSame
<1>1. ASSUME toHost' = toHost PROVE HostQueueSame
  BY <1>1 DEF HostQueueSame, Asks, AskedAs, StopComing, Doomed, AsksTwice, StopThenStart, StartThenStop
<1>2. ASSUME toClient' = toClient PROVE ClientQueueSame
  BY <1>2 DEF ClientQueueSame, Granted, Denied, GrantedAs, EndComing, ToldTwice, EndThenAnswer, AnswerThenEnd
<1> QED
  BY <1>1, <1>2

\* Which class a message to the host is in.
LEMMA HostMessages ==
    /\ StopRequest \in ToHost /\ \A g \in Gens, k \in Kinds : StartRequest(g, k) \in ToHost
       /\ CarrierStop(g) \in ToHost
    /\ \A m \in ToHost : m.type \in {"Start", "CarrierStop", "Stop"}
    /\ \A m \in ToHost : m.type = "Start" => m.gen \in Gens /\ m.kind \in Kinds /\ m = StartRequest(m.gen, m.kind)
    /\ \A m \in ToHost : m.type = "CarrierStop" => m.gen \in Gens /\ m = CarrierStop(m.gen)
    /\ \A m \in ToHost : m.type = "Stop" => m = StopRequest
    /\ \A g \in Gens, h \in Gens, l \in Kinds :
         /\ StartRequest(h, l) \in Starts(g) <=> g = h
         /\ StartRequest(h, l) # CarrierStop(g)
    /\ \A g \in Gens, h \in Gens, k \in Kinds, l \in Kinds : StartRequest(h, l) = StartRequest(g, k)
       <=> g = h /\ k = l
    /\ \A g \in Gens, k \in Kinds : StopRequest # StartRequest(g, k)
    /\ \A g \in Gens : StopRequest \notin Starts(g) /\ StopRequest # CarrierStop(g)
    /\ \A g \in Gens, h \in Gens : CarrierStop(h) \notin Starts(g) /\ (CarrierStop(h) = CarrierStop(g) <=> g = h)
<1> USE DEF StartRequest, CarrierStop, StopRequest
<1>1. StopRequest \in ToHost /\ \A g \in Gens, k \in Kinds : StartRequest(g, k) \in ToHost
      /\ CarrierStop(g) \in ToHost
  BY DEF ToHost
<1>2. \A m \in ToHost : m.type \in {"Start", "CarrierStop", "Stop"}
  BY DEF ToHost
<1>3. \A m \in ToHost : m.type = "Start" => m.gen \in Gens /\ m.kind \in Kinds /\ m = StartRequest(m.gen, m.kind)
  BY DEF ToHost
<1>4. \A m \in ToHost : m.type = "CarrierStop" => m.gen \in Gens /\ m = CarrierStop(m.gen)
  BY DEF ToHost
<1>5. \A m \in ToHost : m.type = "Stop" => m = StopRequest
  BY DEF ToHost
<1>6. ASSUME NEW g \in Gens, NEW h \in Gens, NEW k \in Kinds, NEW l \in Kinds
      PROVE  /\ StartRequest(h, l) = StartRequest(g, k) <=> g = h /\ k = l
             /\ StartRequest(h, l) # StopRequest /\ StartRequest(h, l) # CarrierStop(g)
             /\ CarrierStop(h) # StopRequest /\ (CarrierStop(h) = CarrierStop(g) <=> g = h)
  <2>1. StartRequest(h, l).type = "Start" /\ StartRequest(h, l).gen = h /\ StartRequest(h, l).kind = l
        /\ StartRequest(g, k).gen = g /\ StartRequest(g, k).kind = k
    OBVIOUS
  <2>2. StopRequest.type = "Stop" /\ CarrierStop(g).type = "CarrierStop" /\ CarrierStop(g).gen = g
        /\ CarrierStop(h).type = "CarrierStop" /\ CarrierStop(h).gen = h
    OBVIOUS
  <2> HIDE DEF StartRequest, CarrierStop, StopRequest
  <2> QED
    BY <2>1, <2>2
<1> HIDE DEF StartRequest, CarrierStop, StopRequest
<1>7. \A g \in Gens, h \in Gens, l \in Kinds :
         /\ StartRequest(h, l) \in Starts(g) <=> g = h
         /\ StartRequest(h, l) # CarrierStop(g)
  BY <1>6 DEF Starts
<1>8. \A g \in Gens, h \in Gens, k \in Kinds, l \in Kinds : StartRequest(h, l) = StartRequest(g, k) <=> g = h /\ k = l
  BY <1>6
<1>9. \A g \in Gens, k \in Kinds : StopRequest # StartRequest(g, k)
  BY <1>6
<1>10. \A g \in Gens : StopRequest \notin Starts(g) /\ StopRequest # CarrierStop(g)
  BY <1>6, ChannelAssumption DEF Starts
<1>11. \A g \in Gens, h \in Gens : CarrierStop(h) \notin Starts(g) /\ (CarrierStop(h) = CarrierStop(g) <=> g = h)
  BY <1>6, ChannelAssumption DEF Starts
<1> QED
  BY <1>1, <1>2, <1>3, <1>4, <1>5, <1>7, <1>8, <1>9, <1>10, <1>11

\* A message added at the end, or taken from the front, of a queue.
LEMMA AddedToHost ==
    ASSUME toHost \in Seq(ToHost), NEW m \in ToHost, Ask(m), NEW g, NEW k
    PROVE  /\ Asks(g)' <=> Asks(g) \/ m \in Starts(g)
           /\ AskedAs(g, k)' <=> AskedAs(g, k) \/ m = StartRequest(g, k)
           /\ StopComing' <=> StopComing \/ m = StopRequest
           /\ Doomed(g)' <=> Doomed(g) \/ m = CarrierStop(g)
           /\ AsksTwice(g)' <=> AsksTwice(g) \/ (Asks(g) /\ m \in Starts(g))
           /\ StopThenStart(g)' <=> StopThenStart(g) \/ (StopComing /\ m \in Starts(g))
           /\ StartThenStop(g)' <=> StartThenStop(g) \/ (Asks(g) /\ m = StopRequest)
<1>1. ASSUME NEW A, NEW B
      PROVE  /\ Has(toHost', A) <=> Has(toHost, A) \/ m \in A
             /\ Ahead(toHost', A, B) <=> Ahead(toHost, A, B) \/ (Has(toHost, A) /\ m \in B)
  <2>1. toHost' = Append(toHost, m)
    BY DEF Ask
  <2>2. Has(Append(toHost, m), A) <=> Has(toHost, A) \/ m \in A
    BY HasAppend
  <2>3. Ahead(Append(toHost, m), A, B) <=> Ahead(toHost, A, B) \/ (Has(toHost, A) /\ m \in B)
    BY AheadAppend
  <2> QED
    BY <2>1, <2>2, <2>3
<1>2. PICK s, d, a : s = {StopRequest} /\ d = {CarrierStop(g)} /\ a = {StartRequest(g, k)}
  OBVIOUS
<1>3. (Has(toHost', s) <=> Has(toHost, s) \/ m \in s) /\ (Has(toHost', d) <=> Has(toHost, d) \/ m \in d)
  BY <1>1
<1>4. (Has(toHost', a) <=> Has(toHost, a) \/ m \in a)
      /\ (Has(toHost', Starts(g)) <=> Has(toHost, Starts(g)) \/ m \in Starts(g))
  BY <1>1
<1>5. /\ Ahead(toHost', Starts(g), Starts(g)) <=>
            Ahead(toHost, Starts(g), Starts(g)) \/ (Has(toHost, Starts(g)) /\ m \in Starts(g))
      /\ Ahead(toHost', s, Starts(g)) <=> Ahead(toHost, s, Starts(g)) \/ (Has(toHost, s) /\ m \in Starts(g))
      /\ Ahead(toHost', Starts(g), s) <=> Ahead(toHost, Starts(g), s) \/ (Has(toHost, Starts(g)) /\ m \in s)
  BY <1>1
<1>6. (m \in s <=> m = StopRequest) /\ (m \in d <=> m = CarrierStop(g)) /\ (m \in a <=> m = StartRequest(g, k))
  BY <1>2
<1>7. /\ Asks(g) = Has(toHost, Starts(g)) /\ AskedAs(g, k) = Has(toHost, a) /\ StopComing = Has(toHost, s)
      /\ Doomed(g) = Has(toHost, d) /\ AsksTwice(g) = Ahead(toHost, Starts(g), Starts(g))
      /\ StopThenStart(g) = Ahead(toHost, s, Starts(g)) /\ StartThenStop(g) = Ahead(toHost, Starts(g), s)
  BY <1>2 DEF Asks, AskedAs, StopComing, Doomed, AsksTwice, StopThenStart, StartThenStop
<1>8. /\ Asks(g)' = Has(toHost', Starts(g)) /\ AskedAs(g, k)' = Has(toHost', a) /\ StopComing' = Has(toHost', s)
      /\ Doomed(g)' = Has(toHost', d) /\ AsksTwice(g)' = Ahead(toHost', Starts(g), Starts(g))
      /\ StopThenStart(g)' = Ahead(toHost', s, Starts(g)) /\ StartThenStop(g)' = Ahead(toHost', Starts(g), s)
  BY <1>2 DEF Asks, AskedAs, StopComing, Doomed, AsksTwice, StopThenStart, StartThenStop
<1> QED
  BY <1>3, <1>4, <1>5, <1>6, <1>7, <1>8

LEMMA TakenFromHost ==
    ASSUME toHost \in Seq(ToHost), toHost # <<>>, toHost' = Tail(toHost), NEW m, m = Head(toHost), NEW g, NEW k
    PROVE  /\ Asks(g) <=> Asks(g)' \/ m \in Starts(g)
           /\ AskedAs(g, k) <=> AskedAs(g, k)' \/ m = StartRequest(g, k)
           /\ StopComing <=> StopComing' \/ m = StopRequest
           /\ Doomed(g) <=> Doomed(g)' \/ m = CarrierStop(g)
           /\ AsksTwice(g) <=> AsksTwice(g)' \/ (m \in Starts(g) /\ Asks(g)')
           /\ StopThenStart(g) <=> StopThenStart(g)' \/ (m = StopRequest /\ Asks(g)')
           /\ StartThenStop(g) <=> StartThenStop(g)' \/ (m \in Starts(g) /\ StopComing')
<1>1. ASSUME NEW A, NEW B
      PROVE  /\ Has(toHost, A) <=> Has(toHost', A) \/ m \in A
             /\ Ahead(toHost, A, B) <=> Ahead(toHost', A, B) \/ (m \in A /\ Has(toHost', B))
  <2>2. Has(toHost, A) <=> Has(Tail(toHost), A) \/ Head(toHost) \in A
    BY HasTail
  <2>3. Ahead(toHost, A, B) <=> Ahead(Tail(toHost), A, B) \/ (Head(toHost) \in A /\ Has(Tail(toHost), B))
    BY AheadTail
  <2> QED
    BY <2>2, <2>3
<1>2. PICK s, d, a : s = {StopRequest} /\ d = {CarrierStop(g)} /\ a = {StartRequest(g, k)}
  OBVIOUS
<1>3. (Has(toHost, s) <=> Has(toHost', s) \/ m \in s) /\ (Has(toHost, d) <=> Has(toHost', d) \/ m \in d)
  BY <1>1
<1>4. (Has(toHost, a) <=> Has(toHost', a) \/ m \in a)
      /\ (Has(toHost, Starts(g)) <=> Has(toHost', Starts(g)) \/ m \in Starts(g))
  BY <1>1
<1>5. /\ Ahead(toHost, Starts(g), Starts(g)) <=>
            Ahead(toHost', Starts(g), Starts(g)) \/ (m \in Starts(g) /\ Has(toHost', Starts(g)))
      /\ Ahead(toHost, s, Starts(g)) <=> Ahead(toHost', s, Starts(g)) \/ (m \in s /\ Has(toHost', Starts(g)))
      /\ Ahead(toHost, Starts(g), s) <=> Ahead(toHost', Starts(g), s) \/ (m \in Starts(g) /\ Has(toHost', s))
  BY <1>1
<1>6. (m \in s <=> m = StopRequest) /\ (m \in d <=> m = CarrierStop(g)) /\ (m \in a <=> m = StartRequest(g, k))
  BY <1>2
<1>7. /\ Asks(g) = Has(toHost, Starts(g)) /\ AskedAs(g, k) = Has(toHost, a) /\ StopComing = Has(toHost, s)
      /\ Doomed(g) = Has(toHost, d) /\ AsksTwice(g) = Ahead(toHost, Starts(g), Starts(g))
      /\ StopThenStart(g) = Ahead(toHost, s, Starts(g)) /\ StartThenStop(g) = Ahead(toHost, Starts(g), s)
  BY <1>2 DEF Asks, AskedAs, StopComing, Doomed, AsksTwice, StopThenStart, StartThenStop
<1>8. /\ Asks(g)' = Has(toHost', Starts(g)) /\ AskedAs(g, k)' = Has(toHost', a) /\ StopComing' = Has(toHost', s)
      /\ Doomed(g)' = Has(toHost', d) /\ AsksTwice(g)' = Ahead(toHost', Starts(g), Starts(g))
      /\ StopThenStart(g)' = Ahead(toHost', s, Starts(g)) /\ StartThenStop(g)' = Ahead(toHost', Starts(g), s)
  BY <1>2 DEF Asks, AskedAs, StopComing, Doomed, AsksTwice, StopThenStart, StartThenStop
<1> QED
  BY <1>3, <1>4, <1>5, <1>6, <1>7, <1>8

LEMMA HostStops ==
    ASSUME toHost \in Seq(ToHost)
    PROVE  /\ \A m \in ToHost : Ask(m) => (StopComing' <=> StopComing \/ m = StopRequest)
           /\ \A type : Take(type) => (StopComing <=> StopComing' \/ Head(toHost) = StopRequest)
<1>1. PICK g, k : g = 0 /\ k = 0
  OBVIOUS
<1>2. ASSUME NEW m \in ToHost, Ask(m) PROVE StopComing' <=> StopComing \/ m = StopRequest
  <2>1. (Asks(g)' <=> Asks(g) \/ m \in Starts(g)) /\ (AskedAs(g, k)' <=> AskedAs(g, k) \/ m = StartRequest(g, k))
        /\ (StopComing' <=> StopComing \/ m = StopRequest)
    BY <1>2, AddedToHost
  <2> QED
    BY <2>1
<1>3. ASSUME NEW type, Take(type), NEW m, m = Head(toHost) PROVE StopComing <=> StopComing' \/ m = StopRequest
  <2>1. (Asks(g) <=> Asks(g)' \/ m \in Starts(g)) /\ (AskedAs(g, k) <=> AskedAs(g, k)' \/ m = StartRequest(g, k))
        /\ (StopComing <=> StopComing' \/ m = StopRequest)
    BY <1>3, TakenFromHost DEF Take
  <2> QED
    BY <2>1
<1> QED
  BY <1>2, <1>3

LEMMA SentToHost ==
    ASSUME toHost \in Seq(ToHost)
    PROVE  /\ \A h \in Gens, l \in Kinds : Ask(StartRequest(h, l)) => StartSent(h, l)
           /\ Ask(StopRequest) => StopSent
           /\ \A h \in Gens : Ask(CarrierStop(h)) => DoomSent(h)
<1>1. ASSUME NEW h \in Gens, NEW l \in Kinds, Ask(StartRequest(h, l))
      PROVE  StartSent(h, l)
  <2>1. PICK m \in ToHost : m = StartRequest(h, l)
    BY HostMessages
  <2>4. ASSUME NEW g \in Gens, NEW k \in Kinds
        PROVE  /\ Asks(g)' <=> Asks(g) \/ g = h
               /\ AskedAs(g, k)' <=> AskedAs(g, k) \/ (g = h /\ k = l)
               /\ StopComing' <=> StopComing
               /\ Doomed(g)' <=> Doomed(g)
               /\ AsksTwice(g)' <=> AsksTwice(g) \/ (Asks(g) /\ g = h)
               /\ StopThenStart(g)' <=> StopThenStart(g) \/ (StopComing /\ g = h)
               /\ StartThenStop(g)' <=> StartThenStop(g)
    <3>2. (m \in Starts(g) <=> g = h) /\ m # CarrierStop(g) /\ (m = StartRequest(g, k) <=> g = h /\ k = l)
          /\ m # StopRequest
      BY <2>1, HostMessages
    <3> QED
      BY <2>1, <3>2, <1>1, AddedToHost
  <2> QED
    BY <2>1, <2>4, HostStops, HostMessages, ChannelAssumption, <1>1 DEF StartSent
<1>2. ASSUME Ask(StopRequest)
      PROVE  StopSent
  <2>1. PICK m \in ToHost : m = StopRequest
    BY HostMessages
  <2>4. ASSUME NEW g \in Gens, NEW k \in Kinds
        PROVE  /\ Asks(g)' <=> Asks(g)
               /\ AskedAs(g, k)' <=> AskedAs(g, k)
               /\ StopComing'
               /\ Doomed(g)' <=> Doomed(g)
               /\ AsksTwice(g)' <=> AsksTwice(g)
               /\ StopThenStart(g)' <=> StopThenStart(g)
               /\ StartThenStop(g)' <=> StartThenStop(g) \/ Asks(g)
    <3>2. m \notin Starts(g) /\ m # CarrierStop(g) /\ m # StartRequest(g, k)
      BY <2>1, HostMessages
    <3> QED
      BY <2>1, <3>2, <1>2, AddedToHost
  <2> QED
    BY <2>1, <2>4, HostStops, HostMessages, ChannelAssumption, <1>2 DEF StopSent
<1>3. ASSUME NEW h \in Gens, Ask(CarrierStop(h))
      PROVE  DoomSent(h)
  <2>1. PICK m \in ToHost : m = CarrierStop(h)
    BY HostMessages, ChannelAssumption
  <2>4. ASSUME NEW g \in Gens, NEW k \in Kinds
        PROVE  /\ Asks(g)' <=> Asks(g)
               /\ AskedAs(g, k)' <=> AskedAs(g, k)
               /\ StopComing' <=> StopComing
               /\ Doomed(g)' <=> Doomed(g) \/ g = h
               /\ AsksTwice(g)' <=> AsksTwice(g)
               /\ StopThenStart(g)' <=> StopThenStart(g)
               /\ StartThenStop(g)' <=> StartThenStop(g)
    <3>2. m \notin Starts(g) /\ (m = CarrierStop(g) <=> g = h) /\ m # StartRequest(g, k) /\ m # StopRequest
      BY <2>1, HostMessages
    <3> QED
      BY <2>1, <3>2, <1>3, AddedToHost
  <2> QED
    BY <2>1, <2>4, HostStops, HostMessages, ChannelAssumption, <1>3 DEF DoomSent
<1> QED
  BY <1>1, <1>2, <1>3

LEMMA TakenAtHost ==
    ASSUME toHost \in Seq(ToHost), NEW type, Take(type), NEW m, m = Head(toHost)
    PROVE  /\ m \in ToHost /\ m.type = type /\ serving.at = "idle" /\ toHost' \in Seq(ToHost)
           /\ type = "Start" => m.gen \in Gens /\ m.kind \in Kinds /\ StartTaken(m.gen, m.kind)
           /\ type = "Stop" => StopTaken
           /\ type = "CarrierStop" => m.gen \in Gens /\ DoomTaken(m.gen)
<1>1. toHost # <<>> /\ toHost' = Tail(toHost) /\ m.type = type /\ serving.at = "idle"
  BY DEF Take
<1>2. m \in ToHost /\ toHost' \in Seq(ToHost)
  BY <1>1, TailIsRest
<1>4. ASSUME type = "Start"
      PROVE  m.gen \in Gens /\ m.kind \in Kinds /\ StartTaken(m.gen, m.kind)
  <2>1. PICK h \in Gens, l \in Kinds : h = m.gen /\ l = m.kind /\ m = StartRequest(h, l)
    BY <1>1, <1>2, <1>4, HostMessages
  <2>2. ASSUME NEW g \in Gens, NEW k \in Kinds
        PROVE  /\ Asks(g) <=> Asks(g)' \/ g = h
               /\ AskedAs(g, k) <=> AskedAs(g, k)' \/ (g = h /\ k = l)
               /\ StopComing' <=> StopComing
               /\ Doomed(g)' <=> Doomed(g)
               /\ AsksTwice(g) <=> AsksTwice(g)' \/ (g = h /\ Asks(g)')
               /\ StopThenStart(g)' <=> StopThenStart(g)
               /\ StartThenStop(g) <=> StartThenStop(g)' \/ (g = h /\ StopComing')
    <3>1. (m \in Starts(g) <=> g = h) /\ m # CarrierStop(g) /\ (m = StartRequest(g, k) <=> g = h /\ k = l)
          /\ m # StopRequest
      BY <2>1, HostMessages
    <3> QED
      BY <3>1, <1>1, TakenFromHost
  <2>3. StartTaken(h, l)
    BY <2>2, ChannelAssumption, HostStops, HostMessages, Take(type), m = Head(toHost) DEF StartTaken
  <2> QED
    BY <2>1, <2>3
<1>5. ASSUME type = "Stop"
      PROVE  StopTaken
  <2>1. m = StopRequest
    BY <1>1, <1>2, <1>5, HostMessages
  <2>2. ASSUME NEW g \in Gens, NEW k \in Kinds
        PROVE  /\ Asks(g)' <=> Asks(g)
               /\ AskedAs(g, k)' <=> AskedAs(g, k)
               /\ StopComing
               /\ Doomed(g)' <=> Doomed(g)
               /\ AsksTwice(g)' <=> AsksTwice(g)
               /\ StopThenStart(g) <=> StopThenStart(g)' \/ Asks(g)'
               /\ StartThenStop(g)' <=> StartThenStop(g)
    <3>1. m \notin Starts(g) /\ m # CarrierStop(g) /\ m # StartRequest(g, k)
      BY <2>1, HostMessages
    <3> QED
      BY <2>1, <3>1, <1>1, TakenFromHost
  <2> QED
    BY <2>1, <2>2, ChannelAssumption, HostStops, Take(type), m = Head(toHost) DEF StopTaken
<1>6. ASSUME type = "CarrierStop"
      PROVE  m.gen \in Gens /\ DoomTaken(m.gen)
  <2>1. PICK h \in Gens : h = m.gen /\ m = CarrierStop(h)
    BY <1>1, <1>2, <1>6, HostMessages
  <2>2. ASSUME NEW g \in Gens, NEW k \in Kinds
        PROVE  /\ Asks(g)' <=> Asks(g)
               /\ AskedAs(g, k)' <=> AskedAs(g, k)
               /\ StopComing' <=> StopComing
               /\ Doomed(g) <=> Doomed(g)' \/ g = h
               /\ AsksTwice(g)' <=> AsksTwice(g)
               /\ StopThenStart(g)' <=> StopThenStart(g)
               /\ StartThenStop(g)' <=> StartThenStop(g)
    <3>1. m \notin Starts(g) /\ (m = CarrierStop(g) <=> g = h) /\ m # StartRequest(g, k) /\ m # StopRequest
      BY <2>1, HostMessages
    <3> QED
      BY <3>1, <1>1, TakenFromHost
  <2>3. DoomTaken(h)
    BY <2>2, ChannelAssumption, HostStops, HostMessages, Take(type), m = Head(toHost) DEF DoomTaken
  <2> QED
    BY <2>1, <2>3
<1> QED
  BY <1>1, <1>2, <1>4, <1>5, <1>6

\* Which class a message to the client is in.
LEMMA ClientMessages ==
    /\ TrackEnded \in ToClient /\ StreamStopped \in ToClient /\ SoundOffer \in ToClient
    /\ TrackEnded.type = "TrackEnded" /\ StreamStopped.type = "StreamStopped" /\ SoundOffer.type = "Sound"
    /\ \A h \in Gens, l \in Kinds, ok \in BOOLEAN :
         StartResponse(h, l, ok) \in ToClient /\ StartResponse(h, l, ok).type = "Answer"
    /\ \A m \in ToClient : m.type = "Answer" =>
         m.gen \in Gens /\ m.kind \in Kinds /\ m.ok \in BOOLEAN /\ m = StartResponse(m.gen, m.kind, m.ok)
    /\ \A m \in ToClient : m.type = "StreamStopped" <=> m = StreamStopped
<1> USE DEF StartResponse, TrackEnded, StreamStopped, SoundOffer
<1>1. /\ TrackEnded \in ToClient /\ StreamStopped \in ToClient /\ SoundOffer \in ToClient
      /\ \A h \in Gens, l \in Kinds, ok \in BOOLEAN : StartResponse(h, l, ok) \in ToClient
  BY DEF ToClient
<1>2. \A m \in ToClient : m.type = "Answer" =>
         m.gen \in Gens /\ m.kind \in Kinds /\ m.ok \in BOOLEAN /\ m = StartResponse(m.gen, m.kind, m.ok)
  BY DEF ToClient
<1>3. \A m \in ToClient : m.type = "StreamStopped" => m = StreamStopped
  BY DEF ToClient
<1>4. /\ \A h, l, ok : StartResponse(h, l, ok).type = "Answer"
      /\ TrackEnded.type = "TrackEnded" /\ StreamStopped.type = "StreamStopped" /\ SoundOffer.type = "Sound"
  OBVIOUS
<1> QED
  BY ONLY <1>1, <1>2, <1>3, <1>4

AnswerIsOf(r, h, l, ok, g, k) ==
    /\ r \in Yes(g) <=> g = h /\ ok
    /\ r \in No(g) <=> g = h /\ ~ ok
    /\ r \in Answers(g) <=> g = h
    /\ r # StreamStopped
    /\ r = StartResponse(g, k, TRUE) <=> g = h /\ k = l /\ ok

LEMMA AnswerClasses ==
    ASSUME NEW g, NEW h, NEW l \in Kinds, NEW ok \in BOOLEAN, NEW k, NEW r, r = StartResponse(h, l, ok)
    PROVE  AnswerIsOf(r, h, l, ok, g, k)
<1>1. r.gen = h /\ r.kind = l /\ r.ok = ok /\ r.type = "Answer"
  BY DEF StartResponse
<1>2. \A x, yes : /\ StartResponse(g, x, yes).gen = g /\ StartResponse(g, x, yes).kind = x
                  /\ StartResponse(g, x, yes).ok = yes
  BY DEF StartResponse
<1>3. StreamStopped.type = "StreamStopped"
  BY DEF StreamStopped
<1>4. r # StreamStopped
  BY <1>1, <1>3
<1>5. \A x, yes : r = StartResponse(g, x, yes) <=> h = g /\ l = x /\ ok = yes
  BY <1>1, <1>2
<1>6. r \in Yes(g) <=> g = h /\ ok = TRUE
  BY <1>5 DEF Yes
<1>7. r \in No(g) <=> g = h /\ ok = FALSE
  BY <1>5 DEF No
<1>8. r \in Answers(g) <=> r \in Yes(g) \/ r \in No(g)
  BY DEF Answers
<1>9. r = StartResponse(g, k, TRUE) <=> h = g /\ l = k /\ ok = TRUE
  BY <1>5
<1> QED
  BY <1>4, <1>6, <1>7, <1>8, <1>9 DEF AnswerIsOf

LEMMA OtherClasses ==
    ASSUME NEW m, m.type # "Answer", NEW g, NEW k
    PROVE  m \notin Yes(g) /\ m \notin No(g) /\ m \notin Answers(g) /\ m # StartResponse(g, k, TRUE)
<1>1. \A x, yes : StartResponse(g, x, yes).type = "Answer"
  BY DEF StartResponse
<1>2. \A x, yes : m # StartResponse(g, x, yes)
  BY <1>1
<1>3. m \notin Yes(g)
  BY <1>2 DEF Yes
<1>4. m \notin No(g)
  BY <1>2 DEF No
<1> QED
  BY <1>2, <1>3, <1>4 DEF Answers

LEMMA HasEither ==
    ASSUME NEW q, NEW A, NEW B
    PROVE  Has(q, A \cup B) <=> Has(q, A) \/ Has(q, B)
BY DEF Has

LEMMA AddedToClient ==
    ASSUME toClient \in Seq(ToClient), NEW m \in ToClient, Send(m), NEW g, NEW k
    PROVE  /\ Granted(g)' <=> Granted(g) \/ m \in Yes(g)
           /\ Denied(g)' <=> Denied(g) \/ m \in No(g)
           /\ GrantedAs(g, k)' <=> GrantedAs(g, k) \/ m = StartResponse(g, k, TRUE)
           /\ EndComing' <=> EndComing \/ m = StreamStopped
           /\ ToldTwice(g)' <=> ToldTwice(g) \/ (Told(g) /\ m \in Answers(g))
           /\ EndThenAnswer(g)' <=> EndThenAnswer(g) \/ (EndComing /\ m \in Answers(g))
           /\ AnswerThenEnd(g)' <=> AnswerThenEnd(g) \/ (Told(g) /\ m = StreamStopped)
<1>1. ASSUME NEW A, NEW B
      PROVE  /\ Has(toClient', A) <=> Has(toClient, A) \/ m \in A
             /\ Ahead(toClient', A, B) <=> Ahead(toClient, A, B) \/ (Has(toClient, A) /\ m \in B)
  <2>1. toClient' = Append(toClient, m)
    BY DEF Send
  <2>2. Has(Append(toClient, m), A) <=> Has(toClient, A) \/ m \in A
    BY HasAppend
  <2>3. Ahead(Append(toClient, m), A, B) <=> Ahead(toClient, A, B) \/ (Has(toClient, A) /\ m \in B)
    BY AheadAppend
  <2> QED
    BY <2>1, <2>2, <2>3
<1>2. PICK e, a : e = {StreamStopped} /\ a = {StartResponse(g, k, TRUE)}
  OBVIOUS
<1>3. (Has(toClient', e) <=> Has(toClient, e) \/ m \in e) /\ (Has(toClient', a) <=> Has(toClient, a) \/ m \in a)
  BY <1>1
<1>4. (Has(toClient', Yes(g)) <=> Has(toClient, Yes(g)) \/ m \in Yes(g))
      /\ (Has(toClient', No(g)) <=> Has(toClient, No(g)) \/ m \in No(g))
  BY <1>1
<1>5. /\ Ahead(toClient', Answers(g), Answers(g)) <=>
            Ahead(toClient, Answers(g), Answers(g)) \/ (Has(toClient, Answers(g)) /\ m \in Answers(g))
      /\ Ahead(toClient', e, Answers(g)) <=> Ahead(toClient, e, Answers(g)) \/ (Has(toClient, e) /\ m \in Answers(g))
      /\ Ahead(toClient', Answers(g), e) <=> Ahead(toClient, Answers(g), e) \/ (Has(toClient, Answers(g)) /\ m \in e)
  BY <1>1
<1>6. (m \in e <=> m = StreamStopped) /\ (m \in a <=> m = StartResponse(g, k, TRUE))
  BY <1>2
<1>7. /\ Granted(g) = Has(toClient, Yes(g)) /\ Denied(g) = Has(toClient, No(g)) /\ GrantedAs(g, k) = Has(toClient, a)
      /\ EndComing = Has(toClient, e) /\ ToldTwice(g) = Ahead(toClient, Answers(g), Answers(g))
      /\ EndThenAnswer(g) = Ahead(toClient, e, Answers(g)) /\ AnswerThenEnd(g) = Ahead(toClient, Answers(g), e)
  BY <1>2 DEF Granted, Denied, GrantedAs, EndComing, ToldTwice, EndThenAnswer, AnswerThenEnd
<1>8. /\ Granted(g)' = Has(toClient', Yes(g)) /\ Denied(g)' = Has(toClient', No(g))
         /\ GrantedAs(g, k)' = Has(toClient', a)
      /\ EndComing' = Has(toClient', e) /\ ToldTwice(g)' = Ahead(toClient', Answers(g), Answers(g))
      /\ EndThenAnswer(g)' = Ahead(toClient', e, Answers(g)) /\ AnswerThenEnd(g)' = Ahead(toClient', Answers(g), e)
  BY <1>2 DEF Granted, Denied, GrantedAs, EndComing, ToldTwice, EndThenAnswer, AnswerThenEnd
<1>9. Told(g) <=> Has(toClient, Answers(g))
  BY HasEither DEF Told, Answers, Granted, Denied
<1> QED
  BY <1>3, <1>4, <1>5, <1>6, <1>7, <1>8, <1>9

LEMMA TakenFromClient ==
    ASSUME toClient \in Seq(ToClient), toClient # <<>>, toClient' = Tail(toClient),
           NEW m, m = Head(toClient), NEW g, NEW k
    PROVE  /\ Granted(g) <=> Granted(g)' \/ m \in Yes(g)
           /\ Denied(g) <=> Denied(g)' \/ m \in No(g)
           /\ GrantedAs(g, k) <=> GrantedAs(g, k)' \/ m = StartResponse(g, k, TRUE)
           /\ EndComing <=> EndComing' \/ m = StreamStopped
           /\ ToldTwice(g) <=> ToldTwice(g)' \/ (m \in Answers(g) /\ Told(g)')
           /\ EndThenAnswer(g) <=> EndThenAnswer(g)' \/ (m = StreamStopped /\ Told(g)')
           /\ AnswerThenEnd(g) <=> AnswerThenEnd(g)' \/ (m \in Answers(g) /\ EndComing')
<1>1. ASSUME NEW A, NEW B
      PROVE  /\ Has(toClient, A) <=> Has(toClient', A) \/ m \in A
             /\ Ahead(toClient, A, B) <=> Ahead(toClient', A, B) \/ (m \in A /\ Has(toClient', B))
  <2>2. Has(toClient, A) <=> Has(Tail(toClient), A) \/ Head(toClient) \in A
    BY HasTail
  <2>3. Ahead(toClient, A, B) <=> Ahead(Tail(toClient), A, B) \/ (Head(toClient) \in A /\ Has(Tail(toClient), B))
    BY AheadTail
  <2> QED
    BY <2>2, <2>3
<1>2. PICK e, a : e = {StreamStopped} /\ a = {StartResponse(g, k, TRUE)}
  OBVIOUS
<1>3. (Has(toClient, e) <=> Has(toClient', e) \/ m \in e) /\ (Has(toClient, a) <=> Has(toClient', a) \/ m \in a)
  BY <1>1
<1>4. (Has(toClient, Yes(g)) <=> Has(toClient', Yes(g)) \/ m \in Yes(g))
      /\ (Has(toClient, No(g)) <=> Has(toClient', No(g)) \/ m \in No(g))
  BY <1>1
<1>5. /\ Ahead(toClient, Answers(g), Answers(g)) <=>
            Ahead(toClient', Answers(g), Answers(g)) \/ (m \in Answers(g) /\ Has(toClient', Answers(g)))
      /\ Ahead(toClient, e, Answers(g)) <=> Ahead(toClient', e, Answers(g)) \/ (m \in e /\ Has(toClient', Answers(g)))
      /\ Ahead(toClient, Answers(g), e) <=> Ahead(toClient', Answers(g), e) \/ (m \in Answers(g) /\ Has(toClient', e))
  BY <1>1
<1>6. (m \in e <=> m = StreamStopped) /\ (m \in a <=> m = StartResponse(g, k, TRUE))
  BY <1>2
<1>7. /\ Granted(g) = Has(toClient, Yes(g)) /\ Denied(g) = Has(toClient, No(g)) /\ GrantedAs(g, k) = Has(toClient, a)
      /\ EndComing = Has(toClient, e) /\ ToldTwice(g) = Ahead(toClient, Answers(g), Answers(g))
      /\ EndThenAnswer(g) = Ahead(toClient, e, Answers(g)) /\ AnswerThenEnd(g) = Ahead(toClient, Answers(g), e)
  BY <1>2 DEF Granted, Denied, GrantedAs, EndComing, ToldTwice, EndThenAnswer, AnswerThenEnd
<1>8. /\ Granted(g)' = Has(toClient', Yes(g)) /\ Denied(g)' = Has(toClient', No(g))
         /\ GrantedAs(g, k)' = Has(toClient', a)
      /\ EndComing' = Has(toClient', e) /\ ToldTwice(g)' = Ahead(toClient', Answers(g), Answers(g))
      /\ EndThenAnswer(g)' = Ahead(toClient', e, Answers(g)) /\ AnswerThenEnd(g)' = Ahead(toClient', Answers(g), e)
  BY <1>2 DEF Granted, Denied, GrantedAs, EndComing, ToldTwice, EndThenAnswer, AnswerThenEnd
<1>9. Told(g)' <=> Has(toClient', Answers(g))
  BY HasEither DEF Told, Answers, Granted, Denied
<1> QED
  BY <1>3, <1>4, <1>5, <1>6, <1>7, <1>8, <1>9

LEMMA ClientEnds ==
    ASSUME toClient \in Seq(ToClient)
    PROVE  /\ \A m \in ToClient : Send(m) => (EndComing' <=> EndComing \/ m = StreamStopped)
           /\ \A type : Receive(type) => (EndComing <=> EndComing' \/ Head(toClient) = StreamStopped)
<1>1. PICK g, k : g = 0 /\ k = 0
  OBVIOUS
<1>2. ASSUME NEW m \in ToClient, Send(m) PROVE EndComing' <=> EndComing \/ m = StreamStopped
  <2>1. (Granted(g)' <=> Granted(g) \/ m \in Yes(g))
        /\ (GrantedAs(g, k)' <=> GrantedAs(g, k) \/ m = StartResponse(g, k, TRUE))
        /\ (EndComing' <=> EndComing \/ m = StreamStopped)
    BY <1>2, AddedToClient
  <2> QED
    BY <2>1
<1>3. ASSUME NEW type, Receive(type), NEW m, m = Head(toClient) PROVE EndComing <=> EndComing' \/ m = StreamStopped
  <2>1. (Granted(g) <=> Granted(g)' \/ m \in Yes(g))
        /\ (GrantedAs(g, k) <=> GrantedAs(g, k)' \/ m = StartResponse(g, k, TRUE))
        /\ (EndComing <=> EndComing' \/ m = StreamStopped)
    BY <1>3, TakenFromClient DEF Receive
  <2> QED
    BY <2>1
<1> QED
  BY <1>2, <1>3

LEMMA SentToClient ==
    ASSUME toClient \in Seq(ToClient)
    PROVE  /\ \A h \in Gens, l \in Kinds, ok \in BOOLEAN : Send(StartResponse(h, l, ok)) => AnswerSent(h, l, ok)
           /\ Send(StreamStopped) => EndSent
           /\ Send(TrackEnded) \/ Send(SoundOffer) => ClientQueueSame
<1>1. ASSUME NEW h \in Gens, NEW l \in Kinds, NEW ok \in BOOLEAN, Send(StartResponse(h, l, ok))
      PROVE  AnswerSent(h, l, ok)
  <2>1. PICK m \in ToClient : m = StartResponse(h, l, ok)
    BY ClientMessages
  <2>2. ASSUME NEW g \in Gens, NEW k \in Kinds
        PROVE  /\ Granted(g)' <=> Granted(g) \/ (g = h /\ ok)
               /\ Denied(g)' <=> Denied(g) \/ (g = h /\ ~ ok)
               /\ GrantedAs(g, k)' <=> GrantedAs(g, k) \/ (g = h /\ k = l /\ ok)
               /\ EndComing' <=> EndComing
               /\ ToldTwice(g)' <=> ToldTwice(g) \/ (Told(g) /\ g = h)
               /\ EndThenAnswer(g)' <=> EndThenAnswer(g) \/ (EndComing /\ g = h)
               /\ AnswerThenEnd(g)' <=> AnswerThenEnd(g)
    <3>1. AnswerIsOf(m, h, l, ok, g, k)
      BY <2>1, AnswerClasses
    <3>2. Send(m)
      BY <2>1, <1>1
    <3> QED
      BY <3>1, <3>2, AddedToClient DEF AnswerIsOf
  <2> QED
    BY <2>2, ChannelAssumption, ClientEnds, ClientMessages DEF AnswerSent
<1>2. ASSUME NEW m \in ToClient, m.type # "Answer", Send(m), NEW g \in Gens, NEW k \in Kinds
      PROVE  /\ Granted(g)' <=> Granted(g)
             /\ Denied(g)' <=> Denied(g)
             /\ GrantedAs(g, k)' <=> GrantedAs(g, k)
             /\ EndComing' <=> EndComing \/ m = StreamStopped
             /\ ToldTwice(g)' <=> ToldTwice(g)
             /\ EndThenAnswer(g)' <=> EndThenAnswer(g)
             /\ AnswerThenEnd(g)' <=> AnswerThenEnd(g) \/ (Told(g) /\ m = StreamStopped)
  <2>1. m \notin Yes(g) /\ m \notin No(g) /\ m \notin Answers(g) /\ m # StartResponse(g, k, TRUE)
    BY <1>2, OtherClasses
  <2> QED
    BY <2>1, <1>2, AddedToClient
<1>3. ASSUME Send(StreamStopped)
      PROVE  EndSent
  <2>1. PICK m \in ToClient : m = StreamStopped /\ m.type # "Answer"
    BY ClientMessages
  <2>2. Send(m)
    BY <2>1, <1>3
  <2> QED
    BY <2>1, <2>2, <1>2, ChannelAssumption, ClientEnds, ClientMessages DEF EndSent
<1>4. ASSUME NEW m \in ToClient, m.type # "Answer", m # StreamStopped, Send(m)
      PROVE  ClientQueueSame
  BY <1>2, <1>4, ChannelAssumption, ClientEnds, ClientMessages DEF ClientQueueSame
<1>5. TrackEnded \in ToClient /\ TrackEnded.type # "Answer" /\ TrackEnded # StreamStopped
      /\ SoundOffer \in ToClient /\ SoundOffer.type # "Answer" /\ SoundOffer # StreamStopped
  BY ClientMessages
<1> QED
  BY <1>1, <1>3, <1>4, <1>5

LEMMA TakenAtClient ==
    ASSUME toClient \in Seq(ToClient), NEW type, Receive(type), NEW m, m = Head(toClient)
    PROVE  /\ m \in ToClient /\ m.type = type /\ toClient' \in Seq(ToClient)
           /\ type = "Answer" =>
                /\ m.gen \in Gens /\ m.kind \in Kinds /\ m.ok \in BOOLEAN
                /\ AnswerTaken(m.gen, m.kind, m.ok)
           /\ type = "StreamStopped" => EndTaken
           /\ type \in {"TrackEnded", "Sound"} => ClientQueueSame
<1>1. toClient # <<>> /\ toClient' = Tail(toClient) /\ m.type = type
  BY DEF Receive
<1>2. m \in ToClient /\ toClient' \in Seq(ToClient)
  BY <1>1, TailIsRest
<1>3. ASSUME type = "Answer"
      PROVE  /\ m.gen \in Gens /\ m.kind \in Kinds /\ m.ok \in BOOLEAN
             /\ AnswerTaken(m.gen, m.kind, m.ok)
  <2>1. m.gen \in Gens /\ m.kind \in Kinds /\ m.ok \in BOOLEAN /\ m = StartResponse(m.gen, m.kind, m.ok)
    BY <1>1, <1>2, <1>3, ClientMessages
  <2>2. PICK h \in Gens, l \in Kinds, ok \in BOOLEAN :
            h = m.gen /\ l = m.kind /\ ok = m.ok /\ m = StartResponse(h, l, ok)
    BY <2>1
  <2>3. ASSUME NEW g \in Gens, NEW k \in Kinds
        PROVE  /\ Granted(g) <=> Granted(g)' \/ (g = h /\ ok)
               /\ Denied(g) <=> Denied(g)' \/ (g = h /\ ~ ok)
               /\ GrantedAs(g, k) <=> GrantedAs(g, k)' \/ (g = h /\ k = l /\ ok)
               /\ EndComing' <=> EndComing
               /\ ToldTwice(g) <=> ToldTwice(g)' \/ (g = h /\ Told(g)')
               /\ EndThenAnswer(g)' <=> EndThenAnswer(g)
               /\ AnswerThenEnd(g) <=> AnswerThenEnd(g)' \/ (g = h /\ EndComing')
    <3>1. AnswerIsOf(m, h, l, ok, g, k)
      BY <2>2, AnswerClasses
    <3> QED
      BY <3>1, <1>1, TakenFromClient DEF AnswerIsOf
  <2>4. AnswerTaken(h, l, ok)
    BY <2>3, ChannelAssumption, ClientEnds, ClientMessages DEF AnswerTaken
  <2> QED
    BY <2>2, <2>4
<1>4. ASSUME type \in {"TrackEnded", "Sound", "StreamStopped"}, NEW g \in Gens, NEW k \in Kinds
      PROVE  /\ Granted(g)' <=> Granted(g)
             /\ Denied(g)' <=> Denied(g)
             /\ GrantedAs(g, k)' <=> GrantedAs(g, k)
             /\ EndComing <=> EndComing' \/ m = StreamStopped
             /\ ToldTwice(g)' <=> ToldTwice(g)
             /\ EndThenAnswer(g) <=> EndThenAnswer(g)' \/ (m = StreamStopped /\ Told(g)')
             /\ AnswerThenEnd(g)' <=> AnswerThenEnd(g)
  <2>1. m.type # "Answer"
    BY <1>1, <1>4
  <2>2. m \notin Yes(g) /\ m \notin No(g) /\ m \notin Answers(g) /\ m # StartResponse(g, k, TRUE)
    BY <2>1, OtherClasses
  <2> QED
    BY <2>2, <1>1, TakenFromClient
<1>5. ASSUME type = "StreamStopped"
      PROVE  EndTaken
  <2>1. m = StreamStopped
    BY <1>1, <1>2, <1>5, ClientMessages
  <2> QED
    BY <2>1, <1>4, <1>5, ChannelAssumption, ClientEnds, ClientMessages DEF EndTaken
<1>6. ASSUME type \in {"TrackEnded", "Sound"}
      PROVE  ClientQueueSame
  <2>1. m # StreamStopped
    BY <1>1, <1>2, <1>6, ClientMessages
  <2> QED
    BY <2>1, <1>4, <1>6, ChannelAssumption, ClientEnds, ClientMessages DEF ClientQueueSame
<1> QED
  BY <1>1, <1>2, <1>3, <1>5, <1>6

-----------------------------------------------------------------------------
(* The host's part.                                                         *)

LEMMA GenOf ==
    ASSUME NEW carriers, NEW g
    PROVE  g \in Gen(carriers) <=> \E c \in carriers : c.gen = g
BY DEF Gen

\* The frame threads, without the set of generations.
Fed ==
    \A f \in feeds :
        \/ f.gen \in stopped \/ Runs(f.gen)
        \/ serving.at \in {"sound", "answer"} /\ serving.gen = f.gen

LEMMA FedIsAccounted ==
    (FeedsAccountedFor <=> Fed) /\ (FeedsAccountedFor' <=> Fed')
<1>1. \A g : g \in Gen(running) <=> Runs(g)
  BY GenOf DEF Runs
<1>2. \A g : g \in Gen(running') <=> \E r \in running' : r.gen = g
  BY GenOf
<1>3. \A g : g \in Gen(running)' <=> \E r \in running' : r.gen = g
  BY <1>2 DEF Gen
<1>4. FeedsAccountedFor <=> Fed
  BY <1>1 DEF FeedsAccountedFor, Fed
<1>5. FeedsAccountedFor' <=> Fed'
  BY <1>3 DEF FeedsAccountedFor, Fed, Runs
<1> QED
  BY <1>4, <1>5

\* What the queues hold stays of their types.
LEMMA QueuesTyped ==
    ASSUME CarrierTypeOK
    PROVE  /\ \A m \in ToHost : Ask(m) => toHost' \in Seq(ToHost)
           /\ \A m \in ToClient : Send(m) => toClient' \in Seq(ToClient)
           /\ \A type : Take(type) => toHost' \in Seq(ToHost)
           /\ \A type : Receive(type) => toClient' \in Seq(ToClient)
<1>1. toHost \in Seq(ToHost) /\ toClient \in Seq(ToClient)
  BY DEF CarrierTypeOK, ChannelTypeOK
<1>2. ASSUME NEW m \in ToHost, Ask(m) PROVE toHost' \in Seq(ToHost)
  BY <1>1, <1>2, AppendProperties DEF Ask
<1>3. ASSUME NEW m \in ToClient, Send(m) PROVE toClient' \in Seq(ToClient)
  BY <1>1, <1>3, AppendProperties DEF Send
<1>4. ASSUME NEW type, Take(type) PROVE toHost' \in Seq(ToHost)
  BY <1>1, <1>4, TailIsRest DEF Take
<1>5. ASSUME NEW type, Receive(type) PROVE toClient' \in Seq(ToClient)
  BY <1>1, <1>5, TailIsRest DEF Receive
<1> QED
  BY <1>2, <1>3, <1>4, <1>5

HostOK == HostTypeOK /\ Served /\ OneCarrierPerBackend /\ Fed

\* A step of the session loop keeps what the host knows of its carriers.
LEMMA LoopKeepsHost ==
    ASSUME CarrierTypeOK, HostOK, LoopStep
    PROVE  HostOK' /\ toHost' \in Seq(ToHost) /\ toClient' \in Seq(ToClient)
<1> USE DEF HostOK
<1>a. toHost \in Seq(ToHost) /\ toClient \in Seq(ToClient) /\ HostTypeOK
  BY DEF CarrierTypeOK, ChannelTypeOK
<1>b. /\ \A g \in Gens, k \in Kinds, ok \in BOOLEAN : StartResponse(g, k, ok) \in ToClient
      /\ TrackEnded \in ToClient /\ StreamStopped \in ToClient /\ SoundOffer \in ToClient /\ "Native" \in Kinds
  BY ClientMessages, ChannelAssumption
<1>c. /\ \A m \in ToClient : Send(m) => toClient' \in Seq(ToClient)
      /\ \A type : Take(type) => toHost' \in Seq(ToHost)
  BY QueuesTyped
<1>d. ASSUME UNCHANGED hostVars PROVE HostOK'
  BY <1>d DEF hostVars, HostTypeOK, Served, OneCarrierPerBackend, Fed, Stopping, Runs
<1>e. serving.at \in LoopAt /\ serving.gen \in Gens \cup {0} /\ serving.kind \in Kinds /\ serving.onTrack \in BOOLEAN
  BY DEF HostTypeOK
<1>f. \A k \in Kinds : Serve(k) \in Kinds
  BY HostAssumption DEF Serve
<1>1. ASSUME RefuseCarried \/ RefusePolicy
      PROVE  HostOK' /\ toHost' \in Seq(ToHost) /\ toClient' \in Seq(ToClient)
  <2>1. Take("Start") /\ Send(StartResponse(Head(toHost).gen, "Native", FALSE)) /\ UNCHANGED hostVars
    BY <1>1 DEF RefuseCarried, RefusePolicy
  <2>2. Head(toHost).gen \in Gens
    BY <1>a, <2>1, TakenAtHost
  <2> QED
    BY <2>1, <2>2, <1>b, <1>c, <1>d
<1>2. ASSUME BeginStart
      PROVE  HostOK' /\ toHost' \in Seq(ToHost) /\ toClient' \in Seq(ToClient)
  <2>1. Take("Start") /\ UNCHANGED <<toClient, running, stopped, feeds, track, sound>>
    BY <1>2 DEF BeginStart
  <2>2. serving.at = "idle" /\ Head(toHost).gen \in Gens /\ Head(toHost).kind \in Kinds
    BY <1>a, <2>1, TakenAtHost
  <2>3. PICK h \in Gens, l \in Kinds : h = Head(toHost).gen /\ l = Serve(Head(toHost).kind)
    BY <1>f, <2>2
  <2>4. serving' = [at |-> "open", gen |-> h, kind |-> l, onTrack |-> FALSE]
    BY <1>2, <2>3 DEF BeginStart
  <2>5. \A r \in running : r.gen # h /\ r.kind # l
    BY <1>2, <2>3 DEF BeginStart, AlreadyCarried
  <2>6. serving'.at = "open" /\ serving'.gen = h /\ serving'.kind = l
    BY <2>4
  <2>7. HostTypeOK'
    BY <2>1, <2>4, <1>a DEF HostTypeOK, LoopAt
  <2>8. Served'
    BY <2>1, <2>6 DEF Served, Stopping
  <2>9. OneCarrierPerBackend'
    BY <2>1, <2>5, <2>6 DEF OneCarrierPerBackend
  <2>10. Fed'
    BY <2>1, <2>2 DEF Fed, Runs
  <2> QED
    BY <2>1, <2>7, <2>8, <2>9, <2>10, <1>a, <1>c
<1>3. ASSUME OpenFails
      PROVE  HostOK' /\ toHost' \in Seq(ToHost) /\ toClient' \in Seq(ToClient)
  <2>1. /\ serving.at = "open" /\ Send(StartResponse(serving.gen, "Native", FALSE)) /\ serving' = LoopIdle
        /\ UNCHANGED <<toHost, running, stopped, feeds, track, sound>>
    BY <1>3 DEF OpenFails
  <2>2. serving.gen \in Gens
    BY <2>1 DEF Served
  <2>3. serving'.at = "idle" /\ HostTypeOK'
    BY <2>1, <1>a, <1>b DEF HostTypeOK, LoopAt, LoopIdle
  <2>4. Served' /\ OneCarrierPerBackend'
    BY <2>1, <2>3 DEF Served, Stopping, OneCarrierPerBackend
  <2>5. Fed'
    BY <2>1, <2>3 DEF Fed, Runs
  <2> QED
    BY <2>1, <2>2, <2>3, <2>4, <2>5, <1>a, <1>b, <1>c
<1>4. ASSUME OpenCarrier
      PROVE  HostOK' /\ toHost' \in Seq(ToHost) /\ toClient' \in Seq(ToClient)
  <2>1. serving.at = "open" /\ UNCHANGED <<channel, running, stopped, sound>> /\ serving.gen \in Gens
    BY <1>4 DEF OpenCarrier, Served
  <2>2. PICK at \in {"sound", "answer"} : serving' = [serving EXCEPT !.at = at]
    BY <1>4 DEF OpenCarrier
  <2>3. serving'.at = at /\ serving'.gen = serving.gen /\ serving'.kind = serving.kind
        /\ serving' \in [at : LoopAt, gen : Gens \cup {0}, kind : Kinds, onTrack : BOOLEAN]
    BY <2>2, <1>a DEF HostTypeOK, LoopAt
  <2>4. track' \in {track, serving.gen} /\ feeds' \subseteq feeds \cup {[gen |-> serving.gen, at |-> "run"]}
    BY <1>4 DEF OpenCarrier
  <2>5. HostTypeOK'
    BY <2>1, <2>3, <2>4, <1>a DEF HostTypeOK, FeedAt
  <2>6. Served' /\ OneCarrierPerBackend'
    BY <2>1, <2>3 DEF Served, Stopping, OneCarrierPerBackend
  <2>7. Fed'
    <3>1. \A f \in feeds : f.gen \in stopped' \/ Runs(f.gen)'
      BY <2>1 DEF Fed, Runs
    <3>2. ASSUME NEW f, f = [gen |-> serving.gen, at |-> "run"]
          PROVE  serving'.at \in {"sound", "answer"} /\ serving'.gen = f.gen
      BY <2>3, <3>2
    <3> QED
      BY <2>4, <3>1, <3>2 DEF Fed, Runs
  <2> QED
    BY <2>1, <2>5, <2>6, <2>7, <1>a DEF channel
<1>5. ASSUME StartSound
      PROVE  HostOK' /\ toHost' \in Seq(ToHost) /\ toClient' \in Seq(ToClient)
  <2>1. /\ serving.at = "sound" /\ serving' = [serving EXCEPT !.at = "answer"]
        /\ UNCHANGED <<toHost, running, stopped, feeds, track>> /\ sound' \in {sound, TRUE}
        /\ UNCHANGED toClient \/ Send(SoundOffer)
    BY <1>5 DEF StartSound
  <2>2. serving'.at = "answer" /\ serving'.gen = serving.gen /\ serving'.kind = serving.kind /\ HostTypeOK'
    BY <2>1, <1>a DEF HostTypeOK, LoopAt
  <2>3. Served' /\ OneCarrierPerBackend'
    BY <2>1, <2>2 DEF Served, Stopping, OneCarrierPerBackend
  <2>4. Fed'
    BY <2>1, <2>2 DEF Fed, Runs
  <2> QED
    BY <2>1, <2>2, <2>3, <2>4, <1>a, <1>b, <1>c
<1>6. ASSUME AnswerStart
      PROVE  HostOK' /\ toHost' \in Seq(ToHost) /\ toClient' \in Seq(ToClient)
  <2>1. /\ serving.at = "answer" /\ serving' = LoopIdle
        /\ running' = running \cup {[gen |-> serving.gen, kind |-> serving.kind]}
        /\ Send(StartResponse(serving.gen, serving.kind, TRUE))
        /\ UNCHANGED <<toHost, stopped, feeds, track, sound>>
    BY <1>6 DEF AnswerStart
  <2>a. serving.gen \in Gens
    BY <2>1 DEF Served
  <2>b. [gen |-> serving.gen, kind |-> serving.kind] \in Carrier
    BY <2>a, <1>e DEF Carrier
  <2>2. PICK new \in Carrier : new = [gen |-> serving.gen, kind |-> serving.kind]
                              /\ new.gen = serving.gen /\ new.kind = serving.kind
    BY <2>b
  <2>3. running' = running \cup {new}
    BY <2>1, <2>2
  <2>4. serving'.at = "idle" /\ HostTypeOK'
    BY <2>1, <2>3, <1>a, <1>b DEF HostTypeOK, LoopAt, LoopIdle
  <2>5. \A r \in running : r.kind # new.kind /\ r.gen # new.gen
    BY <2>1, <2>2 DEF OneCarrierPerBackend
  <2>6. Served' /\ OneCarrierPerBackend'
    BY <2>3, <2>4, <2>5 DEF Served, Stopping, OneCarrierPerBackend
  <2>7. Fed'
    BY <2>1, <2>2, <2>3, <2>4 DEF Fed, Runs
  <2> QED
    BY <2>1, <2>a, <2>4, <2>6, <2>7, <1>a, <1>b, <1>c, <1>e
<1>7. ASSUME StopNothing \/ CarrierStopNothing
      PROVE  HostOK' /\ toHost' \in Seq(ToHost) /\ toClient' \in Seq(ToClient)
  <2>1. (Take("Stop") \/ Take("CarrierStop")) /\ UNCHANGED <<toClient, hostVars>>
    BY <1>7 DEF StopNothing, CarrierStopNothing
  <2> QED
    BY <2>1, <1>a, <1>c, <1>d
<1>8. ASSUME StopStream
      PROVE  HostOK' /\ toHost' \in Seq(ToHost) /\ toClient' \in Seq(ToClient)
  <2>1. /\ Take("Stop") /\ running' = {} /\ stopped' = stopped \cup {r.gen : r \in running}
        /\ UNCHANGED <<toClient, feeds, track, sound>> /\ serving.at = "idle"
    BY <1>8 DEF StopStream, Take
  <2>2. PICK b \in BOOLEAN : serving' = Ending("endSound", b)
    BY <1>8 DEF StopStream
  <2>3. serving'.at = "endSound" /\ HostTypeOK'
    BY <2>1, <2>2, <1>a, <1>b DEF HostTypeOK, LoopAt, Ending, Carrier
  <2>4. Served' /\ OneCarrierPerBackend'
    BY <2>1, <2>3 DEF Served, Stopping, OneCarrierPerBackend
  <2>5. Fed'
    BY <2>1, <2>3 DEF Fed, Runs
  <2> QED
    BY <2>1, <2>3, <2>4, <2>5, <1>a, <1>c
<1>9. ASSUME StopCarrierTrack
      PROVE  HostOK' /\ toHost' \in Seq(ToHost) /\ toClient' \in Seq(ToClient)
  <2>1. /\ serving.at = "detach" /\ UNCHANGED <<toHost, running, stopped, feeds, sound>>
        /\ track' \in {track, 0} /\ (UNCHANGED toClient \/ Send(TrackEnded))
        /\ serving' = IF running = {} THEN Ending("endSound", FALSE) ELSE LoopIdle
    BY <1>9 DEF StopCarrierTrack, DetachWindow
  <2>2. serving'.at = (IF running = {} THEN "endSound" ELSE "idle") /\ HostTypeOK'
    BY <2>1, <1>a, <1>b DEF HostTypeOK, LoopAt, LoopIdle, Ending
  <2>3. Served' /\ OneCarrierPerBackend'
    BY <2>1, <2>2 DEF Served, Stopping, OneCarrierPerBackend
  <2>4. Fed'
    BY <2>1, <2>2 DEF Fed, Runs
  <2> QED
    BY <2>1, <2>2, <2>3, <2>4, <1>a, <1>b, <1>c
<1>10. ASSUME EndSound \/ EndTrack \/ EndTell
      PROVE  HostOK' /\ toHost' \in Seq(ToHost) /\ toClient' \in Seq(ToClient)
  <2>1. /\ Stopping /\ UNCHANGED <<toHost, running, stopped, feeds>>
        /\ track' \in {track, 0} /\ sound' \in {sound, FALSE}
        /\ UNCHANGED toClient \/ Send(TrackEnded) \/ Send(StreamStopped)
    BY <1>10 DEF EndSound, EndTrack, EndTell, DetachWindow, channel, Stopping
  <2>2. serving'.at \in {"endTrack", "endTell", "idle"}
        /\ serving' \in [at : LoopAt, gen : Gens \cup {0}, kind : Kinds, onTrack : BOOLEAN]
    <3>1. CASE EndTell
      BY <3>1, <1>b DEF EndTell, LoopAt, LoopIdle
    <3>2. CASE EndSound \/ EndTrack
      <4>1. PICK at \in {"endTrack", "endTell"} : serving' = [serving EXCEPT !.at = at]
        BY <3>2 DEF EndSound, EndTrack
      <4> QED
        BY <4>1, <1>a DEF HostTypeOK, LoopAt
    <3> QED
      BY <3>1, <3>2, <1>10
  <2>3. HostTypeOK'
    BY <2>1, <2>2, <1>a DEF HostTypeOK
  <2>4. running = {}
    BY <2>1 DEF Served
  <2>5. Served' /\ OneCarrierPerBackend'
    BY <2>1, <2>2, <2>4 DEF Served, Stopping, OneCarrierPerBackend
  <2>6. Fed'
    BY <2>1, <2>2, <2>4 DEF Fed, Runs, Stopping
  <2> QED
    BY <2>1, <2>3, <2>5, <2>6, <1>a, <1>b, <1>c
<1>11. ASSUME NEW r \in Carrier, StopCarrier(r)
      PROVE  HostOK' /\ toHost' \in Seq(ToHost) /\ toClient' \in Seq(ToClient)
  <2>1. /\ Take("CarrierStop") /\ r \in running /\ running' = running \ {r} /\ stopped' = stopped \cup {r.gen}
        /\ UNCHANGED <<toClient, feeds, track, sound>> /\ serving.at = "idle" /\ r.gen \in Gens
    BY <1>11 DEF StopCarrier, Take, Carrier
  <2>2. /\ serving'.at \in {"detach", "endSound", "idle"} /\ (serving'.at = "endSound" => running' = {})
        /\ serving' \in [at : LoopAt, gen : Gens \cup {0}, kind : Kinds, onTrack : BOOLEAN]
    BY <1>11, <1>b DEF StopCarrier, LoopAt, LoopIdle, Ending
  <2>3. HostTypeOK'
    BY <2>1, <2>2, <1>a DEF HostTypeOK
  <2>4. Served' /\ OneCarrierPerBackend'
    BY <2>1, <2>2 DEF Served, Stopping, OneCarrierPerBackend
  <2>5. Fed'
    BY <2>1, <2>2 DEF Fed, Runs
  <2> QED
    BY <2>1, <2>3, <2>4, <2>5, <1>a, <1>c
<1> QED
  BY <1>1, <1>2, <1>3, <1>4, <1>5, <1>6, <1>7, <1>8, <1>9, <1>10, <1>11 DEF LoopStep

\* So does a step of a frame thread.
LEMMA FeedsKeepHost ==
    ASSUME CarrierTypeOK, HostOK, FeedStep
    PROVE  HostOK' /\ toHost' \in Seq(ToHost) /\ toClient' \in Seq(ToClient)
<1> USE DEF HostOK
<1>1. toHost \in Seq(ToHost) /\ toClient \in Seq(ToClient)
  BY DEF CarrierTypeOK, ChannelTypeOK
<1>2. UNCHANGED <<toHost, serving, running, stopped>>
  BY DEF FeedStep, FeedStops, FeedBreaks, FeedChecks, FeedEndsSound, FeedEndsTrack, FeedTells, channel
<1>3. track' \in {track, 0} /\ sound' \in {sound, FALSE}
  BY DEF FeedStep, FeedStops, FeedBreaks, FeedChecks, FeedEndsSound, FeedEndsTrack, FeedTells, DetachWindow
<1>4. UNCHANGED toClient \/ Send(TrackEnded) \/ Send(StreamStopped)
  BY DEF FeedStep, FeedStops, FeedBreaks, FeedChecks, FeedEndsSound, FeedEndsTrack, FeedTells, DetachWindow, channel
<1>5. PICK f \in feeds : \/ feeds' = feeds \ {f}
                         \/ \E at \in FeedAt : feeds' = (feeds \ {f}) \cup {[f EXCEPT !.at = at]}
  <2> USE DEF FeedAt, MoveFeed, EndFeed
  <2> QED
    BY DEF FeedStep, FeedStops, FeedBreaks, FeedChecks, FeedEndsSound, FeedEndsTrack, FeedTells
<1>6. f.gen \in Gens /\ f = [gen |-> f.gen, at |-> f.at]
  BY DEF HostTypeOK
<1>7. \A x \in feeds' : x \in feeds \/ (x \in [gen : Gens, at : FeedAt] /\ x.gen = f.gen)
  BY <1>5, <1>6
<1>8. HostTypeOK'
  BY <1>2, <1>3, <1>7 DEF HostTypeOK
<1>9. Served' /\ OneCarrierPerBackend'
  BY <1>2 DEF Served, Stopping, OneCarrierPerBackend
<1>10. \A x \in feeds' : \E y \in feeds : x.gen = y.gen
  BY <1>7
<1>11. Fed'
  BY <1>2, <1>10 DEF Fed, Runs
<1>12. toClient' \in Seq(ToClient)
  BY <1>1, <1>4, QueuesTyped, ClientMessages
<1> QED
  BY <1>1, <1>2, <1>8, <1>9, <1>11, <1>12

\* What the client keeps, and all it sends, are of their types.
LEMMA ClientTypes ==
    ASSUME CarrierTypeOK, LoginsFit, ClientStep
    PROVE  ClientTypeOK' /\ toHost' \in Seq(ToHost) /\ toClient' \in Seq(ToClient)
<1>a. toHost \in Seq(ToHost) /\ toClient \in Seq(ToClient) /\ ClientTypeOK
  BY DEF CarrierTypeOK, ChannelTypeOK
<1>b. /\ StopRequest \in ToHost
      /\ \A g \in Gens, k \in Kinds : StartRequest(g, k) \in ToHost
      /\ \A g \in Gens : CarrierStop(g) \in ToHost
  BY HostMessages, ChannelAssumption
<1>c. /\ \A m \in ToHost : Ask(m) => toHost' \in Seq(ToHost)
      /\ \A type : Receive(type) => toClient' \in Seq(ToClient)
  BY QueuesTyped
<1>d. MayAsk => gen + 1 \in Gens /\ gen + 1 > gen
  BY <1>a, ChannelAssumption DEF MayAsk, ClientTypeOK, Gens
<1>1. ASSUME NEW kind \in Kinds, StartWindow(kind)
      PROVE  ClientTypeOK' /\ toHost' \in Seq(ToHost) /\ toClient' \in Seq(ToClient)
  <2>1. PICK h \in Gens : h = gen + 1 /\ gen' = h /\ asked' = h /\ wanted' = TRUE /\ Ask(StartRequest(h, kind))
    BY <1>1, <1>d DEF StartWindow
  <2>2. UNCHANGED <<toClient, shown, next, up, timers, logins, rdp, hears, givenUp>>
    BY <1>1 DEF StartWindow
  <2> QED
    BY <2>1, <2>2, <1>a, <1>b, <1>c DEF ClientTypeOK
<1>2. ASSUME StopWindow
      PROVE  ClientTypeOK' /\ toHost' \in Seq(ToHost) /\ toClient' \in Seq(ToClient)
  BY <1>2, <1>a, <1>b, <1>c DEF ClientTypeOK, StopWindow
<1>3. ASSUME NEW kind \in Kinds, StartSwitch(kind)
      PROVE  ClientTypeOK' /\ toHost' \in Seq(ToHost) /\ toClient' \in Seq(ToClient)
  <2>1. PICK h \in Gens : /\ h = gen + 1 /\ gen' = h /\ next' = {[gen |-> h, kind |-> kind]} /\ up' = FALSE
                          /\ timers' = timers \cup {h} /\ Ask(StartRequest(h, kind))
    BY <1>3, <1>d DEF StartSwitch
  <2>2. UNCHANGED <<toClient, shown, logins, rdp, hears, wanted, asked, givenUp>>
    BY <1>3 DEF StartSwitch
  <2>3. [gen |-> h, kind |-> kind] \in Carrier
    BY DEF Carrier
  <2> QED
    BY <2>1, <2>2, <2>3, <1>a, <1>b, <1>c DEF ClientTypeOK
<1>4. ASSUME CarrierShown
      PROVE  ClientTypeOK' /\ toHost' \in Seq(ToHost) /\ toClient' \in Seq(ToClient)
  <2>1. PICK old \in shown : rdp' = (IF old.kind = "Rdp" THEN 0 ELSE rdp) /\ Ask(CarrierStop(old.gen))
    BY <1>4 DEF CarrierShown
  <2>2. old.gen \in Gens
    BY <1>a DEF ClientTypeOK, Carrier
  <2>3. shown' = next /\ next' = {} /\ up' = FALSE /\ timers' \subseteq timers
        /\ UNCHANGED <<toClient, gen, logins, hears, wanted, asked, givenUp>>
    BY <1>4 DEF CarrierShown
  <2> QED
    BY <2>1, <2>2, <2>3, <1>a, <1>b, <1>c DEF ClientTypeOK
<1>5. ASSUME AcceptedRdp \/ Accepted \/ Refused
      PROVE  ClientTypeOK' /\ toHost' \in Seq(ToHost) /\ toClient' \in Seq(ToClient)
  <2>1. Receive("Answer") /\ UNCHANGED <<toHost, gen, rdp, hears, wanted, givenUp>>
    BY <1>5 DEF AcceptedRdp, Accepted, Refused
  <2>2. PICK m : m = Head(toClient)
    OBVIOUS
  <2>3. m.gen \in Gens /\ m.kind \in Kinds
    BY <2>1, <2>2, <1>a, TakenAtClient
  <2>4. logins' \in {logins, logins \cup {m.gen}} /\ next' \in {next, {}} /\ up' \in {up, TRUE, FALSE}
    BY <1>5, <2>2 DEF AcceptedRdp, Accepted, Refused
  <2>5. shown' \in {shown, {[gen |-> m.gen, kind |-> m.kind]}}
    BY <1>5, <2>2 DEF AcceptedRdp, Accepted, Refused
  <2>6. timers' \subseteq timers /\ asked' \in {asked, 0}
    BY <1>5, <2>2 DEF AcceptedRdp, Accepted, Refused, Answered
  <2>7. [gen |-> m.gen, kind |-> m.kind] \in Carrier
    BY <2>3 DEF Carrier
  <2> QED
    BY <2>1, <2>3, <2>4, <2>5, <2>6, <2>7, <1>a, <1>c DEF ClientTypeOK
<1>6. ASSUME ReceiveTrackEnded \/ ReceiveSound \/ ReceiveStreamStopped
      PROVE  ClientTypeOK' /\ toHost' \in Seq(ToHost) /\ toClient' \in Seq(ToClient)
  <2>1. toClient' \in Seq(ToClient) /\ UNCHANGED <<toHost, gen, timers, logins, wanted, asked, givenUp>>
    BY <1>6, <1>c DEF ReceiveTrackEnded, ReceiveSound, ReceiveStreamStopped
  <2>2. shown' \in {shown, {}} /\ next' \in {next, {}} /\ up' \in {up, FALSE} /\ rdp' \in {rdp, 0}
        /\ hears' \in {hears, "sound", "ended"}
    BY <1>6 DEF ReceiveTrackEnded, ReceiveSound, ReceiveStreamStopped, TracksEnd
  <2> QED
    BY <2>1, <2>2, <1>a DEF ClientTypeOK
<1>7. ASSUME NEW g \in Gens, GiveUp(g) \/ LoginFails(g)
      PROVE  ClientTypeOK' /\ toHost' \in Seq(ToHost) /\ toClient' \in Seq(ToClient)
  <2>1. UNCHANGED <<toClient, gen, shown, hears, wanted>> /\ timers' \subseteq timers /\ logins' \subseteq logins
        /\ asked' \in {asked, 0}
    BY <1>7 DEF GiveUp, LoginFails, Answered
  <2>2. \/ UNCHANGED <<next, up, rdp, givenUp>>
        \/ next' = {} /\ up' = FALSE /\ rdp' \in {0, rdp} /\ givenUp' = givenUp \cup {g}
    BY <1>7 DEF GiveUp, LoginFails, AbandonSwitch
  <2>3. UNCHANGED toHost \/ Ask(StopRequest) \/ Ask(CarrierStop(g))
    BY <1>7 DEF GiveUp, LoginFails, AbandonSwitch
  <2> QED
    BY <2>1, <2>2, <2>3, <1>a, <1>b, <1>c DEF ClientTypeOK
<1>8. ASSUME NEW g \in Gens, LoginDone(g)
      PROVE  ClientTypeOK' /\ toHost' \in Seq(ToHost) /\ toClient' \in Seq(ToClient)
  <2>1. UNCHANGED <<channel, gen, next, timers, hears, wanted, givenUp>> /\ logins' \subseteq logins /\ rdp' = g
        /\ asked' \in {asked, 0} /\ up' \in {up, TRUE}
    BY <1>8 DEF LoginDone, Answered
  <2>2. shown' \in {shown, {[gen |-> g, kind |-> "Rdp"]}}
    BY <1>8 DEF LoginDone
  <2>3. [gen |-> g, kind |-> "Rdp"] \in Carrier
    BY <1>8 DEF LoginDone, LoginsFit, Carrier
  <2> QED
    BY <2>1, <2>2, <2>3, <1>a DEF ClientTypeOK, channel
<1> QED
  BY <1>1, <1>2, <1>3, <1>4, <1>5, <1>6, <1>7, <1>8 DEF ClientStep, AppStep, PumpStep, Switch, Login

LEMMA LoginsKept ==
    ASSUME CarrierTypeOK, LoginsFit, ClientStep
    PROVE  LoginsFit'
<1>1. logins' \subseteq logins \/ AcceptedRdp
  BY DEF ClientStep, AppStep, PumpStep, Switch, Login, StartWindow, StopWindow, StartSwitch, CarrierShown, Accepted,
         Refused, ReceiveTrackEnded, ReceiveSound, ReceiveStreamStopped, GiveUp, LoginDone, LoginFails
<1>2. ASSUME AcceptedRdp PROVE "Rdp" \in Kinds
  <2>1. Receive("Answer") /\ Head(toClient).kind = "Rdp" /\ toClient \in Seq(ToClient)
    BY <1>2 DEF AcceptedRdp, CarrierTypeOK, ChannelTypeOK
  <2> QED
    BY <2>1, TakenAtClient
<1> QED
  BY <1>1, <1>2 DEF LoginsFit

\* The part of the invariant that needs no calm.
LEMMA BaseKept ==
    BaseInv /\ [CarrierNext]_carrierVars => BaseInv'
<1> SUFFICES ASSUME BaseInv, [CarrierNext]_carrierVars PROVE BaseInv'
  OBVIOUS
<1>1. CarrierTypeOK /\ LoginsFit /\ HostOK /\ ChannelTypeOK /\ ClientTypeOK
  BY FedIsAccounted DEF BaseInv, HostOK, CarrierTypeOK
<1>2. CASE HostNext /\ UNCHANGED <<clientVars, calm>>
  <2>1. HostOK' /\ toHost' \in Seq(ToHost) /\ toClient' \in Seq(ToClient)
    BY <1>1, <1>2, LoopKeepsHost, FeedsKeepHost DEF HostNext
  <2>2. ClientTypeOK' /\ LoginsFit'
    BY <1>1, <1>2 DEF ClientTypeOK, LoginsFit, clientVars
  <2>3. ChannelTypeOK'
    BY <2>1, <1>1, <1>2 DEF ChannelTypeOK
  <2> QED
    BY <2>1, <2>2, <2>3, FedIsAccounted DEF BaseInv, HostOK, CarrierTypeOK
<1>3. CASE ClientStep /\ UNCHANGED <<hostVars, calm>>
  <2>1. ClientTypeOK' /\ toHost' \in Seq(ToHost) /\ toClient' \in Seq(ToClient) /\ LoginsFit'
    BY <1>1, <1>3, ClientTypes, LoginsKept
  <2>2. HostOK'
    BY <1>1, <1>3 DEF hostVars, HostOK, HostTypeOK, Served, OneCarrierPerBackend, Fed, Stopping, Runs
  <2>3. ChannelTypeOK'
    BY <2>1, <1>1, <1>3 DEF ChannelTypeOK
  <2> QED
    BY <2>1, <2>2, <2>3, FedIsAccounted DEF BaseInv, HostOK, CarrierTypeOK
<1>4. CASE UNCHANGED carrierVars
  <2>1. UNCHANGED hostVars /\ UNCHANGED clientVars /\ UNCHANGED channel /\ UNCHANGED calm
    BY <1>4 DEF carrierVars
  <2>2. HostOK'
    BY <2>1, <1>1 DEF hostVars, HostOK, HostTypeOK, Served, OneCarrierPerBackend, Fed, Stopping, Runs
  <2>3. ChannelTypeOK' /\ ClientTypeOK' /\ LoginsFit'
    BY <2>1, <1>1 DEF channel, clientVars, ChannelTypeOK, ClientTypeOK, LoginsFit
  <2> QED
    BY <2>2, <2>3, FedIsAccounted DEF BaseInv, HostOK, CarrierTypeOK
<1> QED
  BY <1>2, <1>3, <1>4 DEF CarrierNext

-----------------------------------------------------------------------------
(* In calm: what a step changes at the host and at the client.              *)

Loading == serving.at \in {"open", "sound", "answer"}

HostStays ==
    /\ \A g \in Gens : (Starting(g)' <=> Starting(g)) /\ (Runs(g)' <=> Runs(g))
    /\ Loading' <=> Loading
    /\ \A g \in Gens : Starting(g) => serving'.kind = serving.kind
    /\ Stopping' <=> Stopping
    /\ running' = running

ClientStays ==
    /\ \A g \in Gens : (LogsIn(g)' <=> LogsIn(g)) /\ (Shows(g)' <=> Shows(g)) /\ (Switching(g)' <=> Switching(g))
    /\ UNCHANGED <<gen, shown, next, up, rdp, wanted, asked, givenUp>>

LEMMA NothingDone ==
    /\ UNCHANGED hostVars => HostStays
    /\ UNCHANGED clientVars => ClientStays
<1>1. ASSUME UNCHANGED hostVars PROVE HostStays
  BY <1>1 DEF HostStays, hostVars, Starting, Runs, Loading, Stopping
<1>2. ASSUME UNCHANGED clientVars PROVE ClientStays
  BY <1>2 DEF ClientStays, clientVars, LogsIn, Shows, Switching
<1> QED
  BY <1>1, <1>2

\* The types, where the steps below need them.
LEMMA Typed ==
    ASSUME BaseInv
    PROVE  /\ toHost \in Seq(ToHost) /\ toClient \in Seq(ToClient)
           /\ gen \in Nat /\ Gens \subseteq Nat
           /\ \A c \in running \cup shown \cup next : c.gen \in Gens /\ c.kind \in Kinds
           /\ \A g \in Gens : g # 0
BY ChannelAssumption DEF BaseInv, CarrierTypeOK, ChannelTypeOK, HostTypeOK, ClientTypeOK, Carrier, Gens

\* A step that changes none of it keeps the invariant.
LEMMA StillKeeps ==
    ASSUME BaseInv, CalmInv, FeedsRun', HostQueueSame, ClientQueueSame, HostStays, ClientStays,
           serving'.at = "detach" => serving.at = "detach"
    PROVE  CalmInv'
<1> USE DEF CalmInv
<1>1. \A c \in shown \cup next : c.gen \in Gens /\ c.kind \in Kinds
  BY Typed
<1>2. OneShown'
  BY HostQueueSame, ClientQueueSame, HostStays, ClientStays, <1>1
  DEF HostQueueSame, ClientQueueSame, HostStays, ClientStays, OneShown
<1>3. Fresh'
  BY HostQueueSame, ClientQueueSame, HostStays, ClientStays, <1>1
  DEF HostQueueSame, ClientQueueSame, HostStays, ClientStays, Fresh, InUse, Told
<1>4. Owned'
  BY HostQueueSame, ClientQueueSame, HostStays, ClientStays, <1>1
  DEF HostQueueSame, ClientQueueSame, HostStays, ClientStays, Owned, Told
<1>5. OnePlace'
  BY HostQueueSame, ClientQueueSame, HostStays, ClientStays, <1>1
  DEF HostQueueSame, ClientQueueSame, HostStays, ClientStays, OnePlace, Told
<1>6. Apart'
  BY HostQueueSame, ClientQueueSame, HostStays, ClientStays, <1>1
  DEF HostQueueSame, ClientQueueSame, HostStays, ClientStays, Apart
<1>7. StopsInTurn'
  BY HostQueueSame, ClientQueueSame, HostStays, ClientStays, <1>1
  DEF HostQueueSame, ClientQueueSame, HostStays, ClientStays, StopsInTurn, StopAhead, Ended
<1>8. AnswersAreTrue'
  BY HostQueueSame, ClientQueueSame, HostStays, ClientStays, <1>1
  DEF HostQueueSame, ClientQueueSame, HostStays, ClientStays, AnswersAreTrue
<1>9. Carried'
  BY HostQueueSame, ClientQueueSame, HostStays, ClientStays, <1>1
  DEF HostQueueSame, ClientQueueSame, HostStays, ClientStays, Carried, Ended
<1>10. DetachKeeps'
  BY HostQueueSame, ClientQueueSame, HostStays, ClientStays, <1>1, (serving'.at = "detach" => serving.at = "detach")
  DEF HostQueueSame, ClientQueueSame, HostStays, ClientStays, DetachKeeps
<1>11. Unwanted'
  BY HostQueueSame, ClientQueueSame, HostStays, ClientStays, <1>1
  DEF HostQueueSame, ClientQueueSame, HostStays, ClientStays, Unwanted, Loading
<1>12. KindsAgree'
  BY HostQueueSame, ClientQueueSame, HostStays, ClientStays, <1>1
  DEF HostQueueSame, ClientQueueSame, HostStays, ClientStays, KindsAgree
<1>13. RdpIsHeld'
  BY HostQueueSame, ClientQueueSame, HostStays, ClientStays, <1>1
  DEF HostQueueSame, ClientQueueSame, HostStays, ClientStays, RdpIsHeld, Ended
<1> QED
  BY <1>2, <1>3, <1>4, <1>5, <1>6, <1>7, <1>8, <1>9, <1>10, <1>11, <1>12, <1>13, FeedsRun' DEF CalmInv

\* In calm no frame thread ends the stream.
LEMMA FeedsRunOn ==
    ASSUME FeedsRun, calm, HostNext \/ UNCHANGED hostVars
    PROVE  FeedsRun' /\ (FeedStep => UNCHANGED <<channel, serving, running, stopped, track, sound>>)
<1>1. CASE FeedStep
  <2>1. PICK f \in feeds : FeedStops(f)
    BY <1>1 DEF FeedStep, FeedsRun, FeedBreaks, FeedChecks, FeedEndsSound, FeedEndsTrack, FeedTells
  <2> QED
    BY <2>1 DEF FeedsRun, FeedStops, EndFeed
<1>2. CASE ~ FeedStep /\ (LoopStep \/ UNCHANGED hostVars)
  <2>1. feeds' = feeds \/ feeds' = feeds \cup {[gen |-> serving.gen, at |-> "run"]}
    BY <1>2 DEF LoopStep, hostVars, RefuseCarried, RefusePolicy, BeginStart, OpenFails, OpenCarrier,
        StartSound, AnswerStart,
            StopNothing, StopStream, CarrierStopNothing, StopCarrierTrack, EndSound, EndTrack, EndTell, StopCarrier
  <2> QED
    BY <1>2, <2>1 DEF FeedsRun
<1> QED
  BY <1>1, <1>2 DEF HostNext

\* The steps that change none of it.
LEMMA HostStillKeeps ==
    ASSUME BaseInv, CalmInv, calm, FeedsRun', UNCHANGED clientVars,
           OpenCarrier \/ StartSound \/ StopCarrierTrack \/ EndSound \/ EndTrack \/ FeedStep
    PROVE  CalmInv'
<1>1. ClientStays
  BY NothingDone
<1>2. UNCHANGED toHost
  BY FeedsRunOn DEF OpenCarrier, StartSound, StopCarrierTrack, EndSound, EndTrack, HostNext, CalmInv, channel
<1>3. HostQueueSame
  BY <1>2, NothingSent
<1>4. UNCHANGED toClient \/ Send(TrackEnded) \/ Send(SoundOffer)
  BY FeedsRunOn DEF OpenCarrier, StartSound, StopCarrierTrack, EndSound, EndTrack, HostNext, CalmInv,
      channel, DetachWindow
<1>5. ClientQueueSame
  BY <1>4, NothingSent, SentToClient, Typed
<1>6. CASE FeedStep
  <2>1. UNCHANGED <<serving, running>>
    BY <1>6, FeedsRunOn DEF HostNext, CalmInv
  <2>2. HostStays
    BY <2>1 DEF HostStays, Starting, Runs, Loading, Stopping
  <2> QED
    BY <1>1, <1>3, <1>5, <2>1, <2>2, StillKeeps
<1>7. CASE OpenCarrier \/ StartSound
  <2>1. serving.at \in {"open", "sound"} /\ UNCHANGED running
    BY <1>7 DEF OpenCarrier, StartSound
  <2>2. PICK at \in {"sound", "answer"} : serving' = [serving EXCEPT !.at = at]
    BY <1>7 DEF OpenCarrier, StartSound
  <2>3. serving'.at = at /\ serving'.gen = serving.gen /\ serving'.kind = serving.kind
    BY <2>2 DEF BaseInv, CarrierTypeOK, HostTypeOK
  <2>4. HostStays
    BY <2>1, <2>3 DEF HostStays, Starting, Runs, Loading, Stopping
  <2> QED
    BY <1>1, <1>3, <1>5, <2>3, <2>4, StillKeeps
<1>8. CASE StopCarrierTrack
  <2>1. serving.at = "detach" /\ UNCHANGED running /\ serving'.at = "idle"
    BY <1>8 DEF StopCarrierTrack, CalmInv, DetachKeeps, LoopIdle
  <2>2. HostStays
    BY <2>1 DEF HostStays, Starting, Runs, Loading, Stopping
  <2> QED
    BY <1>1, <1>3, <1>5, <2>1, <2>2, StillKeeps
<1>9. CASE EndSound \/ EndTrack
  <2>1. serving.at \in {"endSound", "endTrack"} /\ UNCHANGED running
    BY <1>9 DEF EndSound, EndTrack
  <2>2. PICK at \in {"endTrack", "endTell"} : serving' = [serving EXCEPT !.at = at]
    BY <1>9 DEF EndSound, EndTrack
  <2>3. serving'.at = at
    BY <2>2 DEF BaseInv, CarrierTypeOK, HostTypeOK
  <2>4. HostStays
    BY <2>1, <2>3 DEF HostStays, Starting, Runs, Loading, Stopping
  <2> QED
    BY <1>1, <1>3, <1>5, <2>3, <2>4, StillKeeps
<1> QED
  BY <1>6, <1>7, <1>8, <1>9

LEMMA ClientStillKeeps ==
    ASSUME BaseInv, CalmInv, FeedsRun', UNCHANGED hostVars,
           \/ ReceiveTrackEnded \/ ReceiveSound \/ UNCHANGED <<channel, clientVars>>
           \/ \E g \in Gens : GiveUp(g) /\ ~ Switching(g)
    PROVE  CalmInv'
<1>1. HostStays /\ UNCHANGED serving
  BY NothingDone DEF hostVars
<1>2. UNCHANGED toHost
  BY DEF ReceiveTrackEnded, ReceiveSound, GiveUp, channel
<1>3. UNCHANGED toClient \/ Receive("TrackEnded") \/ Receive("Sound")
  BY DEF ReceiveTrackEnded, ReceiveSound, GiveUp, channel
<1>4. HostQueueSame /\ ClientQueueSame
  BY <1>2, <1>3, NothingSent, TakenAtClient, Typed
<1>5. UNCHANGED <<gen, shown, next, up, rdp, wanted, asked, givenUp, logins>>
  BY DEF ReceiveTrackEnded, ReceiveSound, GiveUp, clientVars
<1>6. ClientStays
  BY <1>5 DEF ClientStays, LogsIn, Shows, Switching
<1> QED
  BY <1>1, <1>4, <1>6, StillKeeps

\* What is in a queue twice, or before something, is in it.
QueueFacts ==
    \A g \in Gens :
        /\ AsksTwice(g) => Asks(g)
        /\ StopThenStart(g) => StopComing /\ Asks(g)
        /\ StartThenStop(g) => Asks(g) /\ StopComing
        /\ \A k \in Kinds : AskedAs(g, k) => Asks(g)
        /\ ToldTwice(g) => Told(g)
        /\ EndThenAnswer(g) => EndComing /\ Told(g)
        /\ AnswerThenEnd(g) => Told(g) /\ EndComing
        /\ \A k \in Kinds : GrantedAs(g, k) => Granted(g)

LEMMA QueueFactsHold == QueueFacts /\ QueueFacts'
<1>1. \A q, A, B : Ahead(q, A, B) => Has(q, A) /\ Has(q, B)
  BY DEF Ahead, Has
<1>2. \A q, A, B : A \subseteq B /\ Has(q, A) => Has(q, B)
  BY DEF Has
<1>3. \A g : \A k \in Kinds : {StartRequest(g, k)} \subseteq Starts(g) /\ {StartResponse(g, k, TRUE)} \subseteq Yes(g)
  BY DEF Starts, Yes
<1>4. \A q, g : Has(q, Answers(g)) <=> Has(q, Yes(g)) \/ Has(q, No(g))
  BY HasEither DEF Answers
<1>5. QueueFacts
  <2>1. ASSUME NEW g \in Gens
        PROVE  /\ AsksTwice(g) => Asks(g)
               /\ StopThenStart(g) => StopComing /\ Asks(g)
               /\ StartThenStop(g) => Asks(g) /\ StopComing
               /\ ToldTwice(g) => Told(g)
               /\ EndThenAnswer(g) => EndComing /\ Told(g)
               /\ AnswerThenEnd(g) => Told(g) /\ EndComing
    BY <1>1, <1>4 DEF Asks, StopComing, AsksTwice, StopThenStart, StartThenStop, Told, Granted, Denied, EndComing,
       ToldTwice, EndThenAnswer, AnswerThenEnd
  <2>2. ASSUME NEW g \in Gens, NEW k \in Kinds
        PROVE  (AskedAs(g, k) => Asks(g)) /\ (GrantedAs(g, k) => Granted(g))
    <3>1. PICK a, b, d, e : /\ a = {StartRequest(g, k)} /\ b = {StartResponse(g, k, TRUE)}
                            /\ d = Starts(g) /\ e = Yes(g)
      OBVIOUS
    <3>2. a \subseteq d /\ b \subseteq e
      BY <3>1, <1>3
    <3>3. (Has(toHost, a) => Has(toHost, d)) /\ (Has(toClient, b) => Has(toClient, e))
      BY <3>2, <1>2
    <3> QED
      BY <3>1, <3>3 DEF Asks, AskedAs, Granted, GrantedAs
  <2> QED
    BY <2>1, <2>2 DEF QueueFacts
<1>6. QueueFacts'
  <2>1. ASSUME NEW g \in Gens
        PROVE  /\ AsksTwice(g)' => Asks(g)'
               /\ StopThenStart(g)' => StopComing' /\ Asks(g)'
               /\ StartThenStop(g)' => Asks(g)' /\ StopComing'
               /\ ToldTwice(g)' => Told(g)'
               /\ EndThenAnswer(g)' => EndComing' /\ Told(g)'
               /\ AnswerThenEnd(g)' => Told(g)' /\ EndComing'
    BY <1>1, <1>4 DEF Asks, StopComing, AsksTwice, StopThenStart, StartThenStop, Told, Granted, Denied, EndComing,
       ToldTwice, EndThenAnswer, AnswerThenEnd
  <2>2. ASSUME NEW g \in Gens, NEW k \in Kinds
        PROVE  (AskedAs(g, k)' => Asks(g)') /\ (GrantedAs(g, k)' => Granted(g)')
    <3>1. PICK a, b, d, e : /\ a = {StartRequest(g, k)} /\ b = {StartResponse(g, k, TRUE)}
                            /\ d = Starts(g) /\ e = Yes(g)
      OBVIOUS
    <3>2. a \subseteq d /\ b \subseteq e
      BY <3>1, <1>3
    <3>3. (Has(toHost', a) => Has(toHost', d)) /\ (Has(toClient', b) => Has(toClient', e))
      BY <3>2, <1>2
    <3> QED
      BY <3>1, <3>3 DEF Asks, AskedAs, Granted, GrantedAs
  <2> QED
    BY <2>1, <2>2 DEF QueueFacts
<1> QED
  BY <1>5, <1>6

-----------------------------------------------------------------------------
(* In calm: the session loop.                                               *)

LEMMA RefuseKeeps ==
    ASSUME BaseInv, CalmInv, FeedsRun', UNCHANGED clientVars, RefuseCarried \/ RefusePolicy
    PROVE  CalmInv'
<1> USE DEF CalmInv
<1>1. PICK m : m = Head(toHost)
  OBVIOUS
<1>2. Take("Start") /\ Send(StartResponse(m.gen, "Native", FALSE)) /\ UNCHANGED hostVars
  BY <1>1 DEF RefuseCarried, RefusePolicy
<1>3. /\ m.gen \in Gens /\ m.kind \in Kinds /\ StartTaken(m.gen, m.kind) /\ serving.at = "idle"
  BY <1>1, <1>2, TakenAtHost, Typed
<1>4. PICK h \in Gens, l \in Kinds : StartTaken(h, l) /\ Send(StartResponse(h, "Native", FALSE))
  BY <1>2, <1>3
<1>5. AnswerSent(h, "Native", FALSE)
  BY <1>4, SentToClient, Typed, ChannelAssumption
<1>6. HostStays /\ ClientStays /\ UNCHANGED serving
  BY <1>2, NothingDone DEF hostVars
<1>7. QueueFacts /\ QueueFacts'
  BY QueueFactsHold
<1>8. ~ Stopping /\ ~ Loading /\ \A g \in Gens : ~ Starting(g)
  BY <1>3 DEF Stopping, Loading, Starting
<1>9. \A c \in shown \cup next : c.gen \in Gens /\ c.kind \in Kinds
  BY Typed
<1>10. OneShown'
  BY <1>3, <1>4, <1>5, <1>6, <1>7, <1>8, <1>9
  DEF StartTaken, AnswerSent, HostStays, ClientStays, QueueFacts, OneShown
<1>11. Fresh'
  BY <1>3, <1>4, <1>5, <1>6, <1>7, <1>8, <1>9
  DEF StartTaken, AnswerSent, HostStays, ClientStays, Fresh, InUse, Told
<1>12. Owned'
  BY <1>3, <1>4, <1>5, <1>6, <1>7, <1>8, <1>9
  DEF StartTaken, AnswerSent, HostStays, ClientStays, QueueFacts, Owned, Told
<1>13. OnePlace'
  BY <1>3, <1>4, <1>5, <1>6, <1>7, <1>8, <1>9
  DEF StartTaken, AnswerSent, HostStays, ClientStays, QueueFacts, OnePlace, Told
<1>14. Apart'
  BY <1>3, <1>4, <1>5, <1>6, <1>7, <1>8, <1>9
  DEF StartTaken, AnswerSent, HostStays, ClientStays, QueueFacts, Apart
<1>15. StopsInTurn'
  BY <1>3, <1>4, <1>5, <1>6, <1>7, <1>8, <1>9
  DEF StartTaken, AnswerSent, HostStays, ClientStays, QueueFacts, StopsInTurn, StopAhead, Ended,
      OnePlace, Owned, Apart, Told
<1>16. AnswersAreTrue'
  BY <1>3, <1>4, <1>5, <1>6, <1>7, <1>8, <1>9
  DEF StartTaken, AnswerSent, HostStays, ClientStays, QueueFacts, AnswersAreTrue, OnePlace, Told
<1>17. Carried'
  BY <1>3, <1>4, <1>5, <1>6, <1>7, <1>8, <1>9
  DEF StartTaken, AnswerSent, HostStays, ClientStays, QueueFacts, Carried, Ended, Owned, Apart
<1>18. DetachKeeps'
  BY <1>3, <1>4, <1>5, <1>6, <1>7, <1>8, <1>9
  DEF StartTaken, AnswerSent, HostStays, ClientStays, QueueFacts, DetachKeeps
<1>19. Unwanted'
  BY <1>3, <1>4, <1>5, <1>6, <1>7, <1>8, <1>9
  DEF StartTaken, AnswerSent, HostStays, ClientStays, QueueFacts, Unwanted, Loading, OnePlace
<1>20. KindsAgree'
  BY <1>3, <1>4, <1>5, <1>6, <1>7, <1>8, <1>9
  DEF StartTaken, AnswerSent, HostStays, ClientStays, QueueFacts, KindsAgree
<1>21. RdpIsHeld'
  BY <1>3, <1>4, <1>5, <1>6, <1>7, <1>8, <1>9
  DEF StartTaken, AnswerSent, HostStays, ClientStays, QueueFacts, RdpIsHeld, Ended
<1> QED
  BY <1>10, <1>11, <1>12, <1>13, <1>14, <1>15, <1>16, <1>17, <1>18, <1>19, <1>20, <1>21, FeedsRun' DEF CalmInv

LEMMA BeginStartKeeps ==
    ASSUME BaseInv, CalmInv, FeedsRun', UNCHANGED clientVars, BeginStart, RdpOffered
    PROVE  CalmInv'
<1> USE DEF CalmInv
<1>1. PICK m : m = Head(toHost)
  OBVIOUS
<1>2. Take("Start") /\ UNCHANGED <<toClient, running>>
      /\ serving' = [at |-> "open", gen |-> m.gen, kind |-> Serve(m.kind), onTrack |-> FALSE]
  BY <1>1 DEF BeginStart
<1>3. m.gen \in Gens /\ m.kind \in Kinds /\ StartTaken(m.gen, m.kind) /\ serving.at = "idle"
      /\ Serve(m.kind) \in Kinds /\ (Serve(m.kind) = "Rdp" <=> m.kind = "Rdp")
  BY <1>1, <1>2, TakenAtHost, Typed, HostAssumption DEF Serve, RdpOffered
<1>4. PICK h \in Gens, l \in Kinds, k \in Kinds :
        /\ StartTaken(h, l) /\ (k = "Rdp" <=> l = "Rdp")
        /\ serving' = [at |-> "open", gen |-> h, kind |-> k, onTrack |-> FALSE]
  BY <1>2, <1>3
<1>5. ClientQueueSame
  BY <1>2, NothingSent
<1>6. ClientStays
  BY NothingDone
<1>7. QueueFacts /\ QueueFacts'
  BY QueueFactsHold
<1>8. ~ Stopping /\ ~ Loading /\ \A g \in Gens : ~ Starting(g)
  BY <1>3 DEF Stopping, Loading, Starting
<1>9. ~ Stopping' /\ Loading' /\ (\A g \in Gens : Starting(g)' <=> g = h) /\ serving'.kind = k /\ serving'.at = "open"
  BY <1>4 DEF Stopping, Loading, Starting
<1>10. running' = running /\ \A g \in Gens : Runs(g)' <=> Runs(g)
  BY <1>2 DEF Runs
<1>11. \A c \in shown \cup next : c.gen \in Gens /\ c.kind \in Kinds
  BY Typed
<1>12. AskedAs(h, l)
  BY <1>4 DEF StartTaken
<1>13. OneShown'
  BY <1>4, <1>5, <1>6, <1>7, <1>8, <1>9, <1>10, <1>11, <1>12
  DEF StartTaken, ClientQueueSame, ClientStays, QueueFacts, OneShown
<1>14. Fresh'
  BY <1>4, <1>5, <1>6, <1>7, <1>8, <1>9, <1>10, <1>11, <1>12
  DEF StartTaken, ClientQueueSame, ClientStays, Fresh, InUse, Told
<1>15. Owned'
  BY <1>4, <1>5, <1>6, <1>7, <1>8, <1>9, <1>10, <1>11, <1>12
  DEF StartTaken, ClientQueueSame, ClientStays, QueueFacts, Owned, Told
<1>16. OnePlace'
  BY <1>4, <1>5, <1>6, <1>7, <1>8, <1>9, <1>10, <1>11, <1>12
  DEF StartTaken, ClientQueueSame, ClientStays, QueueFacts, OnePlace, Told
<1>17. Apart'
  BY <1>4, <1>5, <1>6, <1>7, <1>8, <1>9, <1>10, <1>11, <1>12
  DEF StartTaken, ClientQueueSame, ClientStays, QueueFacts, Apart
<1>18. StopsInTurn'
  BY <1>4, <1>5, <1>6, <1>7, <1>8, <1>9, <1>10, <1>11, <1>12
  DEF StartTaken, ClientQueueSame, ClientStays, QueueFacts, StopsInTurn, StopAhead, Ended, OnePlace,
      Owned, Apart, Told
<1>19. AnswersAreTrue'
  BY <1>4, <1>5, <1>6, <1>7, <1>8, <1>9, <1>10, <1>11, <1>12
  DEF StartTaken, ClientQueueSame, ClientStays, QueueFacts, AnswersAreTrue, OnePlace, Told
<1>20. Carried'
  BY <1>4, <1>5, <1>6, <1>7, <1>8, <1>9, <1>10, <1>11, <1>12
  DEF StartTaken, ClientQueueSame, ClientStays, QueueFacts, Carried, Ended, Owned, Apart
<1>21. DetachKeeps'
  BY <1>4, <1>5, <1>6, <1>7, <1>8, <1>9, <1>10, <1>11, <1>12
  DEF StartTaken, ClientQueueSame, ClientStays, QueueFacts, DetachKeeps
<1>22. Unwanted'
  BY <1>4, <1>5, <1>6, <1>7, <1>8, <1>9, <1>10, <1>11, <1>12
  DEF StartTaken, ClientQueueSame, ClientStays, QueueFacts, Unwanted, Loading, OnePlace
<1>23. KindsAgree'
  BY <1>4, <1>5, <1>6, <1>7, <1>8, <1>9, <1>10, <1>11, <1>12
  DEF StartTaken, ClientQueueSame, ClientStays, QueueFacts, KindsAgree
<1>24. RdpIsHeld'
  BY <1>4, <1>5, <1>6, <1>7, <1>8, <1>9, <1>10, <1>11, <1>12
  DEF StartTaken, ClientQueueSame, ClientStays, QueueFacts, RdpIsHeld, Ended
<1> QED
  BY <1>13, <1>14, <1>15, <1>16, <1>17, <1>18, <1>19, <1>20, <1>21, <1>22, <1>23, <1>24, FeedsRun' DEF CalmInv

LEMMA OpenFailsKeeps ==
    ASSUME BaseInv, CalmInv, FeedsRun', UNCHANGED clientVars, OpenFails
    PROVE  CalmInv'
<1> USE DEF CalmInv
<1>1. serving.at = "open" /\ UNCHANGED <<toHost, running>> /\ serving' = LoopIdle
      /\ Send(StartResponse(serving.gen, "Native", FALSE)) /\ serving.gen \in Gens
  BY DEF OpenFails, BaseInv, Served
<1>2. PICK h \in Gens : h = serving.gen /\ Send(StartResponse(h, "Native", FALSE))
  BY <1>1
<1>3. HostQueueSame /\ ClientStays
  BY <1>1, NothingSent, NothingDone
<1>4. AnswerSent(h, "Native", FALSE)
  BY <1>2, SentToClient, Typed, ChannelAssumption
<1>5. QueueFacts /\ QueueFacts'
  BY QueueFactsHold
<1>6. ~ Stopping /\ Loading /\ \A g \in Gens : Starting(g) <=> g = h
  BY <1>1, <1>2 DEF Stopping, Loading, Starting
<1>7. ~ Stopping' /\ ~ Loading' /\ (\A g \in Gens : ~ Starting(g)') /\ serving'.at = "idle"
  BY <1>1 DEF Stopping, Loading, Starting, LoopIdle
<1>8. running' = running /\ \A g \in Gens : Runs(g)' <=> Runs(g)
  BY <1>1 DEF Runs
<1>9. \A c \in shown \cup next : c.gen \in Gens /\ c.kind \in Kinds
  BY Typed
<1>10. OneShown'
  BY <1>3, <1>4, <1>5, <1>6, <1>7, <1>8, <1>9
  DEF HostQueueSame, AnswerSent, ClientStays, QueueFacts, OneShown
<1>11. Fresh'
  BY <1>3, <1>4, <1>5, <1>6, <1>7, <1>8, <1>9
  DEF HostQueueSame, AnswerSent, ClientStays, Fresh, InUse, Told
<1>12. Owned'
  BY <1>3, <1>4, <1>5, <1>6, <1>7, <1>8, <1>9
  DEF HostQueueSame, AnswerSent, ClientStays, QueueFacts, Owned, Told
<1>13. OnePlace'
  BY <1>3, <1>4, <1>5, <1>6, <1>7, <1>8, <1>9
  DEF HostQueueSame, AnswerSent, ClientStays, QueueFacts, OnePlace, Told
<1>14. Apart'
  BY <1>3, <1>4, <1>5, <1>6, <1>7, <1>8, <1>9
  DEF HostQueueSame, AnswerSent, ClientStays, QueueFacts, Apart
<1>15. StopsInTurn'
  BY <1>3, <1>4, <1>5, <1>6, <1>7, <1>8, <1>9
  DEF HostQueueSame, AnswerSent, ClientStays, QueueFacts, StopsInTurn, StopAhead, Ended, OnePlace, Owned, Apart, Told
<1>16. AnswersAreTrue'
  BY <1>3, <1>4, <1>5, <1>6, <1>7, <1>8, <1>9
  DEF HostQueueSame, AnswerSent, ClientStays, QueueFacts, AnswersAreTrue, OnePlace, Told
<1>17. Carried'
  BY <1>3, <1>4, <1>5, <1>6, <1>7, <1>8, <1>9
  DEF HostQueueSame, AnswerSent, ClientStays, QueueFacts, Carried, Ended, Owned, Apart
<1>18. DetachKeeps'
  BY <1>3, <1>4, <1>5, <1>6, <1>7, <1>8, <1>9
  DEF HostQueueSame, AnswerSent, ClientStays, QueueFacts, DetachKeeps
<1>19. Unwanted'
  BY <1>3, <1>4, <1>5, <1>6, <1>7, <1>8, <1>9
  DEF HostQueueSame, AnswerSent, ClientStays, QueueFacts, Unwanted, Loading, OnePlace
<1>20. KindsAgree'
  BY <1>3, <1>4, <1>5, <1>6, <1>7, <1>8, <1>9
  DEF HostQueueSame, AnswerSent, ClientStays, QueueFacts, KindsAgree
<1>21. RdpIsHeld'
  BY <1>3, <1>4, <1>5, <1>6, <1>7, <1>8, <1>9
  DEF HostQueueSame, AnswerSent, ClientStays, QueueFacts, RdpIsHeld, Ended
<1> QED
  BY <1>10, <1>11, <1>12, <1>13, <1>14, <1>15, <1>16, <1>17, <1>18, <1>19, <1>20, <1>21, FeedsRun' DEF CalmInv

LEMMA AnswerStartKeeps ==
    ASSUME BaseInv, CalmInv, FeedsRun', UNCHANGED clientVars, AnswerStart
    PROVE  CalmInv'
<1> USE DEF CalmInv
<1>1. serving.at = "answer" /\ UNCHANGED toHost /\ serving' = LoopIdle
      /\ running' = running \cup {[gen |-> serving.gen, kind |-> serving.kind]}
      /\ Send(StartResponse(serving.gen, serving.kind, TRUE)) /\ serving.gen \in Gens /\ serving.kind \in Kinds
  BY DEF AnswerStart, BaseInv, Served, CarrierTypeOK, HostTypeOK
<1>2. PICK h \in Gens, l \in Kinds :
        /\ h = serving.gen /\ l = serving.kind /\ Send(StartResponse(h, l, TRUE))
        /\ running' = running \cup {[gen |-> h, kind |-> l]}
  BY <1>1
<1>3. HostQueueSame /\ ClientStays
  BY <1>1, NothingSent, NothingDone
<1>4. AnswerSent(h, l, TRUE)
  BY <1>2, SentToClient, Typed
<1>5. QueueFacts /\ QueueFacts'
  BY QueueFactsHold
<1>6. ~ Stopping /\ Loading /\ \A g \in Gens : Starting(g) <=> g = h
  BY <1>1, <1>2 DEF Stopping, Loading, Starting
<1>7. ~ Stopping' /\ ~ Loading' /\ (\A g \in Gens : ~ Starting(g)') /\ serving'.at = "idle"
  BY <1>1 DEF Stopping, Loading, Starting, LoopIdle
<1>8. running' # {} /\ \A g \in Gens : Runs(g)' <=> Runs(g) \/ g = h
  <2>1. PICK new : new = [gen |-> h, kind |-> l]
    OBVIOUS
  <2>2. new.gen = h
    BY <2>1
  <2>3. running' = running \cup {new}
    BY <2>1, <1>2
  <2> QED
    BY <2>2, <2>3 DEF Runs
<1>9. \A c \in shown \cup next : c.gen \in Gens /\ c.kind \in Kinds
  BY Typed
<1>10. (\A g \in Gens : Starting(g) => serving.kind = l)
  BY <1>2
<1>11. OneShown'
  BY <1>3, <1>4, <1>5, <1>6, <1>7, <1>8, <1>9, <1>10
  DEF HostQueueSame, AnswerSent, ClientStays, QueueFacts, OneShown
<1>12. Fresh'
  BY <1>3, <1>4, <1>5, <1>6, <1>7, <1>8, <1>9, <1>10
  DEF HostQueueSame, AnswerSent, ClientStays, Fresh, InUse, Told
<1>13. Owned'
  BY <1>3, <1>4, <1>5, <1>6, <1>7, <1>8, <1>9, <1>10
  DEF HostQueueSame, AnswerSent, ClientStays, QueueFacts, Owned, Told
<1>14. OnePlace'
  BY <1>3, <1>4, <1>5, <1>6, <1>7, <1>8, <1>9, <1>10
  DEF HostQueueSame, AnswerSent, ClientStays, QueueFacts, OnePlace, Told
<1>15. Apart'
  BY <1>3, <1>4, <1>5, <1>6, <1>7, <1>8, <1>9, <1>10
  DEF HostQueueSame, AnswerSent, ClientStays, QueueFacts, Apart
<1>16. StopsInTurn'
  BY <1>3, <1>4, <1>5, <1>6, <1>7, <1>8, <1>9, <1>10
  DEF HostQueueSame, AnswerSent, ClientStays, QueueFacts, StopsInTurn, StopAhead, Ended, OnePlace, Owned, Apart, Told
<1>17. AnswersAreTrue'
  BY <1>3, <1>4, <1>5, <1>6, <1>7, <1>8, <1>9, <1>10
  DEF HostQueueSame, AnswerSent, ClientStays, QueueFacts, AnswersAreTrue, OnePlace, Told
<1>18. Carried'
  BY <1>3, <1>4, <1>5, <1>6, <1>7, <1>8, <1>9, <1>10
  DEF HostQueueSame, AnswerSent, ClientStays, QueueFacts, Carried, Ended, Owned, Apart
<1>19. DetachKeeps'
  BY <1>3, <1>4, <1>5, <1>6, <1>7, <1>8, <1>9, <1>10
  DEF HostQueueSame, AnswerSent, ClientStays, QueueFacts, DetachKeeps
<1>20. Unwanted'
  BY <1>3, <1>4, <1>5, <1>6, <1>7, <1>8, <1>9, <1>10
  DEF HostQueueSame, AnswerSent, ClientStays, QueueFacts, Unwanted, Loading, OnePlace
<1>21. KindsAgree'
  BY <1>3, <1>4, <1>5, <1>6, <1>7, <1>8, <1>9, <1>10
  DEF HostQueueSame, AnswerSent, ClientStays, QueueFacts, KindsAgree
<1>22. RdpIsHeld'
  BY <1>3, <1>4, <1>5, <1>6, <1>7, <1>8, <1>9, <1>10
  DEF HostQueueSame, AnswerSent, ClientStays, QueueFacts, RdpIsHeld, Ended
<1> QED
  BY <1>11, <1>12, <1>13, <1>14, <1>15, <1>16, <1>17, <1>18, <1>19, <1>20, <1>21, <1>22, FeedsRun' DEF CalmInv

LEMMA StopNothingKeeps ==
    ASSUME BaseInv, CalmInv, FeedsRun', UNCHANGED clientVars, StopNothing
    PROVE  CalmInv'
<1> USE DEF CalmInv
<1>1. Take("Stop") /\ running = {} /\ UNCHANGED <<toClient, hostVars>>
  BY DEF StopNothing
<1>2. StopTaken /\ serving.at = "idle"
  BY <1>1, TakenAtHost, Typed
<1>3. ClientQueueSame /\ HostStays /\ ClientStays /\ UNCHANGED serving
  BY <1>1, NothingSent, NothingDone DEF hostVars
<1>4. QueueFacts /\ QueueFacts'
  BY QueueFactsHold
<1>5. ~ Stopping /\ ~ Loading /\ \A g \in Gens : ~ Starting(g) /\ ~ Runs(g)
  BY <1>1, <1>2 DEF Stopping, Loading, Starting, Runs
<1>6. /\ \A c \in shown \cup next : c.gen \in Gens /\ c.kind \in Kinds
      /\ \A c \in shown : Shows(c.gen)
      /\ \A c \in next : Switching(c.gen)
  BY Typed DEF Shows, Switching
<1>7. OneShown'
  BY <1>1, <1>2, <1>3, <1>4, <1>5, <1>6
  DEF StopTaken, ClientQueueSame, HostStays, ClientStays, QueueFacts, OneShown
<1>8. Fresh'
  BY <1>1, <1>2, <1>3, <1>4, <1>5, <1>6
  DEF StopTaken, ClientQueueSame, HostStays, ClientStays, Fresh, InUse, Told
<1>9. Owned'
  BY <1>1, <1>2, <1>3, <1>4, <1>5, <1>6
  DEF StopTaken, ClientQueueSame, HostStays, ClientStays, QueueFacts, Owned, Told
<1>10. OnePlace'
  BY <1>1, <1>2, <1>3, <1>4, <1>5, <1>6
  DEF StopTaken, ClientQueueSame, HostStays, ClientStays, QueueFacts, OnePlace, Told
<1>11. Apart'
  BY <1>1, <1>2, <1>3, <1>4, <1>5, <1>6
  DEF StopTaken, ClientQueueSame, HostStays, ClientStays, QueueFacts, Apart
<1>12. StopsInTurn'
  BY <1>1, <1>2, <1>3, <1>4, <1>5, <1>6
  DEF StopTaken, ClientQueueSame, HostStays, ClientStays, QueueFacts, StopsInTurn, StopAhead, Ended, Carried
<1>13. AnswersAreTrue'
  BY <1>1, <1>2, <1>3, <1>4, <1>5, <1>6
  DEF StopTaken, ClientQueueSame, HostStays, ClientStays, QueueFacts, AnswersAreTrue
<1>14. Carried'
  BY <1>1, <1>2, <1>3, <1>4, <1>5, <1>6
  DEF StopTaken, ClientQueueSame, HostStays, ClientStays, QueueFacts, Carried, Ended
<1>15. DetachKeeps'
  BY <1>1, <1>2, <1>3, <1>4, <1>5, <1>6
  DEF StopTaken, ClientQueueSame, HostStays, ClientStays, QueueFacts, DetachKeeps
<1>16. Unwanted'
  BY <1>1, <1>2, <1>3, <1>4, <1>5, <1>6
  DEF StopTaken, ClientQueueSame, HostStays, ClientStays, QueueFacts, Unwanted, Loading
<1>17. KindsAgree'
  BY <1>1, <1>2, <1>3, <1>4, <1>5, <1>6
  DEF StopTaken, ClientQueueSame, HostStays, ClientStays, QueueFacts, KindsAgree
<1>18. RdpIsHeld'
  BY <1>1, <1>2, <1>3, <1>4, <1>5, <1>6
  DEF StopTaken, ClientQueueSame, HostStays, ClientStays, QueueFacts, RdpIsHeld, Ended, Carried
<1> QED
  BY <1>7, <1>8, <1>9, <1>10, <1>11, <1>12, <1>13, <1>14, <1>15, <1>16, <1>17, <1>18, FeedsRun' DEF CalmInv

LEMMA StopStreamKeeps ==
    ASSUME BaseInv, CalmInv, FeedsRun', UNCHANGED clientVars, StopStream
    PROVE  CalmInv'
<1> USE DEF CalmInv
<1>1. Take("Stop") /\ running' = {} /\ UNCHANGED toClient /\ serving'.at = "endSound"
  BY DEF StopStream, Ending
<1>2. StopTaken /\ serving.at = "idle"
  BY <1>1, TakenAtHost, Typed
<1>3. ClientQueueSame /\ ClientStays
  BY <1>1, NothingSent, NothingDone
<1>4. QueueFacts /\ QueueFacts'
  BY QueueFactsHold
<1>5. ~ Stopping /\ ~ Loading /\ \A g \in Gens : ~ Starting(g)
  BY <1>2 DEF Stopping, Loading, Starting
<1>6. Stopping' /\ ~ Loading' /\ \A g \in Gens : ~ Starting(g)' /\ ~ Runs(g)'
  BY <1>1 DEF Stopping, Loading, Starting, Runs
<1>7. \A c \in shown \cup next : c.gen \in Gens /\ c.kind \in Kinds
  BY Typed
<1>8. OneShown'
  BY <1>1, <1>2, <1>3, <1>4, <1>5, <1>6, <1>7
  DEF StopTaken, ClientQueueSame, ClientStays, QueueFacts, OneShown
<1>9. Fresh'
  BY <1>1, <1>2, <1>3, <1>4, <1>5, <1>6, <1>7
  DEF StopTaken, ClientQueueSame, ClientStays, Fresh, InUse, Told
<1>10. Owned'
  BY <1>1, <1>2, <1>3, <1>4, <1>5, <1>6, <1>7
  DEF StopTaken, ClientQueueSame, ClientStays, QueueFacts, Owned, Told
<1>11. OnePlace'
  BY <1>1, <1>2, <1>3, <1>4, <1>5, <1>6, <1>7
  DEF StopTaken, ClientQueueSame, ClientStays, QueueFacts, OnePlace, Told
<1>12. Apart'
  BY <1>1, <1>2, <1>3, <1>4, <1>5, <1>6, <1>7
  DEF StopTaken, ClientQueueSame, ClientStays, QueueFacts, Apart
<1>13. StopsInTurn'
  BY <1>1, <1>2, <1>3, <1>4, <1>5, <1>6, <1>7
  DEF StopTaken, ClientQueueSame, ClientStays, QueueFacts, StopsInTurn, StopAhead, Ended
<1>14. AnswersAreTrue'
  BY <1>1, <1>2, <1>3, <1>4, <1>5, <1>6, <1>7
  DEF StopTaken, ClientQueueSame, ClientStays, QueueFacts, AnswersAreTrue
<1>15. Carried'
  BY <1>1, <1>2, <1>3, <1>4, <1>5, <1>6, <1>7
  DEF StopTaken, ClientQueueSame, ClientStays, QueueFacts, Carried, Ended
<1>16. DetachKeeps'
  BY <1>1, <1>2, <1>3, <1>4, <1>5, <1>6, <1>7
  DEF StopTaken, ClientQueueSame, ClientStays, QueueFacts, DetachKeeps
<1>17. Unwanted'
  BY <1>1, <1>2, <1>3, <1>4, <1>5, <1>6, <1>7
  DEF StopTaken, ClientQueueSame, ClientStays, QueueFacts, Unwanted, Loading
<1>18. KindsAgree'
  BY <1>1, <1>2, <1>3, <1>4, <1>5, <1>6, <1>7
  DEF StopTaken, ClientQueueSame, ClientStays, QueueFacts, KindsAgree
<1>19. RdpIsHeld'
  BY <1>1, <1>2, <1>3, <1>4, <1>5, <1>6, <1>7
  DEF StopTaken, ClientQueueSame, ClientStays, QueueFacts, RdpIsHeld, Ended
<1> QED
  BY <1>8, <1>9, <1>10, <1>11, <1>12, <1>13, <1>14, <1>15, <1>16, <1>17, <1>18, <1>19, FeedsRun' DEF CalmInv

LEMMA CarrierStopNothingKeeps ==
    ASSUME BaseInv, CalmInv, FeedsRun', UNCHANGED clientVars, CarrierStopNothing
    PROVE  CalmInv'
<1> USE DEF CalmInv
<1>1. PICK h : h = Head(toHost).gen
  OBVIOUS
<1>2. Take("CarrierStop") /\ UNCHANGED <<toClient, hostVars>> /\ ~ Runs(h)
  BY <1>1 DEF CarrierStopNothing, Runs
<1>3. DoomTaken(h) /\ h \in Gens
  BY <1>1, <1>2, TakenAtHost, Typed
<1>4. ClientQueueSame /\ HostStays /\ ClientStays /\ UNCHANGED serving
  BY <1>2, NothingSent, NothingDone DEF hostVars
<1>5. QueueFacts /\ QueueFacts'
  BY QueueFactsHold
<1>6. \A c \in shown \cup next : c.gen \in Gens /\ c.kind \in Kinds
  BY Typed
<1>7. \A g \in Gens : Starting(g) => Loading
  BY DEF Starting, Loading
<1>8. OneShown'
  BY <1>2, <1>3, <1>4, <1>5, <1>6, <1>7
  DEF DoomTaken, ClientQueueSame, HostStays, ClientStays, QueueFacts, OneShown
<1>9. Fresh'
  <2>1. \A g \in Gens : InUse(g)' => InUse(g)
    BY <1>2, <1>3, <1>4, <1>5, <1>6, <1>7
    DEF DoomTaken, ClientQueueSame, HostStays, ClientStays, InUse, Told
  <2>2. gen' = gen
    BY <1>2, <1>3, <1>4, <1>5, <1>6, <1>7
    DEF ClientStays
  <2> QED
    BY <2>1, <2>2 DEF Fresh
<1>10. Owned'
  BY <1>2, <1>3, <1>4, <1>5, <1>6, <1>7
  DEF DoomTaken, ClientQueueSame, HostStays, ClientStays, QueueFacts, Owned, Told
<1>11. OnePlace'
  BY <1>2, <1>3, <1>4, <1>5, <1>6, <1>7
  DEF DoomTaken, ClientQueueSame, HostStays, ClientStays, QueueFacts, OnePlace, Told
<1>12. Apart'
  BY <1>2, <1>3, <1>4, <1>5, <1>6, <1>7
  DEF DoomTaken, ClientQueueSame, HostStays, ClientStays, QueueFacts, Apart
<1>13. StopsInTurn'
  BY <1>2, <1>3, <1>4, <1>5, <1>6, <1>7
  DEF DoomTaken, ClientQueueSame, HostStays, ClientStays, QueueFacts, StopsInTurn, StopAhead, Ended
<1>14. AnswersAreTrue'
  BY <1>2, <1>3, <1>4, <1>5, <1>6, <1>7
  DEF DoomTaken, ClientQueueSame, HostStays, ClientStays, QueueFacts, AnswersAreTrue
<1>15. Carried'
  BY <1>2, <1>3, <1>4, <1>5, <1>6, <1>7
  DEF DoomTaken, ClientQueueSame, HostStays, ClientStays, QueueFacts, Carried, Ended
<1>16. DetachKeeps'
  BY <1>2, <1>3, <1>4, <1>5, <1>6, <1>7
  DEF DoomTaken, ClientQueueSame, HostStays, ClientStays, QueueFacts, DetachKeeps
<1>17. Unwanted'
  BY <1>2, <1>3, <1>4, <1>5, <1>6, <1>7
  DEF DoomTaken, ClientQueueSame, HostStays, ClientStays, QueueFacts, Unwanted, Loading
<1>18. KindsAgree'
  BY <1>2, <1>3, <1>4, <1>5, <1>6, <1>7
  DEF DoomTaken, ClientQueueSame, HostStays, ClientStays, QueueFacts, KindsAgree
<1>19. RdpIsHeld'
  BY <1>2, <1>3, <1>4, <1>5, <1>6, <1>7
  DEF DoomTaken, ClientQueueSame, HostStays, ClientStays, QueueFacts, RdpIsHeld, Ended
<1> QED
  BY <1>8, <1>9, <1>10, <1>11, <1>12, <1>13, <1>14, <1>15, <1>16, <1>17, <1>18, <1>19, FeedsRun' DEF CalmInv

LEMMA StopCarrierKeeps ==
    ASSUME BaseInv, CalmInv, FeedsRun', UNCHANGED clientVars, NEW r \in Carrier, StopCarrier(r)
    PROVE  CalmInv'
<1> USE DEF CalmInv
<1>1. PICK h : h = Head(toHost).gen
  OBVIOUS
<1>2. Take("CarrierStop") /\ r \in running /\ r.gen = h /\ running' = running \ {r} /\ UNCHANGED toClient
  BY <1>1 DEF StopCarrier
<1>3. DoomTaken(h) /\ h \in Gens /\ serving.at = "idle"
  BY <1>1, <1>2, TakenAtHost, Typed
<1>4. Doomed(h) /\ Runs(h)
  BY <1>2, <1>3 DEF DoomTaken, Runs
<1>5. PICK s \in Gens : Shows(s) /\ Runs(s) /\ s # h
  BY <1>3, <1>4 DEF Carried, Apart
<1>6. \A g \in Gens : Runs(g)' <=> Runs(g) /\ g # h
  BY <1>2 DEF Runs, BaseInv, Served
<1>7. running' # {} /\ running # {}
  BY <1>5, <1>6 DEF Runs
<1>8. serving'.at \in {"detach", "idle"}
  BY <1>7 DEF StopCarrier, Ending, LoopIdle
<1>9. ClientQueueSame /\ ClientStays
  BY <1>2, NothingSent, NothingDone
<1>10. QueueFacts /\ QueueFacts'
  BY QueueFactsHold
<1>11. ~ Stopping /\ ~ Loading /\ ~ Stopping' /\ ~ Loading' /\ \A g \in Gens : ~ Starting(g) /\ ~ Starting(g)'
  BY <1>3, <1>8 DEF Stopping, Loading, Starting
<1>12. \A c \in shown \cup next : c.gen \in Gens /\ c.kind \in Kinds
  BY Typed
<1>13. OneShown'
  BY <1>3, <1>4, <1>5, <1>6, <1>7, <1>9, <1>10, <1>11, <1>12
  DEF DoomTaken, ClientQueueSame, ClientStays, QueueFacts, OneShown
<1>14. Fresh'
  <2>1. \A g \in Gens : InUse(g)' => InUse(g)
    BY <1>3, <1>4, <1>5, <1>6, <1>7, <1>9, <1>10, <1>11, <1>12
    DEF DoomTaken, ClientQueueSame, ClientStays, InUse, Told
  <2>2. gen' = gen
    BY <1>3, <1>4, <1>5, <1>6, <1>7, <1>9, <1>10, <1>11, <1>12
    DEF ClientStays
  <2> QED
    BY <2>1, <2>2 DEF Fresh
<1>15. Owned'
  BY <1>3, <1>4, <1>5, <1>6, <1>7, <1>9, <1>10, <1>11, <1>12
  DEF DoomTaken, ClientQueueSame, ClientStays, QueueFacts, Owned, Told
<1>16. OnePlace'
  BY <1>3, <1>4, <1>5, <1>6, <1>7, <1>9, <1>10, <1>11, <1>12
  DEF DoomTaken, ClientQueueSame, ClientStays, QueueFacts, OnePlace, Told
<1>17. Apart'
  BY <1>3, <1>4, <1>5, <1>6, <1>7, <1>9, <1>10, <1>11, <1>12
  DEF DoomTaken, ClientQueueSame, ClientStays, QueueFacts, Apart
<1>18. StopsInTurn'
  BY <1>3, <1>4, <1>5, <1>6, <1>7, <1>9, <1>10, <1>11, <1>12
  DEF DoomTaken, ClientQueueSame, ClientStays, QueueFacts, StopsInTurn, StopAhead, Ended
<1>19. AnswersAreTrue'
  BY <1>3, <1>4, <1>5, <1>6, <1>7, <1>9, <1>10, <1>11, <1>12
  DEF DoomTaken, ClientQueueSame, ClientStays, QueueFacts, AnswersAreTrue, Owned, Apart, Told
<1>20. Carried'
  BY <1>3, <1>4, <1>5, <1>6, <1>7, <1>9, <1>10, <1>11, <1>12
  DEF DoomTaken, ClientQueueSame, ClientStays, QueueFacts, Carried, Ended, Apart
<1>21. DetachKeeps'
  BY <1>3, <1>4, <1>5, <1>6, <1>7, <1>9, <1>10, <1>11, <1>12
  DEF DoomTaken, ClientQueueSame, ClientStays, QueueFacts, DetachKeeps
<1>22. Unwanted'
  BY <1>3, <1>4, <1>5, <1>6, <1>7, <1>9, <1>10, <1>11, <1>12
  DEF DoomTaken, ClientQueueSame, ClientStays, QueueFacts, Unwanted, Loading
<1>23. KindsAgree'
  BY <1>3, <1>4, <1>5, <1>6, <1>7, <1>9, <1>10, <1>11, <1>12
  DEF DoomTaken, ClientQueueSame, ClientStays, QueueFacts, KindsAgree
<1>24. RdpIsHeld'
  BY <1>3, <1>4, <1>5, <1>6, <1>7, <1>9, <1>10, <1>11, <1>12
  DEF DoomTaken, ClientQueueSame, ClientStays, QueueFacts, RdpIsHeld, Ended
<1> QED
  BY <1>13, <1>14, <1>15, <1>16, <1>17, <1>18, <1>19, <1>20, <1>21, <1>22, <1>23, <1>24, FeedsRun' DEF CalmInv

LEMMA EndTellKeeps ==
    ASSUME BaseInv, CalmInv, FeedsRun', UNCHANGED clientVars, EndTell
    PROVE  CalmInv'
<1> USE DEF CalmInv
<1>1. serving.at = "endTell" /\ Send(StreamStopped) /\ serving'.at = "idle" /\ UNCHANGED <<toHost, running>>
  BY DEF EndTell, LoopIdle
<1>2. EndSent /\ HostQueueSame /\ ClientStays
  BY <1>1, SentToClient, NothingSent, NothingDone, Typed
<1>3. running = {} /\ running' = {}
  BY <1>1 DEF BaseInv, Served, Stopping
<1>4. QueueFacts /\ QueueFacts'
  BY QueueFactsHold
<1>5. Stopping /\ ~ Loading /\ \A g \in Gens : ~ Starting(g) /\ ~ Runs(g)
  BY <1>1, <1>3 DEF Stopping, Loading, Starting, Runs
<1>6. ~ Stopping' /\ ~ Loading' /\ \A g \in Gens : ~ Starting(g)' /\ ~ Runs(g)'
  BY <1>1, <1>3 DEF Stopping, Loading, Starting, Runs
<1>7. \A c \in shown \cup next : c.gen \in Gens /\ c.kind \in Kinds
  BY Typed
<1>8. OneShown'
  BY <1>1, <1>2, <1>3, <1>4, <1>5, <1>6, <1>7
  DEF EndSent, HostQueueSame, ClientStays, QueueFacts, OneShown
<1>9. Fresh'
  BY <1>1, <1>2, <1>3, <1>4, <1>5, <1>6, <1>7
  DEF EndSent, HostQueueSame, ClientStays, Fresh, InUse, Told
<1>10. Owned'
  BY <1>1, <1>2, <1>3, <1>4, <1>5, <1>6, <1>7
  DEF EndSent, HostQueueSame, ClientStays, QueueFacts, Owned, Told
<1>11. OnePlace'
  BY <1>1, <1>2, <1>3, <1>4, <1>5, <1>6, <1>7
  DEF EndSent, HostQueueSame, ClientStays, QueueFacts, OnePlace, Told
<1>12. Apart'
  BY <1>1, <1>2, <1>3, <1>4, <1>5, <1>6, <1>7
  DEF EndSent, HostQueueSame, ClientStays, QueueFacts, Apart
<1>13. StopsInTurn'
  BY <1>1, <1>2, <1>3, <1>4, <1>5, <1>6, <1>7
  DEF EndSent, HostQueueSame, ClientStays, QueueFacts, StopsInTurn, StopAhead, Ended
<1>14. AnswersAreTrue'
  BY <1>1, <1>2, <1>3, <1>4, <1>5, <1>6, <1>7
  DEF EndSent, HostQueueSame, ClientStays, QueueFacts, AnswersAreTrue, Told
<1>15. Carried'
  BY <1>1, <1>2, <1>3, <1>4, <1>5, <1>6, <1>7
  DEF EndSent, HostQueueSame, ClientStays, QueueFacts, Carried, Ended
<1>16. DetachKeeps'
  BY <1>1, <1>2, <1>3, <1>4, <1>5, <1>6, <1>7
  DEF EndSent, HostQueueSame, ClientStays, QueueFacts, DetachKeeps
<1>17. Unwanted'
  BY <1>1, <1>2, <1>3, <1>4, <1>5, <1>6, <1>7
  DEF EndSent, HostQueueSame, ClientStays, QueueFacts, Unwanted, Loading
<1>18. KindsAgree'
  BY <1>1, <1>2, <1>3, <1>4, <1>5, <1>6, <1>7
  DEF EndSent, HostQueueSame, ClientStays, QueueFacts, KindsAgree
<1>19. RdpIsHeld'
  BY <1>1, <1>2, <1>3, <1>4, <1>5, <1>6, <1>7
  DEF EndSent, HostQueueSame, ClientStays, QueueFacts, RdpIsHeld, Ended
<1> QED
  BY <1>8, <1>9, <1>10, <1>11, <1>12, <1>13, <1>14, <1>15, <1>16, <1>17, <1>18, <1>19, FeedsRun' DEF CalmInv

-----------------------------------------------------------------------------
(* In calm: what the app and the timers do.                                 *)

LEMMA StartWindowKeeps ==
    ASSUME BaseInv, CalmInv, FeedsRun', UNCHANGED hostVars, NEW kind \in Kinds, StartWindow(kind)
    PROVE  CalmInv'
<1> USE DEF CalmInv
<1>1. PICK h : h = gen + 1
  OBVIOUS
<1>2. gen' = h /\ asked' = h /\ wanted' = TRUE /\ Ask(StartRequest(h, kind)) /\ (~ wanted \/ shown = {})
      /\ UNCHANGED <<toClient, shown, next, up, logins, rdp, givenUp>>
  BY <1>1 DEF StartWindow
<1>3. h \in Gens
  BY <1>1, Typed, ChannelAssumption DEF StartWindow, MayAsk, Gens
<1>4. ~ InUse(h) /\ (\A g \in Gens : g <= gen => g <= h) /\ \A g \in Gens : asked # g
  BY <1>1, <1>3, Typed DEF Fresh, StartWindow
<1>5. ~ Asks(h) /\ ~ Starting(h) /\ ~ Told(h) /\ ~ LogsIn(h) /\ ~ Doomed(h) /\ ~ Runs(h)
      /\ ~ Shows(h) /\ ~ Switching(h)
      /\ h \notin givenUp /\ \A g \in Gens : asked # g
  BY <1>4 DEF InUse
<1>6. StartSent(h, kind)
  BY <1>2, <1>3, SentToHost, Typed
<1>7. ClientQueueSame /\ HostStays /\ UNCHANGED serving
  BY <1>2, NothingSent, NothingDone DEF hostVars
<1>8. QueueFacts /\ QueueFacts'
  BY QueueFactsHold
<1>9. \A g \in Gens : (LogsIn(g)' <=> LogsIn(g)) /\ (Shows(g)' <=> Shows(g)) /\ (Switching(g)' <=> Switching(g))
  BY <1>2 DEF LogsIn, Shows, Switching
<1>10. /\ \A c \in shown \cup next : c.gen \in Gens /\ c.kind \in Kinds
       /\ \A c \in next : c.gen # h
       /\ shown # {} => \E g \in Gens : Shows(g)
  BY <1>5, Typed DEF Switching, Shows
<1>11. \A g \in Gens : Runs(g) => running # {}
  BY DEF Runs
<1>12. OneShown'
  BY <1>2, <1>3, <1>5, <1>6, <1>7, <1>8, <1>9, <1>10, <1>11
  DEF StartSent, ClientQueueSame, HostStays, QueueFacts, OneShown
<1>13. Fresh'
  <2>1. \A g \in Gens : InUse(g)' => InUse(g) \/ g = h
    BY <1>2, <1>3, <1>6, <1>7, <1>9 DEF StartSent, ClientQueueSame, HostStays, InUse, Told
  <2>2. h <= h
    BY <1>1, Typed
  <2> QED
    BY <1>2, <1>4, <2>1, <2>2 DEF Fresh
<1>14. Owned'
  BY <1>2, <1>3, <1>5, <1>6, <1>7, <1>8, <1>9, <1>10, <1>11
  DEF StartSent, ClientQueueSame, HostStays, QueueFacts, Owned, Told
<1>15. OnePlace'
  BY <1>2, <1>3, <1>5, <1>6, <1>7, <1>8, <1>9, <1>10, <1>11
  DEF StartSent, ClientQueueSame, HostStays, QueueFacts, OnePlace, Told
<1>16. Apart'
  BY <1>2, <1>3, <1>5, <1>6, <1>7, <1>8, <1>9, <1>10, <1>11
  DEF StartSent, ClientQueueSame, HostStays, QueueFacts, Apart
<1>17. StopsInTurn'
  BY <1>2, <1>3, <1>5, <1>6, <1>7, <1>8, <1>9, <1>10, <1>11
  DEF StartSent, ClientQueueSame, HostStays, QueueFacts, StopsInTurn, StopAhead, Ended, Carried, Unwanted
<1>18. AnswersAreTrue'
  BY <1>2, <1>3, <1>5, <1>6, <1>7, <1>8, <1>9, <1>10, <1>11
  DEF StartSent, ClientQueueSame, HostStays, QueueFacts, AnswersAreTrue
<1>19. Carried'
  BY <1>2, <1>3, <1>5, <1>6, <1>7, <1>8, <1>9, <1>10, <1>11
  DEF StartSent, ClientQueueSame, HostStays, QueueFacts, Carried, Ended
<1>20. DetachKeeps'
  BY <1>2, <1>3, <1>5, <1>6, <1>7, <1>8, <1>9, <1>10, <1>11
  DEF StartSent, ClientQueueSame, HostStays, QueueFacts, DetachKeeps
<1>21. Unwanted'
  BY <1>2, <1>3, <1>5, <1>6, <1>7, <1>8, <1>9, <1>10, <1>11
  DEF StartSent, ClientQueueSame, HostStays, QueueFacts, Unwanted, Loading
<1>22. KindsAgree'
  BY <1>2, <1>3, <1>5, <1>6, <1>7, <1>8, <1>9, <1>10, <1>11
  DEF StartSent, ClientQueueSame, HostStays, QueueFacts, KindsAgree
<1>23. RdpIsHeld'
  BY <1>2, <1>3, <1>5, <1>6, <1>7, <1>8, <1>9, <1>10, <1>11
  DEF StartSent, ClientQueueSame, HostStays, QueueFacts, RdpIsHeld, Ended
<1> QED
  BY <1>12, <1>13, <1>14, <1>15, <1>16, <1>17, <1>18, <1>19, <1>20, <1>21, <1>22, <1>23, FeedsRun' DEF CalmInv

LEMMA StopWindowKeeps ==
    ASSUME BaseInv, CalmInv, FeedsRun', UNCHANGED hostVars, StopWindow
    PROVE  CalmInv'
<1> USE DEF CalmInv
<1>1. wanted' = FALSE /\ rdp' = 0 /\ Ask(StopRequest)
      /\ UNCHANGED <<toClient, gen, shown, next, up, logins, asked, givenUp>>
  BY DEF StopWindow
<1>2. StopSent
  BY <1>1, SentToHost, Typed
<1>3. ClientQueueSame /\ HostStays /\ UNCHANGED serving
  BY <1>1, NothingSent, NothingDone DEF hostVars
<1>4. QueueFacts /\ QueueFacts'
  BY QueueFactsHold
<1>5. \A g \in Gens : (LogsIn(g)' <=> LogsIn(g)) /\ (Shows(g)' <=> Shows(g)) /\ (Switching(g)' <=> Switching(g))
  BY <1>1 DEF LogsIn, Shows, Switching
<1>6. \A c \in shown \cup next : c.gen \in Gens /\ c.kind \in Kinds
  BY Typed
<1>7. OneShown'
  BY <1>1, <1>2, <1>3, <1>4, <1>5, <1>6
  DEF StopSent, ClientQueueSame, HostStays, QueueFacts, OneShown
<1>8. Fresh'
  BY <1>1, <1>2, <1>3, <1>4, <1>5, <1>6
  DEF StopSent, ClientQueueSame, HostStays, Fresh, InUse, Told
<1>9. Owned'
  BY <1>1, <1>2, <1>3, <1>4, <1>5, <1>6
  DEF StopSent, ClientQueueSame, HostStays, QueueFacts, Owned, Told
<1>10. OnePlace'
  BY <1>1, <1>2, <1>3, <1>4, <1>5, <1>6
  DEF StopSent, ClientQueueSame, HostStays, QueueFacts, OnePlace, Told
<1>11. Apart'
  BY <1>1, <1>2, <1>3, <1>4, <1>5, <1>6
  DEF StopSent, ClientQueueSame, HostStays, QueueFacts, Apart
<1>12. StopsInTurn'
  BY <1>1, <1>2, <1>3, <1>4, <1>5, <1>6
  DEF StopSent, ClientQueueSame, HostStays, QueueFacts, StopsInTurn, StopAhead, Ended
<1>13. AnswersAreTrue'
  BY <1>1, <1>2, <1>3, <1>4, <1>5, <1>6
  DEF StopSent, ClientQueueSame, HostStays, QueueFacts, AnswersAreTrue
<1>14. Carried'
  BY <1>1, <1>2, <1>3, <1>4, <1>5, <1>6
  DEF StopSent, ClientQueueSame, HostStays, QueueFacts, Carried, Ended
<1>15. DetachKeeps'
  BY <1>1, <1>2, <1>3, <1>4, <1>5, <1>6
  DEF StopSent, ClientQueueSame, HostStays, QueueFacts, DetachKeeps
<1>16. Unwanted'
  BY <1>1, <1>2, <1>3, <1>4, <1>5, <1>6
  DEF StopSent, ClientQueueSame, HostStays, QueueFacts, Unwanted, Loading
<1>17. KindsAgree'
  BY <1>1, <1>2, <1>3, <1>4, <1>5, <1>6
  DEF StopSent, ClientQueueSame, HostStays, QueueFacts, KindsAgree
<1>18. RdpIsHeld'
  BY <1>1, <1>2, <1>3, <1>4, <1>5, <1>6
  DEF StopSent, ClientQueueSame, HostStays, QueueFacts, RdpIsHeld, Ended
<1> QED
  BY <1>7, <1>8, <1>9, <1>10, <1>11, <1>12, <1>13, <1>14, <1>15, <1>16, <1>17, <1>18, FeedsRun' DEF CalmInv

LEMMA SwitchKeeps ==
    ASSUME BaseInv, CalmInv, calm, FeedsRun', UNCHANGED hostVars, NEW kind \in Kinds, Switch(kind)
    PROVE  CalmInv'
<1> USE DEF CalmInv
<1>1. PICK h : h = gen + 1
  OBVIOUS
<1>2. gen' = h /\ next = {} /\ next' = {[gen |-> h, kind |-> kind]} /\ up' = FALSE /\ Ask(StartRequest(h, kind))
      /\ shown # {} /\ (\A s \in shown : s.kind # kind)
      /\ UNCHANGED <<toClient, shown, logins, rdp, wanted, asked, givenUp>>
  BY <1>1 DEF Switch, StartSwitch
<1>3. h \in Gens
  BY <1>1, Typed, ChannelAssumption DEF Switch, StartSwitch, MayAsk, Gens
<1>4. ~ InUse(h) /\ \A g \in Gens : g <= gen => g <= h
  BY <1>1, <1>3, Typed DEF Fresh
<1>5. ~ Asks(h) /\ ~ Starting(h) /\ ~ Told(h) /\ ~ LogsIn(h) /\ ~ Doomed(h) /\ ~ Runs(h)
      /\ ~ Shows(h) /\ ~ Switching(h)
      /\ h \notin givenUp /\ asked # h
  BY <1>4 DEF InUse
<1>6. StartSent(h, kind)
  BY <1>2, <1>3, SentToHost, Typed
<1>7. ClientQueueSame /\ HostStays /\ UNCHANGED serving
  BY <1>2, NothingSent, NothingDone DEF hostVars
<1>8. QueueFacts /\ QueueFacts'
  BY QueueFactsHold
<1>9. PICK n : n = [gen |-> h, kind |-> kind]
  OBVIOUS
<1>10. n.gen = h /\ n.kind = kind /\ next' = {n}
  BY <1>2, <1>9
<1>11. \A g \in Gens : (LogsIn(g)' <=> LogsIn(g)) /\ (Shows(g)' <=> Shows(g)) /\ ~ Switching(g)
       /\ (Switching(g)' <=> g = h)
  BY <1>2, <1>10 DEF LogsIn, Shows, Switching
<1>12. ~ StopComing /\ ~ Ended
  <2>1. ~ Contains(toHost, StopRequest) /\ ~ Contains(toClient, StreamStopped) /\ ~ Stopping
    BY DEF Switch, StopUnderWay, Stopping
  <2>2. \A S : \A q \in Seq(S) : \A m : Contains(q, m) <=> Has(q, {m})
    BY LenProperties DEF Contains, Has
  <2> QED
    BY <2>1, <2>2, Typed DEF StopComing, EndComing, Ended
<1>13. wanted
  <2>1. PICK g \in Gens : Shows(g)
    BY <1>2, Typed DEF Shows
  <2>2. Runs(g)
    BY <2>1, <1>12 DEF Carried
  <2> QED
    BY <2>2, <1>12 DEF Runs, Unwanted
<1>14. /\ \A c \in shown \cup next : c.gen \in Gens /\ c.kind \in Kinds
       /\ ~ Stopping /\ ~ EndComing /\ Ended' = Ended
  BY <1>7, <1>12, Typed DEF Ended, HostStays, ClientQueueSame
<1>15. OneShown'
  BY <1>2, <1>3, <1>5, <1>6, <1>7, <1>8, <1>10, <1>11, <1>12, <1>13, <1>14
  DEF StartSent, ClientQueueSame, HostStays, QueueFacts, OneShown
<1>16. Fresh'
  <2>1. \A g \in Gens : InUse(g)' => InUse(g) \/ g = h
    BY <1>2, <1>3, <1>6, <1>7, <1>11 DEF StartSent, ClientQueueSame, HostStays, InUse, Told
  <2>2. h <= h
    BY <1>1, Typed
  <2> QED
    BY <1>2, <1>4, <2>1, <2>2 DEF Fresh
<1>17. Owned'
  BY <1>2, <1>3, <1>5, <1>6, <1>7, <1>8, <1>10, <1>11, <1>12, <1>13, <1>14
  DEF StartSent, ClientQueueSame, HostStays, QueueFacts, Owned, Told
<1>18. OnePlace'
  BY <1>2, <1>3, <1>5, <1>6, <1>7, <1>8, <1>10, <1>11, <1>12, <1>13, <1>14
  DEF StartSent, ClientQueueSame, HostStays, QueueFacts, OnePlace, Told
<1>19. Apart'
  BY <1>2, <1>3, <1>5, <1>6, <1>7, <1>8, <1>10, <1>11, <1>12, <1>13, <1>14
  DEF StartSent, ClientQueueSame, HostStays, QueueFacts, Apart
<1>20. StopsInTurn'
  BY <1>2, <1>3, <1>5, <1>6, <1>7, <1>8, <1>10, <1>11, <1>12, <1>13, <1>14
  DEF StartSent, ClientQueueSame, HostStays, QueueFacts, StopsInTurn, StopAhead, Ended
<1>21. AnswersAreTrue'
  BY <1>2, <1>3, <1>5, <1>6, <1>7, <1>8, <1>10, <1>11, <1>12, <1>13, <1>14
  DEF StartSent, ClientQueueSame, HostStays, QueueFacts, AnswersAreTrue
<1>22. Carried'
  BY <1>2, <1>3, <1>5, <1>6, <1>7, <1>8, <1>10, <1>11, <1>12, <1>13, <1>14
  DEF StartSent, ClientQueueSame, HostStays, QueueFacts, Carried, Ended
<1>23. DetachKeeps'
  BY <1>2, <1>3, <1>5, <1>6, <1>7, <1>8, <1>10, <1>11, <1>12, <1>13, <1>14
  DEF StartSent, ClientQueueSame, HostStays, QueueFacts, DetachKeeps
<1>24. Unwanted'
  BY <1>2, <1>3, <1>5, <1>6, <1>7, <1>8, <1>10, <1>11, <1>12, <1>13, <1>14
  DEF StartSent, ClientQueueSame, HostStays, QueueFacts, Unwanted, Loading
<1>25. KindsAgree'
  BY <1>2, <1>3, <1>5, <1>6, <1>7, <1>8, <1>10, <1>11, <1>12, <1>13, <1>14
  DEF StartSent, ClientQueueSame, HostStays, QueueFacts, KindsAgree, Told
<1>26. RdpIsHeld'
  BY <1>2, <1>3, <1>5, <1>6, <1>7, <1>8, <1>10, <1>11, <1>12, <1>13, <1>14
  DEF StartSent, ClientQueueSame, HostStays, QueueFacts, RdpIsHeld, Ended
<1> QED
  BY <1>15, <1>16, <1>17, <1>18, <1>19, <1>20, <1>21, <1>22, <1>23, <1>24, <1>25, <1>26, FeedsRun' DEF CalmInv

LEMMA CarrierShownKeeps ==
    ASSUME BaseInv, CalmInv, FeedsRun', UNCHANGED hostVars, CarrierShown
    PROVE  CalmInv'
<1> USE DEF CalmInv
<1>1. PICK old \in shown : rdp' = (IF old.kind = "Rdp" THEN 0 ELSE rdp) /\ Ask(CarrierStop(old.gen))
  BY DEF CarrierShown
<1>2. up /\ shown' = next /\ next' = {} /\ up' = FALSE /\ UNCHANGED <<toClient, gen, logins, wanted, asked, givenUp>>
  BY DEF CarrierShown
<1>3. PICK h \in Gens : h = old.gen /\ Ask(CarrierStop(h))
  BY <1>1, Typed
<1>4. DoomSent(h)
  BY <1>3, SentToHost, Typed
<1>5. ClientQueueSame /\ HostStays /\ UNCHANGED serving
  BY <1>2, NothingSent, NothingDone DEF hostVars
<1>6. QueueFacts /\ QueueFacts'
  BY QueueFactsHold
<1>7. \A g \in Gens : (LogsIn(g)' <=> LogsIn(g)) /\ (Shows(g)' <=> Switching(g)) /\ ~ Switching(g)'
                      /\ (Shows(g) <=> g = h)
  BY <1>1, <1>2, <1>3 DEF LogsIn, Shows, Switching, OneShown
<1>8. PICK n \in next : n.gen \in Gens /\ n.kind \in Kinds /\ Switching(n.gen)
  BY <1>2, Typed DEF OneShown, Switching
<1>9. /\ next = {n} /\ shown = {old}
      /\ \A c \in shown \cup next : c.gen \in Gens /\ c.kind \in Kinds
  BY <1>1, <1>8, Typed DEF OneShown
<1>10. OneShown'
  BY <1>1, <1>2, <1>3, <1>4, <1>5, <1>6, <1>7, <1>8, <1>9
  DEF DoomSent, ClientQueueSame, HostStays, QueueFacts, OneShown
<1>11. Fresh'
  BY <1>1, <1>2, <1>3, <1>4, <1>5, <1>6, <1>7, <1>8, <1>9
  DEF DoomSent, ClientQueueSame, HostStays, Fresh, InUse, Told
<1>12. Owned'
  BY <1>1, <1>2, <1>3, <1>4, <1>5, <1>6, <1>7, <1>8, <1>9
  DEF DoomSent, ClientQueueSame, HostStays, QueueFacts, Owned, Told, OnePlace
<1>13. OnePlace'
  BY <1>1, <1>2, <1>3, <1>4, <1>5, <1>6, <1>7, <1>8, <1>9
  DEF DoomSent, ClientQueueSame, HostStays, QueueFacts, OnePlace, Told
<1>14. Apart'
  BY <1>1, <1>2, <1>3, <1>4, <1>5, <1>6, <1>7, <1>8, <1>9
  DEF DoomSent, ClientQueueSame, HostStays, QueueFacts, Apart
<1>15. StopsInTurn'
  BY <1>1, <1>2, <1>3, <1>4, <1>5, <1>6, <1>7, <1>8, <1>9
  DEF DoomSent, ClientQueueSame, HostStays, QueueFacts, StopsInTurn, StopAhead, Ended
<1>16. AnswersAreTrue'
  BY <1>1, <1>2, <1>3, <1>4, <1>5, <1>6, <1>7, <1>8, <1>9
  DEF DoomSent, ClientQueueSame, HostStays, QueueFacts, AnswersAreTrue
<1>17. Carried'
  BY <1>1, <1>2, <1>3, <1>4, <1>5, <1>6, <1>7, <1>8, <1>9
  DEF DoomSent, ClientQueueSame, HostStays, QueueFacts, Carried, Ended, StopsInTurn
<1>18. DetachKeeps'
  BY <1>1, <1>2, <1>3, <1>4, <1>5, <1>6, <1>7, <1>8, <1>9
  DEF DoomSent, ClientQueueSame, HostStays, QueueFacts, DetachKeeps
<1>19. Unwanted'
  BY <1>1, <1>2, <1>3, <1>4, <1>5, <1>6, <1>7, <1>8, <1>9
  DEF DoomSent, ClientQueueSame, HostStays, QueueFacts, Unwanted, Loading
<1>20. KindsAgree'
  BY <1>1, <1>2, <1>3, <1>4, <1>5, <1>6, <1>7, <1>8, <1>9
  DEF DoomSent, ClientQueueSame, HostStays, QueueFacts, KindsAgree
<1>21. RdpIsHeld'
  BY <1>1, <1>2, <1>3, <1>4, <1>5, <1>6, <1>7, <1>8, <1>9
  DEF DoomSent, ClientQueueSame, HostStays, QueueFacts, RdpIsHeld, Ended, KindsAgree
<1> QED
  BY <1>10, <1>11, <1>12, <1>13, <1>14, <1>15, <1>16, <1>17, <1>18, <1>19, <1>20, <1>21, FeedsRun' DEF CalmInv

LEMMA GiveUpKeeps ==
    ASSUME BaseInv, CalmInv, calm, FeedsRun', UNCHANGED hostVars, NEW h \in Gens, GiveUp(h), Switching(h)
    PROVE  CalmInv'
<1> USE DEF CalmInv
<1>1. up /\ next' = {} /\ up' = FALSE /\ givenUp' = givenUp \cup {h} /\ Ask(CarrierStop(h))
      /\ UNCHANGED <<toClient, gen, shown, logins, wanted, asked>>
  BY DEF GiveUp, AbandonSwitch
<1>2. PICK n \in next : n.gen = h /\ n.kind \in Kinds
  BY Typed DEF Switching
<1>3. next = {n}
  BY <1>2 DEF OneShown
<1>4. rdp' = IF n.kind = "Rdp" THEN 0 ELSE rdp
  BY <1>3 DEF GiveUp, AbandonSwitch
<1>5. DoomSent(h)
  BY <1>1, SentToHost, Typed
<1>6. ClientQueueSame /\ HostStays /\ UNCHANGED serving
  BY <1>1, NothingSent, NothingDone DEF hostVars
<1>7. QueueFacts /\ QueueFacts'
  BY QueueFactsHold
<1>8. \A g \in Gens : (LogsIn(g)' <=> LogsIn(g)) /\ (Shows(g)' <=> Shows(g)) /\ ~ Switching(g)'
      /\ (Switching(g) <=> g = h)
  BY <1>1, <1>2, <1>3 DEF LogsIn, Shows, Switching
<1>9. /\ \A c \in shown \cup next : c.gen \in Gens /\ c.kind \in Kinds
      /\ \E g \in Gens : Shows(g)
  BY <1>3, Typed DEF OneShown, Shows
<1>10. OneShown'
  BY <1>1, <1>2, <1>3, <1>4, <1>5, <1>6, <1>7, <1>8, <1>9
  DEF DoomSent, ClientQueueSame, HostStays, QueueFacts, OneShown
<1>11. Fresh'
  BY <1>1, <1>2, <1>3, <1>4, <1>5, <1>6, <1>7, <1>8, <1>9
  DEF DoomSent, ClientQueueSame, HostStays, Fresh, InUse, Told
<1>12. Owned'
  BY <1>1, <1>2, <1>3, <1>4, <1>5, <1>6, <1>7, <1>8, <1>9
  DEF DoomSent, ClientQueueSame, HostStays, QueueFacts, Owned, Told, OnePlace
<1>13. OnePlace'
  BY <1>1, <1>2, <1>3, <1>4, <1>5, <1>6, <1>7, <1>8, <1>9
  DEF DoomSent, ClientQueueSame, HostStays, QueueFacts, OnePlace, Told
<1>14. Apart'
  BY <1>1, <1>2, <1>3, <1>4, <1>5, <1>6, <1>7, <1>8, <1>9
  DEF DoomSent, ClientQueueSame, HostStays, QueueFacts, Apart
<1>15. StopsInTurn'
  BY <1>1, <1>2, <1>3, <1>4, <1>5, <1>6, <1>7, <1>8, <1>9
  DEF DoomSent, ClientQueueSame, HostStays, QueueFacts, StopsInTurn, StopAhead, Ended
<1>16. AnswersAreTrue'
  BY <1>1, <1>2, <1>3, <1>4, <1>5, <1>6, <1>7, <1>8, <1>9
  DEF DoomSent, ClientQueueSame, HostStays, QueueFacts, AnswersAreTrue
<1>17. Carried'
  BY <1>1, <1>2, <1>3, <1>4, <1>5, <1>6, <1>7, <1>8, <1>9
  DEF DoomSent, ClientQueueSame, HostStays, QueueFacts, Carried, Ended, StopsInTurn
<1>18. DetachKeeps'
  BY <1>1, <1>2, <1>3, <1>4, <1>5, <1>6, <1>7, <1>8, <1>9
  DEF DoomSent, ClientQueueSame, HostStays, QueueFacts, DetachKeeps
<1>19. Unwanted'
  BY <1>1, <1>2, <1>3, <1>4, <1>5, <1>6, <1>7, <1>8, <1>9
  DEF DoomSent, ClientQueueSame, HostStays, QueueFacts, Unwanted, Loading
<1>20. KindsAgree'
  BY <1>1, <1>2, <1>3, <1>4, <1>5, <1>6, <1>7, <1>8, <1>9
  DEF DoomSent, ClientQueueSame, HostStays, QueueFacts, KindsAgree
<1>21. RdpIsHeld'
  BY <1>1, <1>2, <1>3, <1>4, <1>5, <1>6, <1>7, <1>8, <1>9
  DEF DoomSent, ClientQueueSame, HostStays, QueueFacts, RdpIsHeld, Ended, KindsAgree
<1> QED
  BY <1>10, <1>11, <1>12, <1>13, <1>14, <1>15, <1>16, <1>17, <1>18, <1>19, <1>20, <1>21, FeedsRun' DEF CalmInv

-----------------------------------------------------------------------------
(* In calm: what pump_events and the logins do.                             *)

\* What an answer taken by the client says.
LEMMA AnswerIsTaken ==
    ASSUME BaseInv, Receive("Answer"), NEW m, m = Head(toClient)
    PROVE  m.gen \in Gens /\ m.kind \in Kinds /\ m.ok \in BOOLEAN /\ AnswerTaken(m.gen, m.kind, m.ok)
BY TakenAtClient, Typed

\* A generation that was answered, or is logging in, is not behind a stop; when
\* the app asked for it, nothing of the window is shown.
LEMMA AskedShowsNothing ==
    ASSUME BaseInv, CalmInv, NEW h \in Gens, Told(h) \/ (LogsIn(h) /\ Runs(h)), ~ Switching(h),
           ~ EndThenAnswer(h)
    PROVE  asked = h /\ shown = {} /\ next = {} /\ ~ up
<1> USE DEF CalmInv
<1>1. asked = h
  BY DEF Owned
<1>2. ~ StopAhead(h)
  BY QueueFactsHold DEF QueueFacts, StopAhead, OnePlace
<1>3. shown = {}
  BY <1>1, <1>2 DEF StopsInTurn
<1> QED
  BY <1>1, <1>3 DEF OneShown

LEMMA AcceptedRdpKeeps ==
    ASSUME BaseInv, CalmInv, FeedsRun', UNCHANGED hostVars, AcceptedRdp
    PROVE  CalmInv'
<1> USE DEF CalmInv
<1>1. PICK m : m = Head(toClient)
  OBVIOUS
<1>2. Receive("Answer") /\ m.ok /\ m.kind = "Rdp" /\ logins' = logins \cup {m.gen}
      /\ UNCHANGED <<toHost, gen, shown, next, up, rdp, wanted, asked, givenUp>>
  BY <1>1 DEF AcceptedRdp
<1>3. PICK h \in Gens : AnswerTaken(h, "Rdp", TRUE) /\ logins' = logins \cup {h} /\ "Rdp" \in Kinds
  <2>1. m.ok = TRUE
    BY <1>1, <1>2, AnswerIsTaken
  <2> QED
    BY <1>1, <1>2, <2>1, AnswerIsTaken
<1>4. HostQueueSame /\ HostStays /\ UNCHANGED serving
  BY <1>2, NothingSent, NothingDone DEF hostVars
<1>5. QueueFacts /\ QueueFacts'
  BY QueueFactsHold
<1>6. \A g \in Gens : (LogsIn(g)' <=> LogsIn(g) \/ g = h) /\ (Shows(g)' <=> Shows(g))
      /\ (Switching(g)' <=> Switching(g))
  BY <1>2, <1>3 DEF LogsIn, Shows, Switching
<1>7. Granted(h) /\ Told(h) /\ ~ Told(h)' /\ GrantedAs(h, "Rdp")
  BY <1>3 DEF AnswerTaken, Told, OnePlace
<1>8. \A c \in shown \cup next : c.gen \in Gens /\ c.kind \in Kinds
  BY Typed
<1>9. OneShown'
  BY <1>2, <1>3, <1>4, <1>5, <1>6, <1>7, <1>8
  DEF AnswerTaken, HostQueueSame, HostStays, QueueFacts, OneShown
<1>10. Fresh'
  BY <1>2, <1>3, <1>4, <1>5, <1>6, <1>7, <1>8
  DEF AnswerTaken, HostQueueSame, HostStays, Fresh, InUse, Told
<1>11. Owned'
  BY <1>2, <1>3, <1>4, <1>5, <1>6, <1>7, <1>8
  DEF AnswerTaken, HostQueueSame, HostStays, QueueFacts, Owned, Told, OnePlace, OneShown
<1>12. OnePlace'
  BY <1>2, <1>3, <1>4, <1>5, <1>6, <1>7, <1>8
  DEF AnswerTaken, HostQueueSame, HostStays, QueueFacts, OnePlace, Told, Owned, Apart
<1>13. Apart'
  BY <1>2, <1>3, <1>4, <1>5, <1>6, <1>7, <1>8
  DEF AnswerTaken, HostQueueSame, HostStays, QueueFacts, Apart, Owned
<1>14. StopsInTurn'
  BY <1>2, <1>3, <1>4, <1>5, <1>6, <1>7, <1>8
  DEF AnswerTaken, HostQueueSame, HostStays, QueueFacts, StopsInTurn, StopAhead, Ended, OnePlace
<1>15. AnswersAreTrue'
  BY <1>2, <1>3, <1>4, <1>5, <1>6, <1>7, <1>8
  DEF AnswerTaken, HostQueueSame, HostStays, QueueFacts, AnswersAreTrue, OnePlace, Told
<1>16. Carried'
  BY <1>2, <1>3, <1>4, <1>5, <1>6, <1>7, <1>8
  DEF AnswerTaken, HostQueueSame, HostStays, QueueFacts, Carried, Ended, AnswersAreTrue, OnePlace, Told
<1>17. DetachKeeps'
  BY <1>2, <1>3, <1>4, <1>5, <1>6, <1>7, <1>8
  DEF AnswerTaken, HostQueueSame, HostStays, QueueFacts, DetachKeeps
<1>18. Unwanted'
  BY <1>2, <1>3, <1>4, <1>5, <1>6, <1>7, <1>8
  DEF AnswerTaken, HostQueueSame, HostStays, QueueFacts, Unwanted, Loading
<1>19. KindsAgree'
  BY <1>2, <1>3, <1>4, <1>5, <1>6, <1>7, <1>8
  DEF AnswerTaken, HostQueueSame, HostStays, QueueFacts, KindsAgree, OneShown
<1>20. RdpIsHeld'
  BY <1>2, <1>3, <1>4, <1>5, <1>6, <1>7, <1>8
  DEF AnswerTaken, HostQueueSame, HostStays, QueueFacts, RdpIsHeld, Ended, KindsAgree, OnePlace, Told
<1> QED
  BY <1>9, <1>10, <1>11, <1>12, <1>13, <1>14, <1>15, <1>16, <1>17, <1>18, <1>19, <1>20, FeedsRun' DEF CalmInv

LEMMA AcceptedKeeps ==
    ASSUME BaseInv, CalmInv, FeedsRun', UNCHANGED hostVars, Accepted
    PROVE  CalmInv'
<1> USE DEF CalmInv
<1>1. PICK m : m = Head(toClient)
  OBVIOUS
<1>2. Receive("Answer") /\ m.ok /\ m.kind # "Rdp" /\ Answered(m.gen)
      /\ UNCHANGED <<toHost, gen, next, logins, rdp, wanted, givenUp>>
      /\ IF Switching(m.gen) THEN up' = TRUE /\ UNCHANGED shown
                             ELSE shown' = {[gen |-> m.gen, kind |-> m.kind]} /\ UNCHANGED up
  BY <1>1 DEF Accepted
<1>3. PICK h \in Gens, l \in Kinds : AnswerTaken(h, l, TRUE) /\ h = m.gen /\ l = m.kind
  <2>1. m.ok = TRUE
    BY <1>1, <1>2, AnswerIsTaken
  <2> QED
    BY <1>1, <1>2, <2>1, AnswerIsTaken
<1>4. HostQueueSame /\ HostStays /\ UNCHANGED serving
  BY <1>2, NothingSent, NothingDone DEF hostVars
<1>5. QueueFacts /\ QueueFacts'
  BY QueueFactsHold
<1>6. Granted(h) /\ Told(h) /\ ~ Told(h)' /\ GrantedAs(h, l)
  BY <1>3 DEF AnswerTaken, Told, OnePlace
<1>7. \A c \in shown \cup next : c.gen \in Gens /\ c.kind \in Kinds
  BY Typed
<1>8. l # "Rdp" /\ asked' = (IF asked = h THEN 0 ELSE asked) /\ \A g \in Gens : g # 0
  BY <1>2, <1>3, Typed DEF Answered
<1>9. CASE Switching(h)
  <2>1. up' = TRUE /\ shown' = shown /\ asked' = asked
    BY <1>2, <1>3, <1>8, <1>9 DEF Apart
  <2>2. \A g \in Gens : /\ LogsIn(g)' <=> LogsIn(g)
                        /\ Shows(g)' <=> Shows(g)
                        /\ Switching(g)' <=> Switching(g)
                        /\ Switching(g) <=> g = h
    BY <1>2, <1>9, <2>1 DEF LogsIn, Shows, Switching, OneShown
  <2>3. PICK n \in next : next = {n} /\ n.gen = h
    BY <1>9 DEF Switching, OneShown
  <2>4. OneShown'
    BY <1>2, <1>3, <1>4, <1>5, <1>6, <1>7, <1>8, <2>1, <2>2, <2>3
    DEF AnswerTaken, HostQueueSame, HostStays, QueueFacts, OneShown
  <2>5. Fresh'
    BY <1>2, <1>3, <1>4, <1>5, <1>6, <1>7, <1>8, <2>1, <2>2, <2>3
    DEF AnswerTaken, HostQueueSame, HostStays, Fresh, InUse, Told
  <2>6. Owned'
    BY <1>2, <1>3, <1>4, <1>5, <1>6, <1>7, <1>8, <2>1, <2>2, <2>3
    DEF AnswerTaken, HostQueueSame, HostStays, QueueFacts, Owned, Told, OnePlace, OneShown
  <2>7. OnePlace'
    BY <1>2, <1>3, <1>4, <1>5, <1>6, <1>7, <1>8, <2>1, <2>2, <2>3
    DEF AnswerTaken, HostQueueSame, HostStays, QueueFacts, OnePlace, Told, Owned, Apart
  <2>8. Apart'
    BY <1>2, <1>3, <1>4, <1>5, <1>6, <1>7, <1>8, <2>1, <2>2, <2>3
    DEF AnswerTaken, HostQueueSame, HostStays, QueueFacts, Apart, Owned
  <2>9. StopsInTurn'
    BY <1>2, <1>3, <1>4, <1>5, <1>6, <1>7, <1>8, <2>1, <2>2, <2>3
    DEF AnswerTaken, HostQueueSame, HostStays, QueueFacts, StopsInTurn, StopAhead, Ended, OnePlace
  <2>10. AnswersAreTrue'
    BY <1>2, <1>3, <1>4, <1>5, <1>6, <1>7, <1>8, <2>1, <2>2, <2>3
    DEF AnswerTaken, HostQueueSame, HostStays, QueueFacts, AnswersAreTrue, OnePlace, Told
  <2>11. Carried'
    BY <1>2, <1>3, <1>4, <1>5, <1>6, <1>7, <1>8, <2>1, <2>2, <2>3
    DEF AnswerTaken, HostQueueSame, HostStays, QueueFacts, Carried, Ended, AnswersAreTrue, OnePlace, Told
  <2>12. DetachKeeps'
    BY <1>2, <1>3, <1>4, <1>5, <1>6, <1>7, <1>8, <2>1, <2>2, <2>3
    DEF AnswerTaken, HostQueueSame, HostStays, QueueFacts, DetachKeeps
  <2>13. Unwanted'
    BY <1>2, <1>3, <1>4, <1>5, <1>6, <1>7, <1>8, <2>1, <2>2, <2>3
    DEF AnswerTaken, HostQueueSame, HostStays, QueueFacts, Unwanted, Loading
  <2>14. KindsAgree'
    BY <1>2, <1>3, <1>4, <1>5, <1>6, <1>7, <1>8, <2>1, <2>2, <2>3
    DEF AnswerTaken, HostQueueSame, HostStays, QueueFacts, KindsAgree, OneShown
  <2>15. RdpIsHeld'
    BY <1>2, <1>3, <1>4, <1>5, <1>6, <1>7, <1>8, <2>1, <2>2, <2>3
    DEF AnswerTaken, HostQueueSame, HostStays, QueueFacts, RdpIsHeld, Ended, KindsAgree, OnePlace, Told
  <2> QED
    BY <2>4, <2>5, <2>6, <2>7, <2>8, <2>9, <2>10, <2>11, <2>12, <2>13, <2>14, <2>15, FeedsRun' DEF CalmInv
<1>10. CASE ~ Switching(h)
  <2>1. ~ EndThenAnswer(h)
    BY <1>3, <1>5, <1>6 DEF AnswerTaken, QueueFacts
  <2>2. asked = h /\ shown = {} /\ next = {} /\ ~ up
    BY <1>6, <1>10, <2>1, AskedShowsNothing
  <2>3. PICK c : c = [gen |-> h, kind |-> l]
    OBVIOUS
  <2>4. c.gen = h /\ c.kind = l /\ shown' = {c} /\ asked' = 0 /\ up' = up
    BY <1>2, <1>3, <1>8, <1>10, <2>2, <2>3
  <2>5. \A g \in Gens : /\ LogsIn(g)' <=> LogsIn(g)
                        /\ Shows(g)' <=> g = h
                        /\ ~ Shows(g) /\ ~ Switching(g) /\ ~ Switching(g)' /\ asked' # g
                        /\ g # h => asked # g
    BY <1>2, <1>8, <2>2, <2>4 DEF LogsIn, Shows, Switching
  <2>6. Runs(h) => ~ Ended'
    <3>1. Runs(h) => ~ Stopping'
      BY <1>4 DEF HostStays, BaseInv, Served, Runs
    <3>2. Runs(h) => ~ EndComing'
      BY <1>3 DEF AnswerTaken, StopsInTurn
    <3> QED
      BY <3>1, <3>2 DEF Ended
  <2>7. asked = h
    BY <2>2
  <2>8. \A g \in Gens : g # h => ~ Asks(g) /\ ~ Starting(g) /\ ~ Told(g) /\ (LogsIn(g) => ~ Runs(g)) /\ ~ Shows(g)
    BY <2>5 DEF Owned
  <2>9. ~ Asks(h) /\ ~ Starting(h) /\ ~ LogsIn(h) /\ ~ Doomed(h) /\ h \notin givenUp
    BY <1>6, <2>7 DEF OnePlace, Apart
  <2>10. OneShown'
    BY <1>2, <1>3, <1>4, <1>5, <1>6, <1>7, <1>8, <2>2, <2>4, <2>5, <2>6, <2>8, <2>9
    DEF AnswerTaken, HostQueueSame, HostStays, QueueFacts, OneShown
  <2>11. Fresh'
    BY <1>2, <1>3, <1>4, <1>5, <1>6, <1>7, <1>8, <2>2, <2>4, <2>5, <2>6, <2>8, <2>9
    DEF AnswerTaken, HostQueueSame, HostStays, Fresh, InUse, Told
  <2>12. Owned'
    BY <1>2, <1>3, <1>4, <1>5, <1>6, <1>7, <1>8, <2>2, <2>4, <2>5, <2>6, <2>8, <2>9
    DEF AnswerTaken, HostQueueSame, HostStays, QueueFacts, Owned, Told, OnePlace, OneShown
  <2>13. OnePlace'
    BY <1>2, <1>3, <1>4, <1>5, <1>6, <1>7, <1>8, <2>2, <2>4, <2>5, <2>6, <2>8, <2>9
    DEF AnswerTaken, HostQueueSame, HostStays, QueueFacts, OnePlace, Told, Owned, Apart
  <2>14. Apart'
    BY <1>2, <1>3, <1>4, <1>5, <1>6, <1>7, <1>8, <2>2, <2>4, <2>5, <2>6, <2>8, <2>9
    DEF AnswerTaken, HostQueueSame, HostStays, QueueFacts, Apart, Owned
  <2>15. StopsInTurn'
    BY <1>2, <1>3, <1>4, <1>5, <1>6, <1>7, <1>8, <2>2, <2>4, <2>5, <2>6, <2>8, <2>9
    DEF AnswerTaken, HostQueueSame, HostStays, QueueFacts, StopsInTurn, StopAhead, Ended, OnePlace
  <2>16. AnswersAreTrue'
    BY <1>2, <1>3, <1>4, <1>5, <1>6, <1>7, <1>8, <2>2, <2>4, <2>5, <2>6, <2>8, <2>9
    DEF AnswerTaken, HostQueueSame, HostStays, QueueFacts, AnswersAreTrue, Told
  <2>17. Carried'
    BY <1>2, <1>3, <1>4, <1>5, <1>6, <1>7, <1>8, <2>2, <2>4, <2>5, <2>6, <2>8, <2>9
    DEF AnswerTaken, HostQueueSame, HostStays, QueueFacts, Carried, Ended, AnswersAreTrue, OnePlace, Told
  <2>18. DetachKeeps'
    BY <1>2, <1>3, <1>4, <1>5, <1>6, <1>7, <1>8, <2>2, <2>4, <2>5, <2>6, <2>8, <2>9
    DEF AnswerTaken, HostQueueSame, HostStays, QueueFacts, DetachKeeps
  <2>19. Unwanted'
    BY <1>2, <1>3, <1>4, <1>5, <1>6, <1>7, <1>8, <2>2, <2>4, <2>5, <2>6, <2>8, <2>9
    DEF AnswerTaken, HostQueueSame, HostStays, QueueFacts, Unwanted, Loading
  <2>20. KindsAgree'
    BY <1>2, <1>3, <1>4, <1>5, <1>6, <1>7, <1>8, <2>2, <2>4, <2>5, <2>6, <2>8, <2>9
    DEF AnswerTaken, HostQueueSame, HostStays, QueueFacts, KindsAgree, OneShown
  <2>21. RdpIsHeld'
    BY <1>2, <1>3, <1>4, <1>5, <1>6, <1>7, <1>8, <2>2, <2>4, <2>5, <2>6, <2>8, <2>9
    DEF AnswerTaken, HostQueueSame, HostStays, QueueFacts, RdpIsHeld, Ended, KindsAgree, OnePlace, Told
  <2> QED
    BY <2>10, <2>11, <2>12, <2>13, <2>14, <2>15, <2>16, <2>17, <2>18, <2>19, <2>20, <2>21, FeedsRun' DEF CalmInv
<1> QED
  BY <1>9, <1>10

LEMMA RefusedKeeps ==
    ASSUME BaseInv, CalmInv, FeedsRun', UNCHANGED hostVars, Refused
    PROVE  CalmInv'
<1> USE DEF CalmInv
<1>1. PICK m : m = Head(toClient)
  OBVIOUS
<1>2. Receive("Answer") /\ ~ m.ok /\ Answered(m.gen)
      /\ UNCHANGED <<toHost, gen, shown, logins, rdp, wanted, givenUp>>
      /\ IF Switching(m.gen) THEN next' = {} /\ up' = FALSE ELSE UNCHANGED <<next, up>>
  BY <1>1 DEF Refused
<1>3. PICK h \in Gens, l \in Kinds : AnswerTaken(h, l, FALSE) /\ h = m.gen
  <2>1. m.ok = FALSE
    BY <1>1, <1>2, AnswerIsTaken
  <2> QED
    BY <1>1, <1>2, <2>1, AnswerIsTaken
<1>4. HostQueueSame /\ HostStays /\ UNCHANGED serving
  BY <1>2, NothingSent, NothingDone DEF hostVars
<1>5. QueueFacts /\ QueueFacts'
  BY QueueFactsHold
<1>6. Denied(h) /\ Told(h) /\ ~ Told(h)'
  BY <1>3 DEF AnswerTaken, Told, OnePlace
<1>7. \A c \in shown \cup next : c.gen \in Gens /\ c.kind \in Kinds
  BY Typed
<1>8. asked' = (IF asked = h THEN 0 ELSE asked) /\ \A g \in Gens : g # 0
  BY <1>2, <1>3, Typed DEF Answered
<1>9. ~ Runs(h) /\ ~ Asks(h) /\ ~ Starting(h) /\ ~ LogsIn(h)
  BY <1>6 DEF OnePlace, AnswersAreTrue
<1>10. CASE Switching(h)
  <2>1. next' = {} /\ up' = FALSE /\ asked' = asked /\ ~ up
    BY <1>2, <1>3, <1>6, <1>8, <1>10 DEF Apart, OnePlace
  <2>2. \A g \in Gens : /\ LogsIn(g)' <=> LogsIn(g)
                        /\ Shows(g)' <=> Shows(g)
                        /\ ~ Switching(g)'
                        /\ Switching(g) <=> g = h
    BY <1>2, <1>10, <2>1 DEF LogsIn, Shows, Switching, OneShown
  <2>3. OneShown'
    BY <1>2, <1>3, <1>4, <1>5, <1>6, <1>7, <1>9, <2>1, <2>2
    DEF AnswerTaken, HostQueueSame, HostStays, QueueFacts, OneShown
  <2>4. Fresh'
    BY <1>2, <1>3, <1>4, <1>5, <1>6, <1>7, <1>9, <2>1, <2>2
    DEF AnswerTaken, HostQueueSame, HostStays, Fresh, InUse, Told
  <2>5. Owned'
    BY <1>2, <1>3, <1>4, <1>5, <1>6, <1>7, <1>9, <2>1, <2>2
    DEF AnswerTaken, HostQueueSame, HostStays, QueueFacts, Owned, Told, OnePlace, OneShown
  <2>6. OnePlace'
    BY <1>2, <1>3, <1>4, <1>5, <1>6, <1>7, <1>9, <2>1, <2>2
    DEF AnswerTaken, HostQueueSame, HostStays, QueueFacts, OnePlace, Told, Owned, Apart
  <2>7. Apart'
    BY <1>2, <1>3, <1>4, <1>5, <1>6, <1>7, <1>9, <2>1, <2>2
    DEF AnswerTaken, HostQueueSame, HostStays, QueueFacts, Apart, Owned
  <2>8. StopsInTurn'
    BY <1>2, <1>3, <1>4, <1>5, <1>6, <1>7, <1>9, <2>1, <2>2
    DEF AnswerTaken, HostQueueSame, HostStays, QueueFacts, StopsInTurn, StopAhead, Ended, OnePlace
  <2>9. AnswersAreTrue'
    BY <1>2, <1>3, <1>4, <1>5, <1>6, <1>7, <1>9, <2>1, <2>2
    DEF AnswerTaken, HostQueueSame, HostStays, QueueFacts, AnswersAreTrue, OnePlace, Told
  <2>10. Carried'
    BY <1>2, <1>3, <1>4, <1>5, <1>6, <1>7, <1>9, <2>1, <2>2
    DEF AnswerTaken, HostQueueSame, HostStays, QueueFacts, Carried, Ended, AnswersAreTrue, OnePlace, Told
  <2>11. DetachKeeps'
    BY <1>2, <1>3, <1>4, <1>5, <1>6, <1>7, <1>9, <2>1, <2>2
    DEF AnswerTaken, HostQueueSame, HostStays, QueueFacts, DetachKeeps
  <2>12. Unwanted'
    BY <1>2, <1>3, <1>4, <1>5, <1>6, <1>7, <1>9, <2>1, <2>2
    DEF AnswerTaken, HostQueueSame, HostStays, QueueFacts, Unwanted, Loading
  <2>13. KindsAgree'
    BY <1>2, <1>3, <1>4, <1>5, <1>6, <1>7, <1>9, <2>1, <2>2
    DEF AnswerTaken, HostQueueSame, HostStays, QueueFacts, KindsAgree, OneShown
  <2>14. RdpIsHeld'
    BY <1>2, <1>3, <1>4, <1>5, <1>6, <1>7, <1>9, <2>1, <2>2
    DEF AnswerTaken, HostQueueSame, HostStays, QueueFacts, RdpIsHeld, Ended, KindsAgree, OnePlace, Told
  <2> QED
    BY <2>3, <2>4, <2>5, <2>6, <2>7, <2>8, <2>9, <2>10, <2>11, <2>12, <2>13, <2>14, FeedsRun' DEF CalmInv
<1>11. CASE ~ Switching(h)
  <2>1. asked = h
    BY <1>6, <1>11 DEF Owned
  <2>2. UNCHANGED <<next, up>> /\ asked' = 0
    BY <1>2, <1>3, <1>8, <1>11, <2>1
  <2>3. \A g \in Gens : /\ LogsIn(g)' <=> LogsIn(g)
                        /\ Shows(g)' <=> Shows(g)
                        /\ Switching(g)' <=> Switching(g)
                        /\ asked = g <=> g = h
                        /\ asked' # g
    BY <1>2, <1>8, <2>1, <2>2 DEF LogsIn, Shows, Switching
  <2>4. OneShown'
    BY <1>2, <1>3, <1>4, <1>5, <1>6, <1>7, <1>9, <2>2, <2>3
    DEF AnswerTaken, HostQueueSame, HostStays, QueueFacts, OneShown
  <2>5. Fresh'
    BY <1>2, <1>3, <1>4, <1>5, <1>6, <1>7, <1>9, <2>2, <2>3
    DEF AnswerTaken, HostQueueSame, HostStays, Fresh, InUse, Told
  <2>6. Owned'
    BY <1>2, <1>3, <1>4, <1>5, <1>6, <1>7, <1>9, <2>2, <2>3
    DEF AnswerTaken, HostQueueSame, HostStays, QueueFacts, Owned, Told, OnePlace, OneShown
  <2>7. OnePlace'
    BY <1>2, <1>3, <1>4, <1>5, <1>6, <1>7, <1>9, <2>2, <2>3
    DEF AnswerTaken, HostQueueSame, HostStays, QueueFacts, OnePlace, Told, Owned, Apart
  <2>8. Apart'
    BY <1>2, <1>3, <1>4, <1>5, <1>6, <1>7, <1>9, <2>2, <2>3
    DEF AnswerTaken, HostQueueSame, HostStays, QueueFacts, Apart, Owned
  <2>9. StopsInTurn'
    BY <1>2, <1>3, <1>4, <1>5, <1>6, <1>7, <1>9, <2>2, <2>3
    DEF AnswerTaken, HostQueueSame, HostStays, QueueFacts, StopsInTurn, StopAhead, Ended, OnePlace
  <2>10. AnswersAreTrue'
    BY <1>2, <1>3, <1>4, <1>5, <1>6, <1>7, <1>9, <2>2, <2>3
    DEF AnswerTaken, HostQueueSame, HostStays, QueueFacts, AnswersAreTrue, OnePlace, Told
  <2>11. Carried'
    BY <1>2, <1>3, <1>4, <1>5, <1>6, <1>7, <1>9, <2>2, <2>3
    DEF AnswerTaken, HostQueueSame, HostStays, QueueFacts, Carried, Ended, AnswersAreTrue, OnePlace, Told
  <2>12. DetachKeeps'
    BY <1>2, <1>3, <1>4, <1>5, <1>6, <1>7, <1>9, <2>2, <2>3
    DEF AnswerTaken, HostQueueSame, HostStays, QueueFacts, DetachKeeps
  <2>13. Unwanted'
    BY <1>2, <1>3, <1>4, <1>5, <1>6, <1>7, <1>9, <2>2, <2>3
    DEF AnswerTaken, HostQueueSame, HostStays, QueueFacts, Unwanted, Loading
  <2>14. KindsAgree'
    BY <1>2, <1>3, <1>4, <1>5, <1>6, <1>7, <1>9, <2>2, <2>3
    DEF AnswerTaken, HostQueueSame, HostStays, QueueFacts, KindsAgree, OneShown
  <2>15. RdpIsHeld'
    BY <1>2, <1>3, <1>4, <1>5, <1>6, <1>7, <1>9, <2>2, <2>3
    DEF AnswerTaken, HostQueueSame, HostStays, QueueFacts, RdpIsHeld, Ended, KindsAgree, OnePlace, Told
  <2> QED
    BY <2>4, <2>5, <2>6, <2>7, <2>8, <2>9, <2>10, <2>11, <2>12, <2>13, <2>14, <2>15, FeedsRun' DEF CalmInv
<1> QED
  BY <1>10, <1>11

LEMMA LoginDoneKeeps ==
    ASSUME BaseInv, CalmInv, FeedsRun', UNCHANGED hostVars, NEW h \in Gens, LoginDone(h), Runs(h)
    PROVE  CalmInv'
<1> USE DEF CalmInv
<1>1. LogsIn(h) /\ logins' = logins \ {h} /\ rdp' = h /\ Answered(h)
      /\ UNCHANGED <<toHost, toClient, gen, next, wanted, givenUp>>
      /\ IF Switching(h) THEN up' = TRUE /\ UNCHANGED shown
                         ELSE shown' = {[gen |-> h, kind |-> "Rdp"]} /\ UNCHANGED up
  BY DEF LoginDone, LogsIn, channel
<1>2. HostQueueSame /\ ClientQueueSame /\ HostStays /\ UNCHANGED serving
  BY <1>1, NothingSent, NothingDone DEF hostVars
<1>3. QueueFacts /\ QueueFacts'
  BY QueueFactsHold
<1>4. \A c \in shown \cup next : c.gen \in Gens /\ c.kind \in Kinds
  BY Typed
<1>5. asked' = (IF asked = h THEN 0 ELSE asked) /\ \A g \in Gens : g # 0
  BY <1>1, Typed DEF Answered
<1>6. ~ Asks(h) /\ ~ Starting(h) /\ ~ Told(h)
  BY <1>1 DEF OnePlace
<1>7. CASE Switching(h)
  <2>1. up' = TRUE /\ shown' = shown /\ asked' = asked
    BY <1>1, <1>5, <1>7 DEF Apart
  <2>2. \A g \in Gens : /\ LogsIn(g)' <=> LogsIn(g) /\ g # h
                        /\ Shows(g)' <=> Shows(g)
                        /\ Switching(g)' <=> Switching(g)
                        /\ Switching(g) <=> g = h
    BY <1>1, <1>7, <2>1 DEF LogsIn, Shows, Switching, OneShown
  <2>3. PICK n \in next : next = {n} /\ n.gen = h
    BY <1>7 DEF Switching, OneShown
  <2>4. OneShown'
    BY <1>1, <1>2, <1>3, <1>4, <1>6, Runs(h), <2>1, <2>2, <2>3
    DEF HostQueueSame, ClientQueueSame, HostStays, QueueFacts, OneShown
  <2>5. Fresh'
    BY <1>1, <1>2, <1>3, <1>4, <1>6, Runs(h), <2>1, <2>2, <2>3
    DEF HostQueueSame, ClientQueueSame, HostStays, Fresh, InUse, Told
  <2>6. Owned'
    BY <1>1, <1>2, <1>3, <1>4, <1>6, Runs(h), <2>1, <2>2, <2>3
    DEF HostQueueSame, ClientQueueSame, HostStays, QueueFacts, Owned, Told, OnePlace, OneShown
  <2>7. OnePlace'
    BY <1>1, <1>2, <1>3, <1>4, <1>6, Runs(h), <2>1, <2>2, <2>3
    DEF HostQueueSame, ClientQueueSame, HostStays, QueueFacts, OnePlace, Told, Apart
  <2>8. Apart'
    BY <1>1, <1>2, <1>3, <1>4, <1>6, Runs(h), <2>1, <2>2, <2>3
    DEF HostQueueSame, ClientQueueSame, HostStays, QueueFacts, Apart, Owned
  <2>9. StopsInTurn'
    BY <1>1, <1>2, <1>3, <1>4, <1>6, Runs(h), <2>1, <2>2, <2>3
    DEF HostQueueSame, ClientQueueSame, HostStays, QueueFacts, StopsInTurn, StopAhead, Ended, OnePlace
  <2>10. AnswersAreTrue'
    BY <1>1, <1>2, <1>3, <1>4, <1>6, Runs(h), <2>1, <2>2, <2>3
    DEF HostQueueSame, ClientQueueSame, HostStays, QueueFacts, AnswersAreTrue, OnePlace, Told
  <2>11. Carried'
    BY <1>1, <1>2, <1>3, <1>4, <1>6, Runs(h), <2>1, <2>2, <2>3
    DEF HostQueueSame, ClientQueueSame, HostStays, QueueFacts, Carried, Ended, AnswersAreTrue, OnePlace, Told
  <2>12. DetachKeeps'
    BY <1>1, <1>2, <1>3, <1>4, <1>6, Runs(h), <2>1, <2>2, <2>3
    DEF HostQueueSame, ClientQueueSame, HostStays, QueueFacts, DetachKeeps
  <2>13. Unwanted'
    BY <1>1, <1>2, <1>3, <1>4, <1>6, Runs(h), <2>1, <2>2, <2>3
    DEF HostQueueSame, ClientQueueSame, HostStays, QueueFacts, Unwanted, Loading
  <2>14. KindsAgree'
    BY <1>1, <1>2, <1>3, <1>4, <1>6, Runs(h), <2>1, <2>2, <2>3
    DEF HostQueueSame, ClientQueueSame, HostStays, QueueFacts, KindsAgree, OneShown
  <2>15. RdpIsHeld'
    BY <1>1, <1>2, <1>3, <1>4, <1>6, Runs(h), <2>1, <2>2, <2>3
    DEF HostQueueSame, ClientQueueSame, HostStays, QueueFacts, RdpIsHeld, Ended, KindsAgree, OnePlace, Told
  <2> QED
    BY <2>4, <2>5, <2>6, <2>7, <2>8, <2>9, <2>10, <2>11, <2>12, <2>13, <2>14, <2>15, FeedsRun' DEF CalmInv
<1>8. CASE ~ Switching(h)
  <2>1. ~ EndThenAnswer(h)
    BY <1>3, <1>6 DEF QueueFacts
  <2>2. asked = h /\ shown = {} /\ next = {} /\ ~ up
    BY <1>1, <1>8, <2>1, AskedShowsNothing
  <2>3. PICK c : c = [gen |-> h, kind |-> "Rdp"]
    OBVIOUS
  <2>4. c.gen = h /\ c.kind = "Rdp" /\ shown' = {c} /\ asked' = 0 /\ up' = up
    BY <1>1, <1>5, <1>8, <2>2, <2>3
  <2>5. \A g \in Gens : /\ LogsIn(g)' <=> LogsIn(g) /\ g # h
                        /\ Shows(g)' <=> g = h
                        /\ ~ Shows(g) /\ ~ Switching(g) /\ ~ Switching(g)' /\ asked' # g
                        /\ g # h => asked # g
    BY <1>1, <1>5, <2>2, <2>4 DEF LogsIn, Shows, Switching
  <2>6. ~ Ended'
    <3>1. ~ Stopping'
      BY <1>2 DEF HostStays, BaseInv, Served, Runs
    <3>2. ~ EndComing'
      BY <1>1, <1>2 DEF ClientQueueSame, StopsInTurn
    <3> QED
      BY <3>1, <3>2 DEF Ended
  <2>7. \A g \in Gens : g # h => ~ Asks(g) /\ ~ Starting(g) /\ ~ Told(g) /\ (LogsIn(g) => ~ Runs(g)) /\ ~ Shows(g)
    BY <2>5 DEF Owned
  <2>8. ~ Doomed(h) /\ h \notin givenUp
    BY <2>2 DEF Apart
  <2>9. OneShown'
    BY <1>1, <1>2, <1>3, <1>4, <1>6, Runs(h), <2>2, <2>4, <2>5, <2>6, <2>7, <2>8
    DEF HostQueueSame, ClientQueueSame, HostStays, QueueFacts, OneShown
  <2>10. Fresh'
    BY <1>1, <1>2, <1>3, <1>4, <1>6, Runs(h), <2>2, <2>4, <2>5, <2>6, <2>7, <2>8
    DEF HostQueueSame, ClientQueueSame, HostStays, Fresh, InUse, Told
  <2>11. Owned'
    BY <1>1, <1>2, <1>3, <1>4, <1>6, Runs(h), <2>2, <2>4, <2>5, <2>6, <2>7, <2>8
    DEF HostQueueSame, ClientQueueSame, HostStays, QueueFacts, Owned, Told, OnePlace, OneShown
  <2>12. OnePlace'
    BY <1>1, <1>2, <1>3, <1>4, <1>6, Runs(h), <2>2, <2>4, <2>5, <2>6, <2>7, <2>8
    DEF HostQueueSame, ClientQueueSame, HostStays, QueueFacts, OnePlace, Told, Owned, Apart
  <2>13. Apart'
    BY <1>1, <1>2, <1>3, <1>4, <1>6, Runs(h), <2>2, <2>4, <2>5, <2>6, <2>7, <2>8
    DEF HostQueueSame, ClientQueueSame, HostStays, QueueFacts, Apart, Owned
  <2>14. StopsInTurn'
    BY <1>1, <1>2, <1>3, <1>4, <1>6, Runs(h), <2>2, <2>4, <2>5, <2>6, <2>7, <2>8
    DEF HostQueueSame, ClientQueueSame, HostStays, QueueFacts, StopsInTurn, StopAhead, Ended, OnePlace
  <2>15. AnswersAreTrue'
    BY <1>1, <1>2, <1>3, <1>4, <1>6, Runs(h), <2>2, <2>4, <2>5, <2>6, <2>7, <2>8
    DEF HostQueueSame, ClientQueueSame, HostStays, QueueFacts, AnswersAreTrue, Told
  <2>16. Carried'
    BY <1>1, <1>2, <1>3, <1>4, <1>6, Runs(h), <2>2, <2>4, <2>5, <2>6, <2>7, <2>8
    DEF HostQueueSame, ClientQueueSame, HostStays, QueueFacts, Carried, Ended, AnswersAreTrue, OnePlace, Told
  <2>17. DetachKeeps'
    BY <1>1, <1>2, <1>3, <1>4, <1>6, Runs(h), <2>2, <2>4, <2>5, <2>6, <2>7, <2>8
    DEF HostQueueSame, ClientQueueSame, HostStays, QueueFacts, DetachKeeps
  <2>18. Unwanted'
    BY <1>1, <1>2, <1>3, <1>4, <1>6, Runs(h), <2>2, <2>4, <2>5, <2>6, <2>7, <2>8
    DEF HostQueueSame, ClientQueueSame, HostStays, QueueFacts, Unwanted, Loading
  <2>19. KindsAgree'
    BY <1>1, <1>2, <1>3, <1>4, <1>6, Runs(h), <2>2, <2>4, <2>5, <2>6, <2>7, <2>8
    DEF HostQueueSame, ClientQueueSame, HostStays, QueueFacts, KindsAgree, OneShown
  <2>20. RdpIsHeld'
    BY <1>1, <1>2, <1>3, <1>4, <1>6, Runs(h), <2>2, <2>4, <2>5, <2>6, <2>7, <2>8
    DEF HostQueueSame, ClientQueueSame, HostStays, QueueFacts, RdpIsHeld, Ended, KindsAgree, OnePlace, Told
  <2> QED
    BY <2>9, <2>10, <2>11, <2>12, <2>13, <2>14, <2>15, <2>16, <2>17, <2>18, <2>19, <2>20, FeedsRun' DEF CalmInv
<1> QED
  BY <1>7, <1>8

LEMMA LoginFailsKeeps ==
    ASSUME BaseInv, CalmInv, FeedsRun', UNCHANGED hostVars, NEW h \in Gens, LoginFails(h)
    PROVE  CalmInv'
<1> USE DEF CalmInv
<1>1. LogsIn(h) /\ logins' = logins \ {h} /\ Answered(h) /\ UNCHANGED <<toClient, gen, shown, wanted>>
  BY DEF LoginFails, LogsIn
<1>2. ClientQueueSame /\ HostStays /\ UNCHANGED serving
  BY <1>1, NothingSent, NothingDone DEF hostVars
<1>3. QueueFacts /\ QueueFacts'
  BY QueueFactsHold
<1>4. \A c \in shown \cup next : c.gen \in Gens /\ c.kind \in Kinds
  BY Typed
<1>5. asked' = (IF asked = h THEN 0 ELSE asked) /\ \A g \in Gens : g # 0
  BY <1>1, Typed DEF Answered
<1>6. ~ Asks(h) /\ ~ Starting(h) /\ ~ Told(h)
  BY <1>1 DEF OnePlace
<1>7. CASE Switching(h)
  <2>1. PICK n \in next : next = {n} /\ n.gen = h /\ n.kind = "Rdp"
    BY <1>1, <1>7 DEF Switching, OneShown, KindsAgree
  <2>2. next' = {} /\ up' = FALSE /\ ~ up /\ rdp' = 0 /\ givenUp' = givenUp \cup {h}
        /\ Ask(CarrierStop(h)) /\ asked' = asked
    BY <1>1, <1>5, <1>7, <2>1 DEF LoginFails, AbandonSwitch, Apart, OnePlace
  <2>3. DoomSent(h)
    BY <2>2, SentToHost, Typed
  <2>4. \A g \in Gens : /\ LogsIn(g)' <=> LogsIn(g) /\ g # h
                        /\ Shows(g)' <=> Shows(g)
                        /\ ~ Switching(g)'
                        /\ Switching(g) <=> g = h
    BY <1>1, <1>7, <2>1, <2>2 DEF LogsIn, Shows, Switching
  <2>5. \E g \in Gens : Shows(g)
    BY <2>1, Typed DEF OneShown, Shows
  <2>6. asked # h /\ ~ Shows(h)
    BY <1>7 DEF Apart
  <2>7. OneShown'
    BY <1>1, <1>2, <1>3, <1>4, <1>6, <2>1, <2>2, <2>3, <2>4, <2>5, <2>6
    DEF DoomSent, ClientQueueSame, HostStays, QueueFacts, OneShown
  <2>8. Fresh'
    BY <1>1, <1>2, <1>3, <1>4, <1>6, <2>1, <2>2, <2>3, <2>4, <2>5, <2>6
    DEF DoomSent, ClientQueueSame, HostStays, Fresh, InUse, Told
  <2>9. Owned'
    BY <1>1, <1>2, <1>3, <1>4, <1>6, <2>1, <2>2, <2>3, <2>4, <2>5, <2>6
    DEF DoomSent, ClientQueueSame, HostStays, QueueFacts, Owned, Told, OnePlace
  <2>10. OnePlace'
    BY <1>1, <1>2, <1>3, <1>4, <1>6, <2>1, <2>2, <2>3, <2>4, <2>5, <2>6
    DEF DoomSent, ClientQueueSame, HostStays, QueueFacts, OnePlace, Told
  <2>11. Apart'
    BY <1>1, <1>2, <1>3, <1>4, <1>6, <2>1, <2>2, <2>3, <2>4, <2>5, <2>6
    DEF DoomSent, ClientQueueSame, HostStays, QueueFacts, Apart
  <2>12. StopsInTurn'
    BY <1>1, <1>2, <1>3, <1>4, <1>6, <2>1, <2>2, <2>3, <2>4, <2>5, <2>6
    DEF DoomSent, ClientQueueSame, HostStays, QueueFacts, StopsInTurn, StopAhead, Ended
  <2>13. AnswersAreTrue'
    BY <1>1, <1>2, <1>3, <1>4, <1>6, <2>1, <2>2, <2>3, <2>4, <2>5, <2>6
    DEF DoomSent, ClientQueueSame, HostStays, QueueFacts, AnswersAreTrue
  <2>14. Carried'
    BY <1>1, <1>2, <1>3, <1>4, <1>6, <2>1, <2>2, <2>3, <2>4, <2>5, <2>6
    DEF DoomSent, ClientQueueSame, HostStays, QueueFacts, Carried, Ended, StopsInTurn
  <2>15. DetachKeeps'
    BY <1>1, <1>2, <1>3, <1>4, <1>6, <2>1, <2>2, <2>3, <2>4, <2>5, <2>6
    DEF DoomSent, ClientQueueSame, HostStays, QueueFacts, DetachKeeps
  <2>16. Unwanted'
    BY <1>1, <1>2, <1>3, <1>4, <1>6, <2>1, <2>2, <2>3, <2>4, <2>5, <2>6
    DEF DoomSent, ClientQueueSame, HostStays, QueueFacts, Unwanted, Loading
  <2>17. KindsAgree'
    BY <1>1, <1>2, <1>3, <1>4, <1>6, <2>1, <2>2, <2>3, <2>4, <2>5, <2>6
    DEF DoomSent, ClientQueueSame, HostStays, QueueFacts, KindsAgree
  <2>18. RdpIsHeld'
    BY <1>1, <1>2, <1>3, <1>4, <1>6, <2>1, <2>2, <2>3, <2>4, <2>5, <2>6
    DEF DoomSent, ClientQueueSame, HostStays, QueueFacts, RdpIsHeld, Ended, KindsAgree
  <2> QED
    BY <2>7, <2>8, <2>9, <2>10, <2>11, <2>12, <2>13, <2>14, <2>15, <2>16, <2>17, <2>18, FeedsRun' DEF CalmInv
<1>8. CASE ~ Switching(h)
  <2>1. UNCHANGED <<next, up, rdp, givenUp>> /\ Ask(StopRequest)
    BY <1>8 DEF LoginFails
  <2>2. StopSent
    BY <2>1, SentToHost, Typed
  <2>3. \A g \in Gens : /\ LogsIn(g)' <=> LogsIn(g) /\ g # h
                        /\ Shows(g)' <=> Shows(g)
                        /\ Switching(g)' <=> Switching(g)
                        /\ asked' = g <=> asked = g /\ g # h
    BY <1>1, <1>5, <2>1 DEF LogsIn, Shows, Switching
  <2>4. OneShown'
    BY <1>1, <1>2, <1>3, <1>4, <1>6, <1>8, <2>1, <2>2, <2>3
    DEF StopSent, ClientQueueSame, HostStays, QueueFacts, OneShown
  <2>5. Fresh'
    BY <1>1, <1>2, <1>3, <1>4, <1>6, <1>8, <2>1, <2>2, <2>3
    DEF StopSent, ClientQueueSame, HostStays, Fresh, InUse, Told
  <2>6. Owned'
    BY <1>1, <1>2, <1>3, <1>4, <1>6, <1>8, <2>1, <2>2, <2>3
    DEF StopSent, ClientQueueSame, HostStays, QueueFacts, Owned, Told, OnePlace
  <2>7. OnePlace'
    BY <1>1, <1>2, <1>3, <1>4, <1>6, <1>8, <2>1, <2>2, <2>3
    DEF StopSent, ClientQueueSame, HostStays, QueueFacts, OnePlace, Told
  <2>8. Apart'
    BY <1>1, <1>2, <1>3, <1>4, <1>6, <1>8, <2>1, <2>2, <2>3
    DEF StopSent, ClientQueueSame, HostStays, QueueFacts, Apart
  <2>9. StopsInTurn'
    BY <1>1, <1>2, <1>3, <1>4, <1>6, <1>8, <2>1, <2>2, <2>3
    DEF StopSent, ClientQueueSame, HostStays, QueueFacts, StopsInTurn, StopAhead, Ended
  <2>10. AnswersAreTrue'
    BY <1>1, <1>2, <1>3, <1>4, <1>6, <1>8, <2>1, <2>2, <2>3
    DEF StopSent, ClientQueueSame, HostStays, QueueFacts, AnswersAreTrue
  <2>11. Carried'
    BY <1>1, <1>2, <1>3, <1>4, <1>6, <1>8, <2>1, <2>2, <2>3
    DEF StopSent, ClientQueueSame, HostStays, QueueFacts, Carried, Ended
  <2>12. DetachKeeps'
    BY <1>1, <1>2, <1>3, <1>4, <1>6, <1>8, <2>1, <2>2, <2>3
    DEF StopSent, ClientQueueSame, HostStays, QueueFacts, DetachKeeps
  <2>13. Unwanted'
    BY <1>1, <1>2, <1>3, <1>4, <1>6, <1>8, <2>1, <2>2, <2>3
    DEF StopSent, ClientQueueSame, HostStays, QueueFacts, Unwanted, Loading
  <2>14. KindsAgree'
    BY <1>1, <1>2, <1>3, <1>4, <1>6, <1>8, <2>1, <2>2, <2>3
    DEF StopSent, ClientQueueSame, HostStays, QueueFacts, KindsAgree
  <2>15. RdpIsHeld'
    BY <1>1, <1>2, <1>3, <1>4, <1>6, <1>8, <2>1, <2>2, <2>3
    DEF StopSent, ClientQueueSame, HostStays, QueueFacts, RdpIsHeld, Ended
  <2> QED
    BY <2>4, <2>5, <2>6, <2>7, <2>8, <2>9, <2>10, <2>11, <2>12, <2>13, <2>14, <2>15, FeedsRun' DEF CalmInv
<1> QED
  BY <1>7, <1>8

LEMMA StreamStoppedKeeps ==
    ASSUME BaseInv, CalmInv, FeedsRun', UNCHANGED hostVars, ReceiveStreamStopped
    PROVE  CalmInv'
<1> USE DEF CalmInv
<1>1. Receive("StreamStopped") /\ shown' = {} /\ next' = {} /\ up' = FALSE /\ rdp' = 0
      /\ UNCHANGED <<toHost, gen, logins, wanted, asked, givenUp>>
  BY DEF ReceiveStreamStopped
<1>2. EndTaken
  BY <1>1, TakenAtClient, Typed
<1>3. HostQueueSame /\ HostStays /\ UNCHANGED serving
  BY <1>1, NothingSent, NothingDone DEF hostVars
<1>4. QueueFacts /\ QueueFacts'
  BY QueueFactsHold
<1>5. \A g \in Gens : (LogsIn(g)' <=> LogsIn(g)) /\ ~ Shows(g)' /\ ~ Switching(g)'
  BY <1>1 DEF LogsIn, Shows, Switching
<1>6. EndComing /\ Ended
  BY <1>2 DEF EndTaken, Ended
<1>7. \A g \in Gens : Switching(g) => ~ Asks(g) /\ ~ Starting(g) /\ ~ Told(g)
  BY <1>2, <1>6 DEF EndTaken, StopsInTurn, StopAhead, Told
<1>8. \A g \in Gens : Shows(g) \/ Switching(g) => ~ Runs(g)
  BY <1>6 DEF StopsInTurn
<1>9. OneShown'
  BY <1>1, <1>2, <1>3, <1>4, <1>5, <1>6, <1>7, <1>8
  DEF EndTaken, HostQueueSame, HostStays, QueueFacts, OneShown
<1>10. Fresh'
  BY <1>1, <1>2, <1>3, <1>4, <1>5, <1>6, <1>7, <1>8
  DEF EndTaken, HostQueueSame, HostStays, Fresh, InUse, Told
<1>11. Owned'
  BY <1>1, <1>2, <1>3, <1>4, <1>5, <1>6, <1>7, <1>8
  DEF EndTaken, HostQueueSame, HostStays, QueueFacts, Owned, Told
<1>12. OnePlace'
  BY <1>1, <1>2, <1>3, <1>4, <1>5, <1>6, <1>7, <1>8
  DEF EndTaken, HostQueueSame, HostStays, QueueFacts, OnePlace, Told
<1>13. Apart'
  BY <1>1, <1>2, <1>3, <1>4, <1>5, <1>6, <1>7, <1>8
  DEF EndTaken, HostQueueSame, HostStays, QueueFacts, Apart
<1>14. StopsInTurn'
  BY <1>1, <1>2, <1>3, <1>4, <1>5, <1>6, <1>7, <1>8
  DEF EndTaken, HostQueueSame, HostStays, QueueFacts, StopsInTurn, StopAhead, Ended
<1>15. AnswersAreTrue'
  BY <1>1, <1>2, <1>3, <1>4, <1>5, <1>6, <1>7, <1>8
  DEF EndTaken, HostQueueSame, HostStays, QueueFacts, AnswersAreTrue
<1>16. Carried'
  BY <1>1, <1>2, <1>3, <1>4, <1>5, <1>6, <1>7, <1>8
  DEF EndTaken, HostQueueSame, HostStays, QueueFacts, Carried, Ended
<1>17. DetachKeeps'
  BY <1>1, <1>2, <1>3, <1>4, <1>5, <1>6, <1>7, <1>8
  DEF EndTaken, HostQueueSame, HostStays, QueueFacts, DetachKeeps
<1>18. Unwanted'
  BY <1>1, <1>2, <1>3, <1>4, <1>5, <1>6, <1>7, <1>8
  DEF EndTaken, HostQueueSame, HostStays, QueueFacts, Unwanted, Loading
<1>19. KindsAgree'
  BY <1>1, <1>2, <1>3, <1>4, <1>5, <1>6, <1>7, <1>8
  DEF EndTaken, HostQueueSame, HostStays, QueueFacts, KindsAgree
<1>20. RdpIsHeld'
  BY <1>1, <1>2, <1>3, <1>4, <1>5, <1>6, <1>7, <1>8
  DEF EndTaken, HostQueueSame, HostStays, QueueFacts, RdpIsHeld, Ended
<1> QED
  BY <1>9, <1>10, <1>11, <1>12, <1>13, <1>14, <1>15, <1>16, <1>17, <1>18, <1>19, <1>20, FeedsRun' DEF CalmInv

-----------------------------------------------------------------------------
(* The invariant, and what it implies.                                      *)

LEMMA InitHolds ==
    CarrierInit => IInv
<1> SUFFICES ASSUME CarrierInit PROVE IInv
  OBVIOUS
<1> USE DEF CarrierInit, ChannelInit, HostInit, ClientInit, LoopIdle
<1>1. CarrierTypeOK
  <2>1. <<>> \in Seq(ToHost) /\ <<>> \in Seq(ToClient)
    BY EmptySeq
  <2>2. ChannelTypeOK
    BY <2>1, ChannelAssumption DEF ChannelTypeOK
  <2>3. serving \in [at : LoopAt, gen : Gens \cup {0}, kind : Kinds, onTrack : BOOLEAN]
    BY ChannelAssumption DEF LoopAt
  <2>4. HostTypeOK
    BY <2>3 DEF HostTypeOK
  <2>5. ClientTypeOK
    BY DEF ClientTypeOK
  <2> QED
    BY <2>2, <2>4, <2>5 DEF CarrierTypeOK
<1>2. Served /\ LoginsFit /\ OneCarrierPerBackend /\ FeedsAccountedFor
  BY DEF Served, Stopping, LoginsFit, OneCarrierPerBackend, FeedsAccountedFor
<1>3. toHost = <<>> /\ toClient = <<>> /\ serving.at = "idle" /\ running = {} /\ logins = {}
      /\ shown = {} /\ next = {}
      /\ feeds = {} /\ ~ up /\ rdp = 0 /\ asked = 0 /\ givenUp = {} /\ \A g \in Gens : g # 0
  BY DEF Gens
<1> HIDE DEF CarrierInit, ChannelInit, HostInit, ClientInit, LoopIdle
<1>4. \A g \in Gens : ~ Asks(g) /\ ~ AsksTwice(g) /\ ~ StopThenStart(g) /\ ~ Doomed(g) /\ ~ Told(g) /\ ~ Granted(g)
                      /\ ~ Denied(g) /\ ~ ToldTwice(g) /\ ~ EndThenAnswer(g) /\ ~ AnswerThenEnd(g)
  BY <1>3, HasEmpty DEF Asks, AsksTwice, StopThenStart, Doomed, Told, Granted, Denied, ToldTwice,
      EndThenAnswer, AnswerThenEnd
<1>5. \A g \in Gens : ~ Starting(g) /\ ~ Runs(g) /\ ~ LogsIn(g) /\ ~ Shows(g) /\ ~ Switching(g) /\ asked # g
  BY <1>3 DEF Starting, Runs, LogsIn, Shows, Switching
<1>6. ~ Stopping /\ ~ EndComing
  BY <1>3, HasEmpty DEF Stopping, EndComing
<1>7. CalmInv
  <2>1. FeedsRun /\ OneShown /\ Fresh /\ Owned /\ OnePlace /\ Apart
    BY <1>3, <1>4, <1>5 DEF FeedsRun, OneShown, Fresh, InUse, Owned, OnePlace, Apart
  <2>2. StopsInTurn /\ AnswersAreTrue /\ Carried /\ DetachKeeps
    BY <1>3, <1>4, <1>5, <1>6 DEF StopsInTurn, StopAhead, Ended, AnswersAreTrue, Carried, DetachKeeps
  <2>3. Unwanted /\ KindsAgree /\ RdpIsHeld
    BY <1>3, <1>4 DEF Unwanted, KindsAgree, RdpIsHeld
  <2> QED
    BY <2>1, <2>2, <2>3 DEF CalmInv
<1> QED
  BY <1>1, <1>2, <1>7 DEF IInv, BaseInv

LEMMA CalmKept ==
    ASSUME RdpOffered, BaseInv, calm, CalmInv, [CarrierNext]_carrierVars
    PROVE  CalmInv'
<1>1. FeedsRun
  BY DEF CalmInv
<1>2. CASE LoopStep /\ UNCHANGED <<clientVars, calm>>
  <2>1. FeedsRun'
    BY <1>1, <1>2, FeedsRunOn DEF HostNext
  <2>2. UNCHANGED clientVars
    BY <1>2
  <2>3. CASE RefuseCarried \/ RefusePolicy
    BY <2>1, <2>2, <2>3, RefuseKeeps
  <2>4. CASE BeginStart
    BY <2>1, <2>2, <2>4, BeginStartKeeps
  <2>5. CASE OpenFails
    BY <2>1, <2>2, <2>5, OpenFailsKeeps
  <2>6. CASE AnswerStart
    BY <2>1, <2>2, <2>6, AnswerStartKeeps
  <2>7. CASE StopNothing
    BY <2>1, <2>2, <2>7, StopNothingKeeps
  <2>8. CASE StopStream
    BY <2>1, <2>2, <2>8, StopStreamKeeps
  <2>9. CASE CarrierStopNothing
    BY <2>1, <2>2, <2>9, CarrierStopNothingKeeps
  <2>10. ASSUME NEW r \in Carrier, StopCarrier(r) PROVE CalmInv'
    BY <2>1, <2>2, <2>10, StopCarrierKeeps
  <2>11. CASE EndTell
    BY <2>1, <2>2, <2>11, EndTellKeeps
  <2>12. CASE OpenCarrier \/ StartSound \/ StopCarrierTrack \/ EndSound \/ EndTrack
    BY <2>1, <2>2, <2>12, HostStillKeeps
  <2> QED
    BY <1>2, <2>3, <2>4, <2>5, <2>6, <2>7, <2>8, <2>9, <2>10, <2>11, <2>12 DEF LoopStep
<1>3. CASE FeedStep /\ UNCHANGED <<clientVars, calm>>
  <2>1. FeedsRun'
    BY <1>1, <1>3, FeedsRunOn DEF HostNext
  <2> QED
    BY <1>3, <2>1, HostStillKeeps
<1>4. CASE ClientStep /\ UNCHANGED <<hostVars, calm>>
  <2>1. FeedsRun' /\ UNCHANGED hostVars
    BY <1>1, <1>4 DEF FeedsRun, hostVars
  <2>2. ASSUME NEW kind \in Kinds, StartWindow(kind) PROVE CalmInv'
    BY <2>1, <2>2, StartWindowKeeps
  <2>3. CASE StopWindow
    BY <2>1, <2>3, StopWindowKeeps
  <2>4. CASE CarrierShown
    BY <2>1, <2>4, CarrierShownKeeps
  <2>5. ASSUME NEW kind \in Kinds, Switch(kind) PROVE CalmInv'
    BY <2>1, <2>5, SwitchKeeps
  <2>6. ASSUME NEW g \in Gens, GiveUp(g) PROVE CalmInv'
    <3>1. CASE Switching(g)
      BY <2>1, <2>6, <3>1, GiveUpKeeps
    <3>2. CASE ~ Switching(g)
      BY <2>1, <2>6, <3>2, ClientStillKeeps
    <3> QED
      BY <3>1, <3>2
  <2>7. ASSUME NEW g \in Gens, Login(g) PROVE CalmInv'
    <3>1. CASE LoginDone(g) /\ Runs(g)
      BY <2>1, <3>1, LoginDoneKeeps
    <3>2. CASE LoginFails(g)
      BY <2>1, <3>2, LoginFailsKeeps
    <3> QED
      BY <2>7, <3>1, <3>2 DEF Login, Runs
  <2>8. CASE AcceptedRdp
    BY <2>1, <2>8, AcceptedRdpKeeps
  <2>9. CASE Accepted
    BY <2>1, <2>9, AcceptedKeeps
  <2>10. CASE Refused
    BY <2>1, <2>10, RefusedKeeps
  <2>11. CASE ReceiveStreamStopped
    BY <2>1, <2>11, StreamStoppedKeeps
  <2>12. CASE ReceiveTrackEnded \/ ReceiveSound
    BY <2>1, <2>12, ClientStillKeeps
  <2> QED
    BY <1>4, <2>2, <2>3, <2>4, <2>5, <2>6, <2>7, <2>8, <2>9, <2>10, <2>11, <2>12 DEF ClientStep, AppStep, PumpStep
<1>5. CASE UNCHANGED carrierVars
  <2>1. UNCHANGED hostVars /\ UNCHANGED <<channel, clientVars>>
    BY <1>5 DEF carrierVars
  <2>2. FeedsRun'
    BY <1>1, <2>1 DEF FeedsRun, hostVars
  <2> QED
    BY <2>1, <2>2, ClientStillKeeps
<1> QED
  BY <1>2, <1>3, <1>4, <1>5 DEF CarrierNext, HostNext

LEMMA InvariantKept ==
    ASSUME RdpOffered
    PROVE  IInv /\ [CarrierNext]_carrierVars => IInv'
<1> SUFFICES ASSUME IInv, [CarrierNext]_carrierVars PROVE IInv'
  OBVIOUS
<1>1. BaseInv /\ BaseInv'
  BY BaseKept DEF IInv
<1>2. calm' = calm
  BY DEF CarrierNext, carrierVars
<1>3. calm => CalmInv'
  BY <1>1, CalmKept DEF IInv
<1> QED
  BY <1>1, <1>2, <1>3 DEF IInv

\* What was proved, read as the property.
LEMMA InvariantMeans ==
    IInv => CarriersAgree
<1> SUFFICES ASSUME IInv PROVE CarriersAgree
  OBVIOUS
<1>1. CarrierTypeOK /\ OneCarrierPerBackend /\ FeedsAccountedFor /\ BaseInv
  BY DEF IInv, BaseInv
<1>2. ASSUME calm PROVE CalmInv
  BY <1>2 DEF IInv
<1>3. ASSUME Quiet
      PROVE  /\ next = {} /\ ~ StopComing /\ ~ Ended
             /\ \A g \in Gens : ~ Asks(g) /\ ~ Starting(g) /\ ~ Told(g) /\ ~ LogsIn(g) /\ ~ Doomed(g)
                /\ ~ Switching(g)
  <2>1. toHost = <<>> /\ toClient = <<>> /\ serving.at = "idle" /\ next = {} /\ logins = {}
    BY <1>3 DEF Quiet
  <2>2. ~ StopComing /\ ~ Ended
    BY <2>1, HasEmpty DEF StopComing, Ended, EndComing, Stopping
  <2>3. \A g \in Gens : ~ Asks(g) /\ ~ Told(g) /\ ~ Doomed(g)
    BY <2>1, HasEmpty DEF Asks, Told, Granted, Denied, Doomed
  <2>4. \A g \in Gens : ~ Starting(g) /\ ~ LogsIn(g) /\ ~ Switching(g)
    BY <2>1 DEF Starting, LogsIn, Switching
  <2> QED
    BY <2>1, <2>2, <2>3, <2>4
<1>4. HostCarriesWhatIsShown
  <2> SUFFICES ASSUME calm, Quiet PROVE Gen(running) = Gen(shown)
    BY DEF HostCarriesWhatIsShown
  <2>1. \A g \in Gens : Runs(g) <=> Shows(g)
    BY <1>2, <1>3 DEF CalmInv, Carried, OnePlace
  <2>2. \A g : g \in Gen(running) <=> \E r \in running : r.gen = g
    BY GenOf
  <2>3. \A g : g \in Gen(shown) <=> \E s \in shown : s.gen = g
    BY GenOf
  <2>4. \A g : g \in Gen(running) => g \in Gens /\ Runs(g)
    BY <2>2, <1>1, Typed DEF Runs
  <2>5. \A g : g \in Gen(shown) => g \in Gens /\ Shows(g)
    BY <2>3, <1>1, Typed DEF Shows
  <2>6. \A g : g \in Gen(running) <=> g \in Gen(shown)
    BY <2>1, <2>2, <2>3, <2>4, <2>5 DEF Runs, Shows
  <2>7. \E r, s : r = Gen(running) /\ s = Gen(shown) /\ \A g : g \in r <=> g \in s
    BY <2>6
  <2> QED
    BY <2>7, SetExtensionality
<1>5. RdpHeldForItsCarrier
  <2> SUFFICES ASSUME calm
               PROVE  /\ rdp # 0 => \E c \in shown \cup next : c.gen = rdp /\ c.kind = "Rdp"
                      /\ Quiet => \A s \in shown : s.kind = "Rdp" => rdp = s.gen
    BY DEF RdpHeldForItsCarrier
  <2>1. RdpIsHeld
    BY <1>2 DEF CalmInv
  <2> QED
    BY <2>1, <1>3 DEF RdpIsHeld
<1>6. GivenUpIsNotShown
  <2> SUFFICES ASSUME calm, NEW g \in Gen(shown), g \in givenUp PROVE FALSE
    BY DEF GivenUpIsNotShown
  <2>1. g \in Gens /\ Shows(g)
    BY GenOf, <1>1, Typed DEF Shows
  <2> QED
    BY <2>1, <1>2 DEF CalmInv, Apart
<1>7. StoppedStaysStopped
  <2> SUFFICES ASSUME calm, Quiet, ~ wanted PROVE running = {}
    BY DEF StoppedStaysStopped
  <2> QED
    BY <1>2, <1>3 DEF CalmInv, Unwanted
<1> QED
  BY <1>1, <1>4, <1>5, <1>6, <1>7 DEF CarriersAgree

-----------------------------------------------------------------------------
\* On a host that serves RDP if it may be asked for it: what the host keeps of a
\* window's carriers and what the client shows agree, through every switch, failure,
\* stop and restart (start_stream, stop_carrier, end_stream and feed in host-core;
\* start_switch, carrier_shown, abandon_switch, stream_start_event and connect_rdp in
\* client-core).
THEOREM CarriersStayInStep ==
    ASSUME RdpOffered
    PROVE  CarrierSpec => []CarriersAgree
<1>1. CarrierInit => IInv
  BY InitHolds
<1>2. IInv /\ [CarrierNext]_carrierVars => IInv'
  BY InvariantKept
<1>3. IInv => CarriersAgree
  BY InvariantMeans
<1> QED
  BY <1>1, <1>2, <1>3, PTL DEF CarrierSpec
=============================================================================
