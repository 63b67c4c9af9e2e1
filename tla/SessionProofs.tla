---------------------------- MODULE SessionProofs ----------------------------
(* Proofs about a session's renegotiations, messages and end, for any number *)
(* of operations and messages, any tracks and either side closing, and about *)
(* the command channel, for any number of channels and chunks of output.     *)
EXTENDS Session, Commands, FiniteSetTheorems, SequenceTheorems, TLAPS

-----------------------------------------------------------------------------
(* Where the members of a set are in a queue, and how many there are.        *)

Places(q, V) == {i \in DOMAIN q : q[i] \in V}
Count(q, V) == Cardinality(Places(q, V))

\* There is at most one, and it is about n.
NoneOf(q, V) == Places(q, V) = {}
OnlyAbout(q, V, n) == \A i, j \in Places(q, V) : i = j /\ q[i].n = n

\* Every member of D is before all members of G.
AllBefore(q, D, G) == \A i \in Places(q, D), j \in Places(q, G) : i < j

LEMMA PlacesAreFinite ==
    ASSUME NEW S, NEW q \in Seq(S), NEW V
    PROVE  IsFiniteSet(Places(q, V)) /\ Count(q, V) \in Nat /\ Places(q, V) \in SUBSET (1..Len(q))
<1>1. IsFiniteSet(1..Len(q)) /\ Places(q, V) \in SUBSET (1..Len(q))
  BY FS_Interval DEF Places
<1> QED
  BY <1>1, FS_Subset, FS_CardinalityType DEF Count

LEMMA PlacesOfAppend ==
    ASSUME NEW S, NEW q \in Seq(S), NEW m \in S, NEW V
    PROVE  /\ Append(q, m) \in Seq(S)
           /\ m \in V => Places(Append(q, m), V) = Places(q, V) \cup {Len(q) + 1}
           /\ m \notin V => Places(Append(q, m), V) = Places(q, V)
           /\ \A i \in Places(q, V) : Append(q, m)[i] = q[i] /\ i \in 1 .. Len(q)
           /\ Append(q, m)[Len(q) + 1] = m
BY DEF Places

LEMMA CountOfAppend ==
    ASSUME NEW S, NEW q \in Seq(S), NEW m \in S, NEW V
    PROVE  Count(Append(q, m), V) = Count(q, V) + (IF m \in V THEN 1 ELSE 0)
<1>1. CASE m \in V
  <2>1. Places(Append(q, m), V) = Places(q, V) \cup {Len(q) + 1}
    BY <1>1, PlacesOfAppend
  <2>2. Len(q) + 1 \notin Places(q, V)
    BY DEF Places
  <2> QED
    BY <1>1, <2>1, <2>2, PlacesAreFinite, FS_AddElement DEF Count
<1>2. CASE m \notin V
  BY <1>2, PlacesOfAppend, PlacesAreFinite DEF Count
<1> QED
  BY <1>1, <1>2

LEMMA PlacesOfTail ==
    ASSUME NEW S, NEW q \in Seq(S), q # <<>>, NEW V
    PROVE  /\ Tail(q) \in Seq(S) /\ Head(q) \in S
           /\ \A i \in Places(Tail(q), V) : i \in Nat /\ i + 1 \in Places(q, V) /\ Tail(q)[i] = q[i + 1]
           /\ \A i \in Places(q, V) : i \in Nat /\ (i # 1 => i - 1 \in Places(Tail(q), V))
           /\ 1 \in Places(q, V) <=> Head(q) \in V
           /\ Head(q) = q[1]
<1>1. Tail(q) \in Seq(S) /\ Len(Tail(q)) = Len(q) - 1 /\ \A i \in 1..Len(Tail(q)) : Tail(q)[i] = q[i + 1]
  BY HeadTailProperties
<1>2. Head(q) \in S /\ Head(q) = q[1] /\ Len(q) \in Nat \ {0}
  BY HeadTailProperties, EmptySeq
<1>3. DOMAIN q = 1 .. Len(q) /\ DOMAIN Tail(q) = 1 .. Len(Tail(q))
  BY <1>1
<1>4. ASSUME NEW i \in Places(Tail(q), V)
      PROVE  i \in Nat /\ i + 1 \in Places(q, V) /\ Tail(q)[i] = q[i + 1]
  BY <1>1, <1>3, <1>4 DEF Places
<1>5. ASSUME NEW i \in Places(q, V), i # 1
      PROVE  i - 1 \in Places(Tail(q), V)
  <2>1. i \in Nat /\ i - 1 \in 1 .. Len(Tail(q)) /\ (i - 1) + 1 = i
    BY <1>1, <1>3, <1>5 DEF Places
  <2> QED
    BY <1>1, <1>3, <1>5, <2>1 DEF Places
<1>6. \A i \in Places(q, V) : i \in Nat
  BY <1>3 DEF Places
<1>7. 1 \in Places(q, V) <=> Head(q) \in V
  BY <1>2, <1>3 DEF Places
<1> QED
  BY <1>1, <1>2, <1>4, <1>5, <1>6, <1>7

LEMMA CountOfTail ==
    ASSUME NEW S, NEW q \in Seq(S), q # <<>>, NEW V
    PROVE  Count(q, V) = Count(Tail(q), V) + (IF Head(q) \in V THEN 1 ELSE 0)
<1> DEFINE Later == Places(q, V) \ {1}
           Shift == [i \in Later |-> i - 1]
<1>1. /\ \A i \in Later : i \in Nat /\ i - 1 \in Places(Tail(q), V)
      /\ \A j \in Places(Tail(q), V) : j \in Nat /\ j + 1 \in Places(q, V)
      /\ 1 \in Places(q, V) <=> Head(q) \in V
      /\ Tail(q) \in Seq(S)
  BY PlacesOfTail
<1>2. IsFiniteSet(Places(q, V)) /\ IsFiniteSet(Later) /\ IsFiniteSet(Places(Tail(q), V))
      /\ Count(q, V) \in Nat /\ Count(Tail(q), V) \in Nat
  BY <1>1, PlacesAreFinite, FS_RemoveElement
<1>3. \A j \in Places(Tail(q), V) : j \in Nat /\ j # 0
  <2>1. Places(Tail(q), V) \in SUBSET (1 .. Len(Tail(q)))
    BY <1>1, PlacesAreFinite
  <2> QED
    BY <2>1
<1>4. Shift \in Bijection(Later, Places(Tail(q), V))
  <2>1. Shift \in [Later -> Places(Tail(q), V)]
    BY <1>1
  <2>2. \A a, b \in Later : Shift[a] = Shift[b] => a = b
    BY <1>1
  <2>3. \A j \in Places(Tail(q), V) : j + 1 \in Later /\ Shift[j + 1] = j
    BY <1>1, <1>3
  <2>4. \A j \in Places(Tail(q), V) : \E i \in Later : Shift[i] = j
    BY <2>3
  <2> QED
    BY <2>1, <2>2, <2>4 DEF Bijection, Injection, Surjection, IsInjective
<1>5. Cardinality(Later) = Count(Tail(q), V)
  BY <1>2, <1>4, FS_Bijection DEF Count, ExistsBijection
<1> QED
  BY <1>1, <1>2, <1>5, FS_RemoveElement DEF Count

\* A queue that grows by something else, by the first of its kind, or that
\* loses its head.
LEMMA OneOfAppend ==
    ASSUME NEW S, NEW q \in Seq(S), NEW m \in S, NEW V
    PROVE  /\ m \notin V => (NoneOf(Append(q, m), V) <=> NoneOf(q, V))
           /\ m \notin V => \A n : OnlyAbout(q, V, n) => OnlyAbout(Append(q, m), V, n)
           /\ m \in V /\ NoneOf(q, V) => OnlyAbout(Append(q, m), V, m.n)
<1>1. CASE m \notin V
  BY <1>1, PlacesOfAppend DEF NoneOf, OnlyAbout
<1>2. CASE m \in V /\ NoneOf(q, V)
  <2>1. Places(Append(q, m), V) = {Len(q) + 1} /\ Append(q, m)[Len(q) + 1] = m
    BY <1>2, PlacesOfAppend DEF NoneOf
  <2> QED
    BY <1>2, <2>1 DEF OnlyAbout
<1> QED
  BY <1>1, <1>2

LEMMA OneOfTail ==
    ASSUME NEW S, NEW q \in Seq(S), q # <<>>, NEW V
    PROVE  /\ NoneOf(q, V) => NoneOf(Tail(q), V) /\ Head(q) \notin V
           /\ \A n : OnlyAbout(q, V, n) => OnlyAbout(Tail(q), V, n)
           /\ \A n : OnlyAbout(q, V, n) /\ Head(q) \in V => NoneOf(Tail(q), V) /\ Head(q).n = n
<1>1. /\ \A i \in Places(Tail(q), V) : i \in Nat /\ i + 1 \in Places(q, V) /\ Tail(q)[i] = q[i + 1]
      /\ 1 \in Places(q, V) <=> Head(q) \in V
      /\ Head(q) = q[1]
  BY PlacesOfTail
<1>2. NoneOf(q, V) => NoneOf(Tail(q), V) /\ Head(q) \notin V
  BY <1>1 DEF NoneOf
<1>3. ASSUME NEW n, OnlyAbout(q, V, n)
      PROVE  OnlyAbout(Tail(q), V, n)
  <2>1. ASSUME NEW i \in Places(Tail(q), V), NEW j \in Places(Tail(q), V)
        PROVE  i = j /\ Tail(q)[i].n = n
    <3>1. i \in Nat /\ j \in Nat /\ i + 1 = j + 1 /\ q[i + 1].n = n /\ Tail(q)[i] = q[i + 1]
      BY <1>1, <1>3 DEF OnlyAbout
    <3>2. i = j
      BY <3>1
    <3> QED
      BY <3>1, <3>2
  <2> QED
    BY <2>1 DEF OnlyAbout
<1>4. ASSUME NEW n, OnlyAbout(q, V, n), Head(q) \in V
      PROVE  NoneOf(Tail(q), V) /\ Head(q).n = n
  <2>1. 1 \in Places(q, V) /\ q[1].n = n
    BY <1>1, <1>4 DEF OnlyAbout
  <2>2. ASSUME NEW i \in Places(Tail(q), V)
        PROVE  FALSE
    <3>1. i \in Nat /\ i + 1 = 1
      BY <1>1, <1>4, <2>1 DEF OnlyAbout
    <3>2. Tail(q) \in Seq(S)
      BY PlacesOfTail
    <3>3. Places(Tail(q), V) \in SUBSET (1 .. Len(Tail(q)))
      BY <3>2, PlacesAreFinite
    <3> QED
      BY <3>1, <3>3
  <2> QED
    BY <1>1, <2>1, <2>2 DEF NoneOf
<1> QED
  BY <1>2, <1>3, <1>4

LEMMA OrderOfAppend ==
    ASSUME NEW S, NEW q \in Seq(S), NEW m \in S, NEW D, NEW G, AllBefore(q, D, G),
           m \in D => m \notin G /\ NoneOf(q, G)
    PROVE  AllBefore(Append(q, m), D, G)
<1>1. /\ m \in D => Places(Append(q, m), D) = Places(q, D) \cup {Len(q) + 1}
      /\ m \notin D => Places(Append(q, m), D) = Places(q, D)
      /\ m \in G => Places(Append(q, m), G) = Places(q, G) \cup {Len(q) + 1}
      /\ m \notin G => Places(Append(q, m), G) = Places(q, G)
  BY PlacesOfAppend
<1>2. \A i \in Places(q, D) : i < Len(q) + 1
  BY PlacesAreFinite
<1> QED
  BY <1>1, <1>2 DEF AllBefore, NoneOf

LEMMA OrderOfTail ==
    ASSUME NEW S, NEW q \in Seq(S), q # <<>>, NEW D, NEW G, AllBefore(q, D, G)
    PROVE  /\ AllBefore(Tail(q), D, G)
           /\ Head(q) \in G => NoneOf(Tail(q), D)
<1>1. /\ \A i \in Places(Tail(q), D) : i \in Nat /\ i + 1 \in Places(q, D)
      /\ \A i \in Places(Tail(q), G) : i \in Nat /\ i + 1 \in Places(q, G)
      /\ 1 \in Places(q, G) <=> Head(q) \in G
  BY PlacesOfTail
<1>2. AllBefore(Tail(q), D, G)
  <2> SUFFICES ASSUME NEW i \in Places(Tail(q), D), NEW j \in Places(Tail(q), G)
               PROVE  i < j
    BY DEF AllBefore
  <2>1. i \in Nat /\ j \in Nat /\ i + 1 < j + 1
    BY <1>1 DEF AllBefore
  <2> QED
    BY <2>1
<1>3. ASSUME Head(q) \in G, NEW i \in Places(Tail(q), D)
      PROVE  FALSE
  <2>1. i \in Nat /\ i + 1 < 1
    BY <1>1, <1>3 DEF AllBefore
  <2> QED
    BY <2>1
<1> QED
  BY <1>2, <1>3 DEF NoneOf

LEMMA NoneCountsZero ==
    ASSUME NEW S, NEW q \in Seq(S), NEW V
    PROVE  NoneOf(q, V) <=> Count(q, V) = 0
BY PlacesAreFinite, FS_EmptySet DEF NoneOf, Count

LEMMA EmptyQueue ==
    ASSUME NEW V
    PROVE  NoneOf(<<>>, V) /\ Count(<<>>, V) = 0
BY FS_EmptySet DEF NoneOf, Count, Places

-----------------------------------------------------------------------------
(* The session's messages and operations.                                    *)

OfferMsgs == [type : {"offer"}, n : 1 .. MaxOps, tracks : SUBSET Numbered]
AnswerMsgs == [type : {"answer"}, n : 1 .. MaxOps]
EndedMsgs == [type : {"ended"}]
DataMsgs == [type : {"data"}]
GoodbyeMsgs == [type : {"goodbye"}]
Messages == OfferMsgs \cup AnswerMsgs \cup EndedMsgs \cup DataMsgs \cup GoodbyeMsgs

Items == {"data", "ended"}
DataItems == {"data"}

Ongoing == {NoOp} \cup [what : {"attach", "detach"}, n : 1 .. MaxOps]

LEMMA MessageKinds ==
    \A m \in Messages :
        /\ m \in OfferMsgs <=> m.type = "offer"
        /\ m \in AnswerMsgs <=> m.type = "answer"
        /\ m \in EndedMsgs <=> m.type = "ended"
        /\ m \in DataMsgs <=> m.type = "data"
        /\ m \in GoodbyeMsgs <=> m.type = "goodbye"
BY DEF Messages, OfferMsgs, AnswerMsgs, EndedMsgs, DataMsgs, GoodbyeMsgs

LEMMA Peers ==
    ASSUME NEW s \in Sides
    PROVE  /\ Peer(s) \in Sides /\ Peer(s) # s /\ Peer(Peer(s)) = s
           /\ \A r \in Sides : r = s \/ r = Peer(s)
BY DEF Sides, Peer

LEMMA Underway ==
    /\ NoOp \in Ongoing /\ Ongoing \subseteq Operations
    /\ \A o \in Ongoing : o # NoOp => o.what \in {"attach", "detach"} /\ o.n \in 1 .. MaxOps
    /\ \A o \in Ongoing : o.n \in 0 .. MaxOps
<1>1. MaxOps \in Nat
  BY SessionAssumption
<1> QED
  BY <1>1 DEF NoOp, Ongoing, Operations

LEMMA Numbers ==
    /\ MaxOps \in Nat /\ 0 \in 0 .. MaxOps
    /\ \A s \in Sides : Tracks[s] \subseteq Kinds /\ MaxData[s] \in Nat
    /\ None \notin Kinds
<1>1. MaxOps \in Nat /\ Tracks \in [Sides -> SUBSET Kinds] /\ MaxData \in [Sides -> Nat]
  BY SessionAssumption
<1> QED
  BY <1>1 DEF Kinds, None

-----------------------------------------------------------------------------
(* Types.                                                                    *)

OpTyped ==
    /\ op \in [Sides -> UNION {[Tracks[s] -> Ongoing] : s \in Sides}]
    /\ \A s \in Sides : op[s] \in [Tracks[s] -> Ongoing]

NegotiationTyped ==
    /\ negotiation \in [Sides -> Kinds \cup {None}]
    /\ \A s \in Sides : negotiation[s] # None => negotiation[s] \in Tracks[s]

Typed ==
    /\ ops \in 0 .. MaxOps
    /\ OpTyped
    /\ senders \in [Sides -> SUBSET Numbered]
    /\ recorded \in [Sides -> SUBSET Numbered]
    /\ sig \in [Sides -> {"stable", "offered"}]
    /\ NegotiationTyped
    /\ slot \in [Sides -> 0 .. MaxOps]
    /\ answer \in [Sides -> 0 .. MaxOps]
    /\ crossed \in BOOLEAN
    /\ channel \in [Sides -> Seq(Messages)]
    /\ inbound \in [Sides -> Seq(Items)]
    /\ closed \in [Sides -> BOOLEAN]
    /\ said \in [Sides -> Nat]
    /\ heard \in [Sides -> Nat]
    /\ lastWord \in [Sides -> Nat \cup {-1}]
    /\ left \in [Sides -> BOOLEAN]

LEMMA OpChanges ==
    ASSUME OpTyped, NEW s \in Sides, NEW k \in Tracks[s], NEW o \in Ongoing,
           op' = [op EXCEPT ![s][k] = o]
    PROVE  /\ OpTyped'
           /\ op'[s][k] = o
           /\ \A j \in Tracks[s] : j # k => op'[s][j] = op[s][j]
           /\ op'[Peer(s)] = op[Peer(s)]
<1>1. op'[s] = [op[s] EXCEPT ![k] = o] /\ \A r \in Sides : r # s => op'[r] = op[r]
  BY DEF OpTyped
<1>2. op[s] \in [Tracks[s] -> Ongoing]
  BY DEF OpTyped
<1>3. op'[s] \in [Tracks[s] -> Ongoing]
  BY <1>1, <1>2
<1>4. \A r \in Sides : op'[r] \in [Tracks[r] -> Ongoing]
  BY <1>1, <1>3 DEF OpTyped
<1>5. op' \in [Sides -> UNION {[Tracks[r] -> Ongoing] : r \in Sides}]
  <2>1. op' = [r \in Sides |-> op'[r]]
    BY DEF OpTyped
  <2>2. \A r \in Sides : op'[r] \in UNION {[Tracks[u] -> Ongoing] : u \in Sides}
    BY <1>4
  <2> QED
    BY <2>1, <2>2
<1> QED
  BY <1>1, <1>2, <1>4, <1>5, Peers DEF OpTyped

LEMMA MessageSent ==
    ASSUME channel \in [Sides -> Seq(Messages)], NEW s \in Sides, NEW m \in Messages,
           channel' = Sent(s, m)
    PROVE  /\ channel' \in [Sides -> Seq(Messages)]
           /\ channel'[s] = Append(channel[s], m)
           /\ channel'[Peer(s)] = channel[Peer(s)]
BY AppendProperties, Peers DEF Sent

LEMMA MessageTaken ==
    ASSUME channel \in [Sides -> Seq(Messages)], NEW s \in Sides, NEW type, Next1(s, type)
    PROVE  /\ channel[Peer(s)] \in Seq(Messages) /\ channel[Peer(s)] # <<>>
           /\ Head(channel[Peer(s)]) \in Messages /\ Head(channel[Peer(s)]).type = type
           /\ Taken(s) \in [Sides -> Seq(Messages)]
           /\ Taken(s)[Peer(s)] = Tail(channel[Peer(s)])
           /\ Taken(s)[s] = channel[s]
           /\ ~ closed[s]
<1>1. channel[Peer(s)] \in Seq(Messages) /\ channel[Peer(s)] # <<>>
  BY Peers DEF Next1
<1>2. Head(channel[Peer(s)]) \in Messages /\ Tail(channel[Peer(s)]) \in Seq(Messages)
  BY <1>1, HeadTailProperties
<1> QED
  BY <1>1, <1>2, Peers DEF Next1, Taken

LEMMA OfferAnswered ==
    ASSUME channel \in [Sides -> Seq(Messages)], NEW s \in Sides, Next1(s, "offer"),
           NEW m \in Messages, channel' = [Taken(s) EXCEPT ![s] = Append(@, m)]
    PROVE  /\ channel' \in [Sides -> Seq(Messages)]
           /\ channel'[s] = Append(channel[s], m)
           /\ channel'[Peer(s)] = Tail(channel[Peer(s)])
BY MessageTaken, AppendProperties, Peers

\* The answer to an offer is about it.
LEMMA AnswerOf ==
    ASSUME NEW m \in Messages, m.type = "offer"
    PROVE  [type |-> "answer", n |-> m.n] \in AnswerMsgs \cap Messages /\ m.n \in 1 .. MaxOps
BY MessageKinds DEF Messages, AnswerMsgs, OfferMsgs

LEMMA PlainMessages ==
    /\ [type |-> "ended"] \in EndedMsgs \cap Messages
    /\ [type |-> "data"] \in DataMsgs \cap Messages
    /\ [type |-> "goodbye"] \in GoodbyeMsgs \cap Messages
BY DEF Messages, EndedMsgs, DataMsgs, GoodbyeMsgs

LEMMA OpInHand ==
    ASSUME Typed, NEW s \in Sides, NEW k \in Tracks[s]
    PROVE  op[s][k] \in Ongoing /\ k \in Kinds
BY Numbers DEF Typed, OpTyped

LEMMA OfferMade ==
    ASSUME Typed, NEW s \in Sides, NEW k \in Tracks[s], op[s][k] # NoOp
    PROVE  [type |-> "offer", n |-> op[s][k].n, tracks |-> senders[s]] \in OfferMsgs \cap Messages
<1>1. op[s][k].n \in 1 .. MaxOps
  BY OpInHand, Underway
<1>2. senders[s] \in SUBSET Numbered
  BY DEF Typed
<1> QED
  BY <1>1, <1>2 DEF Messages, OfferMsgs

LEMMA NextOp ==
    ASSUME Typed, ops < MaxOps
    PROVE  /\ ops + 1 \in 1 .. MaxOps /\ ops + 1 \in 0 .. MaxOps
           /\ [what |-> "attach", n |-> ops + 1] \in Ongoing
           /\ [what |-> "detach", n |-> ops + 1] \in Ongoing
           /\ \A k \in Kinds : [kind |-> k, n |-> ops + 1] \in Numbered
<1>1. ops + 1 \in 1 .. MaxOps /\ ops + 1 \in 0 .. MaxOps
  BY Numbers DEF Typed
<1> QED
  BY <1>1 DEF Ongoing, Numbered

LEMMA InitTyped == Init => Typed
<1> SUFFICES ASSUME Init PROVE Typed
  OBVIOUS
<1>1. \A s \in Sides : op[s] \in [Tracks[s] -> Ongoing]
  BY Underway DEF Init
<1>2. OpTyped
  <2>1. op = [s \in Sides |-> op[s]]
    BY DEF Init
  <2>2. \A s \in Sides : op[s] \in UNION {[Tracks[u] -> Ongoing] : u \in Sides}
    BY <1>1
  <2> QED
    BY <1>1, <2>1, <2>2 DEF OpTyped
<1>3. NegotiationTyped
  BY DEF Init, NegotiationTyped
<1>4. channel \in [Sides -> Seq(Messages)] /\ inbound \in [Sides -> Seq(Items)]
  BY EmptySeq DEF Init
<1>5. senders \in [Sides -> SUBSET Numbered] /\ recorded \in [Sides -> SUBSET Numbered]
  BY DEF Init
<1>6. /\ ops \in 0 .. MaxOps /\ slot \in [Sides -> 0 .. MaxOps] /\ answer \in [Sides -> 0 .. MaxOps]
  BY Numbers DEF Init
<1>7. /\ sig \in [Sides -> {"stable", "offered"}] /\ crossed \in BOOLEAN
      /\ closed \in [Sides -> BOOLEAN] /\ left \in [Sides -> BOOLEAN]
      /\ said \in [Sides -> Nat] /\ heard \in [Sides -> Nat] /\ lastWord \in [Sides -> Nat \cup {-1}]
  BY DEF Init
<1> QED
  BY <1>2, <1>3, <1>4, <1>5, <1>6, <1>7 DEF Typed

LEMMA StepTyped == Typed /\ [Next]_vars => Typed'
<1> SUFFICES ASSUME Typed, [Next]_vars PROVE Typed'
  OBVIOUS
<1> USE DEF opVars, negotiationVars, controlVars, trackVars
<1>0. /\ ops \in 0 .. MaxOps /\ OpTyped /\ NegotiationTyped
      /\ senders \in [Sides -> SUBSET Numbered] /\ recorded \in [Sides -> SUBSET Numbered]
      /\ sig \in [Sides -> {"stable", "offered"}]
      /\ slot \in [Sides -> 0 .. MaxOps] /\ answer \in [Sides -> 0 .. MaxOps]
      /\ crossed \in BOOLEAN /\ channel \in [Sides -> Seq(Messages)]
      /\ inbound \in [Sides -> Seq(Items)] /\ closed \in [Sides -> BOOLEAN]
      /\ said \in [Sides -> Nat] /\ heard \in [Sides -> Nat]
      /\ lastWord \in [Sides -> Nat \cup {-1}] /\ left \in [Sides -> BOOLEAN]
  BY DEF Typed
<1>1. ASSUME NEW s \in Sides, NEW k \in Tracks[s], Attach(s, k)
      PROVE  Typed'
  <2>1. OpTyped'
    BY <1>0, <1>1, NextOp, OpChanges DEF Attach
  <2>2. senders' \in [Sides -> SUBSET Numbered]
    BY <1>0, <1>1, NextOp, OpInHand DEF Attach
  <2>3. ops' \in 0 .. MaxOps
    BY <1>1, NextOp DEF Attach
  <2> QED
    BY <1>0, <1>1, <2>1, <2>2, <2>3 DEF Attach, Typed, NegotiationTyped
<1>2. ASSUME NEW s \in Sides, NEW k \in Tracks[s], Detach(s, k)
      PROVE  Typed'
  <2>1. OpTyped'
    BY <1>0, <1>2, NextOp, OpChanges DEF Detach
  <2>2. senders' \in [Sides -> SUBSET Numbered] /\ recorded' \in [Sides -> SUBSET Numbered]
    BY <1>0, <1>2 DEF Detach
  <2>3. ops' \in 0 .. MaxOps
    BY <1>2, NextOp DEF Detach
  <2> QED
    BY <1>0, <1>2, <2>1, <2>2, <2>3 DEF Detach, Typed, NegotiationTyped
<1>3. ASSUME NEW s \in Sides, NEW k \in Tracks[s], Offer(s, k)
      PROVE  Typed'
  <2>1. channel' \in [Sides -> Seq(Messages)]
    BY <1>0, <1>3, OfferMade, MessageSent DEF Offer
  <2>2. NegotiationTyped'
    BY <1>0, <1>3, OpInHand DEF Offer, NegotiationTyped
  <2>3. op[s][k].n \in 0 .. MaxOps
    BY OpInHand, Underway
  <2>4. slot' \in [Sides -> 0 .. MaxOps] /\ sig' \in [Sides -> {"stable", "offered"}]
    BY <1>0, <1>3, <2>3 DEF Offer
  <2> QED
    BY <1>0, <1>3, <2>1, <2>2, <2>4 DEF Offer, Typed, OpTyped
<1>4. ASSUME NEW s \in Sides, NEW k \in Tracks[s], OfferFails(s, k)
      PROVE  Typed'
  <2>1. OpTyped'
    BY <1>0, <1>4, Underway, OpChanges DEF OfferFails
  <2>2. op[s][k].n \in 0 .. MaxOps
    BY OpInHand, Underway
  <2>3. slot' \in [Sides -> 0 .. MaxOps]
    BY <1>0, <1>4, <2>2 DEF OfferFails
  <2> QED
    BY <1>0, <1>4, <2>1, <2>3 DEF OfferFails, Typed, NegotiationTyped
<1>5. ASSUME NEW s \in Sides, GiveUp(s)
      PROVE  Typed'
  <2>1. negotiation[s] \in Tracks[s]
    BY <1>0, <1>5 DEF GiveUp, NegotiationTyped
  <2>2. OpTyped'
    BY <1>0, <1>5, <2>1, Underway, OpChanges DEF GiveUp
  <2>3. NegotiationTyped'
    BY <1>0, <1>5 DEF GiveUp, NegotiationTyped
  <2> QED
    BY <1>0, <1>5, <2>2, <2>3 DEF GiveUp, Typed
<1>6. ASSUME NEW s \in Sides, Apply(s)
      PROVE  Typed'
  <2> DEFINE k == negotiation[s]
             o == op[s][k]
  <2>1. k \in Tracks[s] /\ k \in Kinds /\ o \in Ongoing
    BY <1>0, <1>6, OpInHand DEF Apply, NegotiationTyped
  <2>2. OpTyped'
    BY <1>0, <1>6, <2>1, Underway, OpChanges DEF Apply
  <2>3. NegotiationTyped'
    BY <1>0, <1>6 DEF Apply, NegotiationTyped
  <2>4. recorded' \in [Sides -> SUBSET Numbered]
    <3>1. CASE o.what = "attach"
      <4>1. o.n \in 1 .. MaxOps
        BY <2>1, <3>1, Underway DEF NoOp
      <4>2. [kind |-> k, n |-> o.n] \in Numbered
        BY <2>1, <4>1 DEF Numbered
      <4>3. recorded' = [recorded EXCEPT ![s] = @ \cup {[kind |-> k, n |-> o.n]}]
        BY <1>6, <3>1 DEF Apply
      <4> QED
        BY <1>0, <4>2, <4>3
    <3>2. CASE o.what # "attach"
      BY <1>0, <1>6, <3>2 DEF Apply
    <3> QED
      BY <3>1, <3>2
  <2>5. channel' \in [Sides -> Seq(Messages)]
    <3>1. CASE channel' = Sent(s, [type |-> "ended"])
      BY <1>0, <3>1, PlainMessages, MessageSent
    <3>2. CASE channel' = channel
      BY <1>0, <3>2
    <3> QED
      BY <1>6, <3>1, <3>2 DEF Apply
  <2>6. /\ sig' \in [Sides -> {"stable", "offered"}] /\ answer' \in [Sides -> 0 .. MaxOps]
        /\ crossed' \in BOOLEAN
    BY <1>0, <1>6, Numbers DEF Apply
  <2> QED
    BY <1>0, <1>6, <2>2, <2>3, <2>4, <2>5, <2>6 DEF Apply, Typed
<1>7. ASSUME NEW s \in Sides, TakeOffer(s)
      PROVE  Typed'
  <2>1. Next1(s, "offer")
    BY <1>7 DEF TakeOffer
  <2>2. channel' \in [Sides -> Seq(Messages)]
    <3>1. CASE channel' = Taken(s)
      BY <1>0, <2>1, <3>1, MessageTaken
    <3>2. CASE channel' = [Taken(s) EXCEPT ![s] = Append(@, [type |-> "answer", n |-> Head(channel[Peer(s)]).n])]
      <4>1. PICK m \in Messages : m = [type |-> "answer", n |-> Head(channel[Peer(s)]).n]
        <5>1. PICK w : w = Head(channel[Peer(s)])
          OBVIOUS
        <5>2. w \in Messages /\ w.type = "offer"
          BY <1>0, <2>1, <5>1, MessageTaken
        <5> QED
          BY <5>1, <5>2, AnswerOf
      <4>2. channel' = [Taken(s) EXCEPT ![s] = Append(@, m)]
        BY <3>2, <4>1
      <4> QED
        BY <1>0, <2>1, <4>2, OfferAnswered
    <3> QED
      BY <1>7, <3>1, <3>2 DEF TakeOffer
  <2> QED
    BY <1>0, <1>7, <2>2 DEF TakeOffer, Typed, OpTyped, NegotiationTyped
<1>8. ASSUME NEW s \in Sides, TakeAnswer(s)
      PROVE  Typed'
  <2>1. Next1(s, "answer")
    BY <1>8 DEF TakeAnswer
  <2>2. /\ channel' \in [Sides -> Seq(Messages)]
        /\ Head(channel[Peer(s)]).n \in 0 .. MaxOps
    <3>1. Head(channel[Peer(s)]) \in AnswerMsgs
      BY <1>0, <2>1, MessageTaken, MessageKinds
    <3>2. Head(channel[Peer(s)]).n \in 1 .. MaxOps
      BY <3>1 DEF AnswerMsgs
    <3>3. channel' \in [Sides -> Seq(Messages)]
      BY <1>0, <1>8, <2>1, MessageTaken DEF TakeAnswer
    <3> QED
      BY <3>2, <3>3, Numbers
  <2>3. slot' \in [Sides -> 0 .. MaxOps] /\ answer' \in [Sides -> 0 .. MaxOps]
    BY <1>0, <1>8, <2>2, Numbers DEF TakeAnswer
  <2> QED
    BY <1>0, <1>8, <2>2, <2>3 DEF TakeAnswer, Typed, OpTyped, NegotiationTyped
<1>9. ASSUME NEW s \in Sides, TakeEnded(s) \/ TakeData(s) \/ TakeGoodbye(s)
      PROVE  Typed'
  <2>1. channel' = Taken(s) /\ \E type : Next1(s, type)
    BY <1>9 DEF TakeEnded, TakeData, TakeGoodbye
  <2>2. channel' \in [Sides -> Seq(Messages)]
    BY <1>0, <2>1, MessageTaken
  <2>3. inbound' \in [Sides -> Seq(Items)] /\ closed' \in [Sides -> BOOLEAN]
    <3>1. CASE TakeEnded(s)
      BY <1>0, <3>1, AppendProperties DEF TakeEnded, Items
    <3>2. CASE TakeData(s)
      BY <1>0, <3>2, AppendProperties DEF TakeData, Items
    <3>3. CASE TakeGoodbye(s)
      BY <1>0, <3>3 DEF TakeGoodbye
    <3> QED
      BY <1>9, <3>1, <3>2, <3>3
  <2>4. UNCHANGED <<opVars, negotiationVars, said, heard, lastWord, left>>
    BY <1>9 DEF TakeEnded, TakeData, TakeGoodbye
  <2> QED
    BY <1>0, <2>2, <2>3, <2>4 DEF Typed, OpTyped, NegotiationTyped
<1>10. ASSUME NEW s \in Sides, Say(s)
       PROVE  Typed'
  <2>1. channel' \in [Sides -> Seq(Messages)]
    BY <1>0, <1>10, PlainMessages, MessageSent DEF Say
  <2>2. said' \in [Sides -> Nat]
    BY <1>0, <1>10 DEF Say
  <2> QED
    BY <1>0, <1>10, <2>1, <2>2 DEF Say, Typed, OpTyped, NegotiationTyped
<1>11. ASSUME NEW s \in Sides, Hear(s)
       PROVE  Typed'
  <2>1. Tail(inbound[s]) \in Seq(Items)
    BY <1>0, <1>11, HeadTailProperties DEF Hear
  <2>2. inbound' \in [Sides -> Seq(Items)]
    BY <1>0, <1>11, <2>1 DEF Hear
  <2>3. heard' \in [Sides -> Nat]
    BY <1>0, <1>11 DEF Hear
  <2> QED
    BY <1>0, <1>11, <2>2, <2>3 DEF Hear, Typed, OpTyped, NegotiationTyped
<1>12. ASSUME NEW s \in Sides, Leave(s)
       PROVE  Typed'
  <2>1. left' \in [Sides -> BOOLEAN]
    BY <1>0, <1>12 DEF Leave
  <2> QED
    BY <1>0, <1>12, <2>1 DEF Leave, Typed, OpTyped, NegotiationTyped
<1>13. ASSUME NEW s \in Sides, Close(s)
       PROVE  Typed'
  <2>1. channel' \in [Sides -> Seq(Messages)]
    BY <1>0, <1>13, PlainMessages, MessageSent DEF Close
  <2>2. closed' \in [Sides -> BOOLEAN] /\ lastWord' \in [Sides -> Nat \cup {-1}]
    BY <1>0, <1>13 DEF Close
  <2> QED
    BY <1>0, <1>13, <2>1, <2>2 DEF Close, Typed, OpTyped, NegotiationTyped
<1>14. CASE NextRemoteTrack \/ UNCHANGED vars
  BY <1>0, <1>14 DEF NextRemoteTrack, vars, Typed, OpTyped, NegotiationTyped
<1> QED
  BY <1>1, <1>2, <1>3, <1>4, <1>5, <1>6, <1>7, <1>8, <1>9, <1>10, <1>11, <1>12, <1>13, <1>14
     DEF Next, Side

-----------------------------------------------------------------------------
(* What the connection sends is recorded, being attached or given up.        *)

LEMMA StepSenders == Typed /\ SendersAreKnown /\ [Next]_vars => SendersAreKnown'
<1> SUFFICES ASSUME Typed, SendersAreKnown, [Next]_vars,
                    NEW r \in Sides, NEW t \in senders'[r]
             PROVE  \/ closed'[r] \/ t \in recorded'[r] \/ t.n \in gaveUp'
                    \/ op'[r][t.kind] = [what |-> "attach", n |-> t.n]
  BY DEF SendersAreKnown
<1> USE DEF opVars, negotiationVars, controlVars, trackVars
<1>0. /\ OpTyped /\ NegotiationTyped
      /\ senders \in [Sides -> SUBSET Numbered] /\ recorded \in [Sides -> SUBSET Numbered]
      /\ closed \in [Sides -> BOOLEAN]
  BY DEF Typed
<1>1. ASSUME t \in senders[r]
      PROVE  /\ t \in Numbered /\ t = [kind |-> t.kind, n |-> t.n]
             /\ \/ closed[r] \/ t \in recorded[r] \/ t.n \in gaveUp
                \/ op[r][t.kind] = [what |-> "attach", n |-> t.n]
  <2>1. t \in Numbered
    BY <1>0, <1>1
  <2>2. t = [kind |-> t.kind, n |-> t.n]
    BY <2>1 DEF Numbered
  <2> QED
    BY <1>1, <2>1, <2>2 DEF SendersAreKnown
<1>2. NoOp.what # "attach"
  BY DEF NoOp
<1>3. ASSUME NEW s \in Sides, NEW k \in Tracks[s], Attach(s, k)
      PROVE  \/ closed'[r] \/ t \in recorded'[r] \/ t.n \in gaveUp'
             \/ op'[r][t.kind] = [what |-> "attach", n |-> t.n]
  <2>1. /\ op[s][k] = NoOp /\ op' = [op EXCEPT ![s][k] = [what |-> "attach", n |-> ops + 1]]
        /\ [what |-> "attach", n |-> ops + 1] \in Ongoing
        /\ senders' = [senders EXCEPT ![s] = @ \cup {[kind |-> k, n |-> ops + 1]}]
    BY <1>3, NextOp DEF Attach
  <2>2. /\ op'[s][k] = [what |-> "attach", n |-> ops + 1]
        /\ \A j \in Tracks[s] : j # k => op'[s][j] = op[s][j]
        /\ op'[Peer(s)] = op[Peer(s)]
    <3>1. ASSUME NEW o \in Ongoing, op' = [op EXCEPT ![s][k] = o]
          PROVE  /\ op'[s][k] = o
                 /\ \A j \in Tracks[s] : j # k => op'[s][j] = op[s][j]
                 /\ op'[Peer(s)] = op[Peer(s)]
      <4>1. DOMAIN op = Sides /\ op[s] \in [Tracks[s] -> Ongoing]
        BY <1>0 DEF OpTyped
      <4>2. op'[s] = [op[s] EXCEPT ![k] = o] /\ op'[Peer(s)] = op[Peer(s)]
        BY <3>1, <4>1, Peers
      <4> QED
        BY <4>1, <4>2
    <3> QED
      BY <2>1, <3>1
  <2>3. CASE r = s /\ t = [kind |-> k, n |-> ops + 1]
    BY <2>2, <2>3
  <2>4. CASE ~ (r = s /\ t = [kind |-> k, n |-> ops + 1])
    <3>1. t \in senders[r]
      BY <1>0, <2>1, <2>4
    <3>2. \/ closed[r] \/ t \in recorded[r] \/ t.n \in gaveUp
          \/ op[r][t.kind] = [what |-> "attach", n |-> t.n]
      BY <1>1, <3>1
    <3>3. op[r][t.kind] = [what |-> "attach", n |-> t.n] => op'[r][t.kind] = op[r][t.kind]
      <4>1. op' = [op EXCEPT ![s] = [op[s] EXCEPT ![k] = [what |-> "attach", n |-> ops + 1]]]
        BY <2>1
      <4>2. op[s] = [j \in Tracks[s] |-> op[s][j]]
        BY <1>0 DEF OpTyped
      <4>3. r = s /\ t.kind = k => op[r][t.kind] # [what |-> "attach", n |-> t.n]
        BY <1>2, <2>1
      <4>4. CASE r # s
        BY <2>2, <4>4, Peers
      <4>5. CASE r = s /\ t.kind # k
        BY <1>0, <4>1, <4>2, <4>5 DEF OpTyped
      <4> QED
        BY <4>3, <4>4, <4>5
    <3> QED
      BY <1>3, <3>2, <3>3 DEF Attach
  <2> QED
    BY <2>3, <2>4
<1>4. ASSUME NEW s \in Sides, NEW k \in Tracks[s], Detach(s, k)
      PROVE  \/ closed'[r] \/ t \in recorded'[r] \/ t.n \in gaveUp'
             \/ op'[r][t.kind] = [what |-> "attach", n |-> t.n]
  <2>1. /\ op[s][k] = NoOp /\ op' = [op EXCEPT ![s][k] = [what |-> "detach", n |-> ops + 1]]
        /\ [what |-> "detach", n |-> ops + 1] \in Ongoing
        /\ senders' = [senders EXCEPT ![s] = @ \ Of(recorded[s], k)]
        /\ recorded' = [recorded EXCEPT ![s] = @ \ Of(@, k)]
    BY <1>4, NextOp DEF Detach
  <2>2. t \in senders[r] /\ (t \in recorded[r] => t \in recorded'[r])
    BY <1>0, <2>1
  <2>3. \/ closed[r] \/ t \in recorded[r] \/ t.n \in gaveUp
        \/ op[r][t.kind] = [what |-> "attach", n |-> t.n]
    BY <1>1, <2>2
  <2>4. op[r][t.kind] = [what |-> "attach", n |-> t.n] => op'[r][t.kind] = op[r][t.kind]
    <3>1. op' = [op EXCEPT ![s] = [op[s] EXCEPT ![k] = [what |-> "detach", n |-> ops + 1]]]
      BY <2>1
    <3>2. op[s] = [j \in Tracks[s] |-> op[s][j]]
      BY <1>0 DEF OpTyped
    <3>3. r = s /\ t.kind = k => op[r][t.kind] # [what |-> "attach", n |-> t.n]
      BY <1>2, <2>1
    <3>4. CASE r # s
      BY <1>0, <3>1, <3>4 DEF OpTyped
    <3>5. CASE r = s /\ t.kind # k
      BY <1>0, <3>1, <3>2, <3>5 DEF OpTyped
    <3> QED
      BY <3>3, <3>4, <3>5
  <2> QED
    BY <1>4, <2>2, <2>3, <2>4 DEF Detach
<1>5. ASSUME NEW s \in Sides, NEW k \in Tracks[s], OfferFails(s, k)
      PROVE  \/ closed'[r] \/ t \in recorded'[r] \/ t.n \in gaveUp'
             \/ op'[r][t.kind] = [what |-> "attach", n |-> t.n]
  <2>1. op' = [op EXCEPT ![s][k] = NoOp] /\ closed[s]
        /\ UNCHANGED <<senders, recorded, gaveUp, closed>>
    BY <1>5 DEF OfferFails
  <2>2. r # s => op'[r] = op[r]
    BY <1>0, <2>1, Underway, OpChanges, Peers
  <2> QED
    BY <1>1, <2>1, <2>2
<1>6. ASSUME NEW s \in Sides, GiveUp(s)
      PROVE  \/ closed'[r] \/ t \in recorded'[r] \/ t.n \in gaveUp'
             \/ op'[r][t.kind] = [what |-> "attach", n |-> t.n]
  <2> DEFINE k == negotiation[s]
  <2>1. /\ op' = [op EXCEPT ![s][k] = NoOp] /\ k \in Tracks[s]
        /\ gaveUp' = gaveUp \cup {op[s][k].n}
        /\ UNCHANGED <<senders, recorded, closed>>
    BY <1>0, <1>6 DEF GiveUp, NegotiationTyped
  <2>2. /\ r # s => op'[r] = op[r]
        /\ \A j \in Tracks[s] : j # k => op'[s][j] = op[s][j]
    BY <1>0, <2>1, Underway, OpChanges, Peers
  <2>3. op[r][t.kind] = [what |-> "attach", n |-> t.n]
          => op'[r][t.kind] = op[r][t.kind] \/ t.n \in gaveUp'
    <3>1. op' = [op EXCEPT ![s] = [op[s] EXCEPT ![k] = NoOp]] /\ op[s] = [j \in Tracks[s] |-> op[s][j]]
      BY <1>0, <2>1 DEF OpTyped
    <3>2. CASE r = s /\ t.kind = k
      BY <2>1, <3>2
    <3>3. CASE r = s /\ t.kind # k
      BY <1>0, <3>1, <3>3 DEF OpTyped
    <3> QED
      BY <2>2, <3>2, <3>3
  <2> QED
    BY <1>1, <2>1, <2>3
<1>7. ASSUME NEW s \in Sides, Apply(s)
      PROVE  \/ closed'[r] \/ t \in recorded'[r] \/ t.n \in gaveUp'
             \/ op'[r][t.kind] = [what |-> "attach", n |-> t.n]
  <2> DEFINE k == negotiation[s]
             o == op[s][k]
  <2>1. /\ op' = [op EXCEPT ![s][k] = NoOp] /\ k \in Tracks[s]
        /\ UNCHANGED <<senders, gaveUp, closed>>
        /\ recorded' = IF o.what = "attach"
                         THEN [recorded EXCEPT ![s] = @ \cup {[kind |-> k, n |-> o.n]}]
                         ELSE recorded
    BY <1>0, <1>7 DEF Apply, NegotiationTyped
  <2>2. r # s => op'[r] = op[r]
    BY <1>0, <2>1, Underway, OpChanges, Peers
  <2>3. t \in senders[r] /\ t = [kind |-> t.kind, n |-> t.n] /\ (t \in recorded[r] => t \in recorded'[r])
    BY <1>0, <1>1, <2>1
  <2>4. op[r][t.kind] = [what |-> "attach", n |-> t.n]
          => op'[r][t.kind] = op[r][t.kind] \/ t \in recorded'[r]
    <3>1. op' = [op EXCEPT ![s] = [op[s] EXCEPT ![k] = NoOp]] /\ op[s] = [j \in Tracks[s] |-> op[s][j]]
      BY <1>0, <2>1 DEF OpTyped
    <3>2. CASE r = s /\ t.kind = k
      BY <1>0, <2>1, <2>3, <3>2
    <3>3. CASE r = s /\ t.kind # k
      BY <1>0, <3>1, <3>3 DEF OpTyped
    <3> QED
      BY <2>2, <3>2, <3>3
  <2> QED
    BY <1>1, <2>1, <2>3, <2>4
<1>8. ASSUME UNCHANGED <<op, senders, recorded, gaveUp>>, \A s \in Sides : closed[s] => closed'[s]
      PROVE  \/ closed'[r] \/ t \in recorded'[r] \/ t.n \in gaveUp'
             \/ op'[r][t.kind] = [what |-> "attach", n |-> t.n]
  BY <1>1, <1>8
<1>9. ASSUME NEW s \in Sides, NEW k \in Tracks[s], Offer(s, k)
      PROVE  UNCHANGED <<op, senders, recorded, gaveUp, closed>>
  BY <1>9 DEF Offer
<1>10. ASSUME NEW s \in Sides, TakeGoodbye(s) \/ Close(s)
       PROVE  UNCHANGED <<op, senders, recorded, gaveUp>> /\ \A u \in Sides : closed[u] => closed'[u]
  BY <1>0, <1>10 DEF TakeGoodbye, Close
<1>11. ASSUME NEW s \in Sides,
              TakeOffer(s) \/ TakeAnswer(s) \/ TakeEnded(s) \/ TakeData(s) \/ Say(s) \/ Hear(s) \/ Leave(s)
       PROVE  UNCHANGED <<op, senders, recorded, gaveUp, closed>>
  BY <1>11 DEF TakeOffer, TakeAnswer, TakeEnded, TakeData, Say, Hear, Leave
<1>12. CASE NextRemoteTrack \/ UNCHANGED vars
  BY <1>8, <1>12 DEF NextRemoteTrack, vars
<1> QED
  BY <1>3, <1>4, <1>5, <1>6, <1>7, <1>8, <1>9, <1>10, <1>11, <1>12 DEF Next, Side

-----------------------------------------------------------------------------
(* Renegotiations in turn: while none was given up, the offers a side has on *)
(* the way and the answers to it are of the one that holds its lock, one at  *)
(* a time.                                                                   *)

InTurn(s, n) ==
    /\ OnlyAbout(channel[s], OfferMsgs, n)
    /\ OnlyAbout(channel[Peer(s)], AnswerMsgs, n)
    /\ NoneOf(channel[s], OfferMsgs) \/ NoneOf(channel[Peer(s)], AnswerMsgs)
    /\ answer[s] \in {0, n}
    /\ answer[s] # 0 => NoneOf(channel[s], OfferMsgs) /\ NoneOf(channel[Peer(s)], AnswerMsgs)

OneRound(s) ==
    \/ /\ negotiation[s] = None
       /\ NoneOf(channel[s], OfferMsgs)
       /\ NoneOf(channel[Peer(s)], AnswerMsgs)
       /\ answer[s] = 0
    \/ /\ negotiation[s] # None
       /\ op[s][negotiation[s]] # NoOp
       /\ InTurn(s, op[s][negotiation[s]].n)

Rounds ==
    /\ AnswersMatch
    /\ gaveUp = {} => \A s \in Sides : OneRound(s)

\* A queue has no member of a set that it had not, and keeps their order.
NoMore(q, r, V) ==
    /\ NoneOf(q, V) => NoneOf(r, V)
    /\ \A n : OnlyAbout(q, V, n) => OnlyAbout(r, V, n)

LEMMA NoMoreSteps ==
    ASSUME NEW q \in Seq(Messages), NEW V
    PROVE  /\ NoMore(q, q, V)
           /\ \A m \in Messages : m \notin V => NoMore(q, Append(q, m), V)
           /\ q # <<>> => NoMore(q, Tail(q), V)
<1>1. NoMore(q, q, V)
  BY DEF NoMore
<1>2. ASSUME NEW m \in Messages, m \notin V
      PROVE  NoMore(q, Append(q, m), V)
  BY <1>2, OneOfAppend DEF NoMore
<1>3. ASSUME q # <<>>
      PROVE  NoMore(q, Tail(q), V)
  BY <1>3, OneOfTail DEF NoMore
<1> QED
  BY <1>1, <1>2, <1>3

\* A step that leaves a side's operation alone and sends nothing of it.
LEMMA RoundIsKept ==
    ASSUME NEW s \in Sides, OneRound(s), negotiation'[s] = negotiation[s],
           answer'[s] = answer[s],
           negotiation[s] # None /\ op[s][negotiation[s]] # NoOp
             => op'[s][negotiation[s]] = op[s][negotiation[s]],
           NoMore(channel[s], channel'[s], OfferMsgs),
           NoMore(channel[Peer(s)], channel'[Peer(s)], AnswerMsgs)
    PROVE  OneRound(s)'
BY DEF OneRound, InTurn, NoMore

LEMMA NoMessagesNoRounds ==
    ASSUME Init PROVE Rounds
BY EmptyQueue, Peers DEF Init, Rounds, AnswersMatch, OneRound

LEMMA StepRounds == Typed /\ Rounds /\ [Next]_vars => Rounds'
<1> SUFFICES ASSUME Typed, Rounds, [Next]_vars PROVE Rounds'
  OBVIOUS
<1> USE DEF opVars, negotiationVars, controlVars, trackVars
<1>0. /\ OpTyped /\ NegotiationTyped
      /\ answer \in [Sides -> 0 .. MaxOps] /\ channel \in [Sides -> Seq(Messages)]
      /\ closed \in [Sides -> BOOLEAN]
  BY DEF Typed
<1>q. ASSUME NEW s \in Sides
      PROVE  channel[s] \in Seq(Messages) /\ channel[Peer(s)] \in Seq(Messages)
  BY <1>0, Peers
\* Only GiveUp adds to gaveUp, and only Apply can cross.
<1>g. ASSUME gaveUp' = gaveUp, crossed' = crossed,
             gaveUp = {} => \A s \in Sides : OneRound(s)'
      PROVE  Rounds'
  BY <1>g DEF Rounds, AnswersMatch
<1>h. ASSUME gaveUp = {}, NEW s \in Sides
      PROVE  OneRound(s)
  BY <1>h DEF Rounds
<1>1. ASSUME NEW s \in Sides, NEW k \in Tracks[s], Attach(s, k) \/ Detach(s, k)
      PROVE  Rounds'
  <2>1. /\ op[s][k] = NoOp
        /\ UNCHANGED <<negotiation, answer, channel, gaveUp, crossed>>
    BY <1>1 DEF Attach, Detach
  <2>2. \E o \in Ongoing : op' = [op EXCEPT ![s][k] = o]
    BY <1>1, NextOp DEF Attach, Detach
  <2>3. ASSUME NEW u \in Sides, OneRound(u)
        PROVE  OneRound(u)'
    <3>1. /\ \A j \in Tracks[s] : j # k => op'[s][j] = op[s][j]
          /\ op'[Peer(s)] = op[Peer(s)]
      <4>1. PICK o \in Ongoing : op' = [op EXCEPT ![s][k] = o]
        BY <2>2
      <4> QED
        BY <1>0, <4>1, OpChanges
    <3>2. negotiation[u] # None /\ op[u][negotiation[u]] # NoOp
            => op'[u][negotiation[u]] = op[u][negotiation[u]]
      <4>1. CASE u = s
        <5>1. negotiation[s] # None /\ op[s][negotiation[s]] # NoOp
                => negotiation[s] \in Tracks[s] /\ negotiation[s] # k
          BY <1>0, <2>1 DEF NegotiationTyped
        <5> QED
          BY <3>1, <4>1, <5>1
      <4>2. CASE u = Peer(s)
        BY <3>1, <4>2
      <4> QED
        BY <4>1, <4>2, Peers
    <3> QED
      BY <1>q, <2>1, <2>3, <3>2, RoundIsKept, NoMoreSteps
  <2> QED
    BY <1>g, <1>h, <2>1, <2>3
<1>2. ASSUME NEW s \in Sides, NEW k \in Tracks[s], Offer(s, k)
      PROVE  Rounds'
  <2> DEFINE m == [type |-> "offer", n |-> op[s][k].n, tracks |-> senders[s]]
  <2>1. /\ op[s][k] # NoOp /\ negotiation[s] = None /\ k # None
        /\ negotiation'[s] = k /\ negotiation'[Peer(s)] = negotiation[Peer(s)]
        /\ channel' = Sent(s, m)
        /\ UNCHANGED <<op, answer, gaveUp, crossed>>
    BY <1>0, <1>2, OpInHand, Numbers, Peers DEF Offer, NegotiationTyped
  <2>2. m \in OfferMsgs /\ m \in Messages /\ m \notin AnswerMsgs /\ m.n = op[s][k].n
    BY <2>1, OfferMade, MessageKinds
  <2>3. channel'[s] = Append(channel[s], m) /\ channel'[Peer(s)] = channel[Peer(s)]
    BY <1>0, <2>1, <2>2, MessageSent
  <2>4. ASSUME OneRound(s)
        PROVE  OneRound(s)'
    <3>1. NoneOf(channel[s], OfferMsgs) /\ NoneOf(channel[Peer(s)], AnswerMsgs) /\ answer[s] = 0
      BY <2>1, <2>4 DEF OneRound
    <3>2. OnlyAbout(channel'[s], OfferMsgs, op[s][k].n)
      BY <1>q, <2>2, <2>3, <3>1, OneOfAppend
    <3>3. OnlyAbout(channel'[Peer(s)], AnswerMsgs, op[s][k].n) /\ NoneOf(channel'[Peer(s)], AnswerMsgs)
      BY <2>3, <3>1 DEF OnlyAbout, NoneOf
    <3> QED
      BY <2>1, <3>1, <3>2, <3>3 DEF OneRound, InTurn
  <2>5. ASSUME OneRound(Peer(s))
        PROVE  OneRound(Peer(s))'
    <3>1. NoMore(channel[Peer(s)], channel'[Peer(s)], OfferMsgs) /\ NoMore(channel[s], channel'[s], AnswerMsgs)
      BY <1>q, <2>2, <2>3, NoMoreSteps
    <3> QED
      BY <2>1, <2>5, <3>1, RoundIsKept, Peers
  <2> QED
    BY <1>g, <1>h, <2>1, <2>4, <2>5, Peers
<1>3. ASSUME NEW s \in Sides, NEW k \in Tracks[s], OfferFails(s, k)
      PROVE  Rounds'
  <2>1. /\ op' = [op EXCEPT ![s][k] = NoOp] /\ negotiation[s] = None
        /\ UNCHANGED <<negotiation, answer, channel, gaveUp, crossed>>
    BY <1>3 DEF OfferFails
  <2>2. op'[Peer(s)] = op[Peer(s)]
    BY <1>0, <2>1, Underway, OpChanges
  <2>3. ASSUME NEW u \in Sides, OneRound(u)
        PROVE  OneRound(u)'
    BY <1>q, <2>1, <2>2, <2>3, RoundIsKept, NoMoreSteps, Peers
  <2> QED
    BY <1>g, <1>h, <2>1, <2>3
<1>4. ASSUME NEW s \in Sides, GiveUp(s)
      PROVE  Rounds'
  BY <1>4 DEF GiveUp, Rounds, AnswersMatch
<1>5. ASSUME NEW s \in Sides, Apply(s)
      PROVE  Rounds'
  <2> DEFINE k == negotiation[s]
             m == [type |-> "ended"]
  <2>1. /\ k \in Tracks[s] /\ k # None /\ answer[s] # 0 /\ op' = [op EXCEPT ![s][k] = NoOp]
        /\ negotiation'[s] = None /\ negotiation'[Peer(s)] = negotiation[Peer(s)]
        /\ answer'[s] = 0 /\ answer'[Peer(s)] = answer[Peer(s)]
        /\ crossed' = (crossed \/ answer[s] # op[s][k].n) /\ gaveUp' = gaveUp
    BY <1>0, <1>5, Peers DEF Apply, NegotiationTyped
  <2>2. op'[Peer(s)] = op[Peer(s)]
    BY <1>0, <2>1, Underway, OpChanges
  <2>3. ASSUME NEW V, V \in {OfferMsgs, AnswerMsgs}, NEW u \in Sides
        PROVE  NoMore(channel[u], channel'[u], V)
    <3>1. CASE channel' = channel
      BY <1>q, <3>1, NoMoreSteps
    <3>2. CASE channel' = Sent(s, m)
      <4>1. channel'[s] = Append(channel[s], m) /\ channel'[Peer(s)] = channel[Peer(s)]
        BY <1>0, <3>2, PlainMessages, MessageSent
      <4>2. m \in Messages /\ m \notin V
        BY <2>3, PlainMessages, MessageKinds
      <4>3. NoMore(channel[s], Append(channel[s], m), V)
        BY <1>q, <4>2, NoMoreSteps
      <4>4. NoMore(channel[Peer(s)], channel[Peer(s)], V)
        BY <1>q, NoMoreSteps
      <4> QED
        BY <4>1, <4>3, <4>4, Peers
    <3> QED
      BY <1>5, <3>1, <3>2 DEF Apply
  <2>4. ASSUME gaveUp = {}
        PROVE  ~ crossed' /\ OneRound(s)' /\ OneRound(Peer(s))'
    <3>1. OneRound(s) /\ OneRound(Peer(s)) /\ ~ crossed
      BY <1>h, <2>4, Peers DEF Rounds, AnswersMatch
    <3>2. /\ answer[s] = op[s][k].n
          /\ NoneOf(channel[s], OfferMsgs) /\ NoneOf(channel[Peer(s)], AnswerMsgs)
      BY <2>1, <3>1 DEF OneRound, InTurn
    <3>3. OneRound(s)'
      BY <2>1, <2>3, <3>2, Peers DEF OneRound, NoMore
    <3>4. OneRound(Peer(s))'
      BY <2>1, <2>2, <2>3, <3>1, RoundIsKept, Peers
    <3> QED
      BY <2>1, <3>1, <3>2, <3>3, <3>4
  <2> QED
    BY <2>1, <2>4, Peers DEF Rounds, AnswersMatch
<1>6. ASSUME NEW s \in Sides, TakeOffer(s)
      PROVE  Rounds'
  <2> DEFINE offer == Head(channel[Peer(s)])
             m == [type |-> "answer", n |-> offer.n]
  <2>1. /\ Next1(s, "offer") /\ UNCHANGED <<op, negotiation, answer, gaveUp, crossed>>
    BY <1>6 DEF TakeOffer
  <2>2. /\ channel[Peer(s)] # <<>> /\ offer \in Messages /\ offer.type = "offer" /\ offer \in OfferMsgs
        /\ m \in AnswerMsgs /\ m \in Messages /\ m \notin OfferMsgs
    BY <1>0, <2>1, MessageTaken, AnswerOf, MessageKinds
  <2>3. /\ channel'[Peer(s)] = Tail(channel[Peer(s)])
        /\ channel'[s] = channel[s] \/ channel'[s] = Append(channel[s], m)
    BY <1>0, <1>6, <2>1, <2>2, MessageTaken, OfferAnswered DEF TakeOffer
  <2>4. ASSUME OneRound(s)
        PROVE  OneRound(s)'
    <3>1. NoMore(channel[s], channel'[s], OfferMsgs)
          /\ NoMore(channel[Peer(s)], channel'[Peer(s)], AnswerMsgs)
      BY <1>q, <2>2, <2>3, NoMoreSteps
    <3> QED
      BY <2>1, <2>4, <3>1, RoundIsKept
  <2>5. ASSUME OneRound(Peer(s))
        PROVE  OneRound(Peer(s))'
    <3> DEFINE p == Peer(s)
               n == op[p][negotiation[p]].n
    <3>1. ~ NoneOf(channel[p], OfferMsgs)
      BY <1>q, <2>2, OneOfTail
    <3>2. negotiation[p] # None /\ op[p][negotiation[p]] # NoOp /\ InTurn(p, n)
      BY <2>5, <3>1 DEF OneRound
    <3>3. /\ OnlyAbout(channel[p], OfferMsgs, n) /\ NoneOf(channel[s], AnswerMsgs) /\ answer[p] = 0
      BY <3>1, <3>2, Peers DEF InTurn
    <3>4. NoneOf(channel'[p], OfferMsgs) /\ offer.n = n
      BY <1>q, <2>2, <2>3, <3>3, OneOfTail
    <3>5. OnlyAbout(channel'[s], AnswerMsgs, n)
      <4>1. CASE channel'[s] = channel[s]
        BY <3>3, <4>1 DEF OnlyAbout, NoneOf
      <4>2. CASE channel'[s] = Append(channel[s], m)
        BY <1>q, <2>2, <3>3, <3>4, <4>2, OneOfAppend
      <4> QED
        BY <2>3, <4>1, <4>2
    <3>6. OnlyAbout(channel'[p], OfferMsgs, n)
      BY <3>4 DEF OnlyAbout, NoneOf
    <3> QED
      BY <2>1, <3>2, <3>3, <3>4, <3>5, <3>6, Peers DEF OneRound, InTurn
  <2> QED
    BY <1>g, <1>h, <2>1, <2>4, <2>5, Peers
<1>7. ASSUME NEW s \in Sides, TakeAnswer(s)
      PROVE  Rounds'
  <2> DEFINE m == Head(channel[Peer(s)])
  <2>1. /\ Next1(s, "answer") /\ channel' = Taken(s)
        /\ UNCHANGED <<op, negotiation, gaveUp, crossed>>
        /\ answer'[s] \in {answer[s], m.n} /\ answer'[Peer(s)] = answer[Peer(s)]
    BY <1>0, <1>7, Peers DEF TakeAnswer
  <2>2. /\ channel[Peer(s)] # <<>> /\ m \in Messages /\ m \in AnswerMsgs
        /\ channel'[Peer(s)] = Tail(channel[Peer(s)]) /\ channel'[s] = channel[s]
    BY <1>0, <2>1, MessageTaken, MessageKinds
  <2>3. ASSUME OneRound(s)
        PROVE  OneRound(s)'
    <3> DEFINE n == op[s][negotiation[s]].n
    <3>1. ~ NoneOf(channel[Peer(s)], AnswerMsgs)
      BY <1>q, <2>2, OneOfTail
    <3>2. negotiation[s] # None /\ op[s][negotiation[s]] # NoOp /\ InTurn(s, n)
      BY <2>3, <3>1 DEF OneRound
    <3>3. /\ OnlyAbout(channel[Peer(s)], AnswerMsgs, n) /\ NoneOf(channel[s], OfferMsgs) /\ answer[s] = 0
      BY <3>1, <3>2 DEF InTurn
    <3>4. NoneOf(channel'[Peer(s)], AnswerMsgs) /\ m.n = n
      BY <1>q, <2>2, <3>3, OneOfTail
    <3>5. OnlyAbout(channel'[Peer(s)], AnswerMsgs, n) /\ OnlyAbout(channel'[s], OfferMsgs, n)
      BY <2>2, <3>2, <3>4 DEF InTurn, OnlyAbout, NoneOf
    <3> QED
      BY <2>1, <2>2, <3>2, <3>3, <3>4, <3>5 DEF OneRound, InTurn
  <2>4. ASSUME OneRound(Peer(s))
        PROVE  OneRound(Peer(s))'
    <3>1. NoMore(channel[Peer(s)], channel'[Peer(s)], OfferMsgs) /\ NoMore(channel[s], channel'[s], AnswerMsgs)
      BY <1>q, <2>2, NoMoreSteps
    <3> QED
      BY <2>1, <2>4, <3>1, RoundIsKept, Peers
  <2> QED
    BY <1>g, <1>h, <2>1, <2>3, <2>4, Peers
\* The messages of no renegotiation, and what moves no message at all.
<1>8. ASSUME UNCHANGED <<op, negotiation, answer, gaveUp, crossed>>,
             \A u \in Sides : /\ NoMore(channel[u], channel'[u], OfferMsgs)
                              /\ NoMore(channel[u], channel'[u], AnswerMsgs)
      PROVE  Rounds'
  <2>1. ASSUME NEW u \in Sides, OneRound(u)
        PROVE  OneRound(u)'
    BY <1>8, <2>1, RoundIsKept, Peers
  <2> QED
    BY <1>8, <1>g, <1>h, <2>1
<1>9. ASSUME NEW s \in Sides, TakeEnded(s) \/ TakeData(s) \/ TakeGoodbye(s)
      PROVE  Rounds'
  <2>1. /\ channel' = Taken(s) /\ \E type : Next1(s, type)
        /\ UNCHANGED <<op, negotiation, answer, gaveUp, crossed>>
    BY <1>9 DEF TakeEnded, TakeData, TakeGoodbye
  <2>2. /\ channel[Peer(s)] # <<>>
        /\ channel'[Peer(s)] = Tail(channel[Peer(s)]) /\ channel'[s] = channel[s]
    BY <1>0, <2>1, MessageTaken
  <2> QED
    BY <1>8, <1>q, <2>1, <2>2, NoMoreSteps, Peers
<1>10. ASSUME NEW s \in Sides, Say(s) \/ Close(s)
       PROVE  Rounds'
  <2>1. /\ channel' = Sent(s, [type |-> "data"]) \/ channel' = Sent(s, [type |-> "goodbye"])
        /\ UNCHANGED <<op, negotiation, answer, gaveUp, crossed>>
    BY <1>10 DEF Say, Close
  <2>2. PICK m \in Messages : m \notin OfferMsgs /\ m \notin AnswerMsgs /\ channel' = Sent(s, m)
    BY <2>1, PlainMessages, MessageKinds
  <2>3. channel'[s] = Append(channel[s], m) /\ channel'[Peer(s)] = channel[Peer(s)]
    BY <1>0, <2>2, MessageSent
  <2>4. ASSUME NEW V, m \notin V
        PROVE  NoMore(channel[s], channel'[s], V) /\ NoMore(channel[Peer(s)], channel'[Peer(s)], V)
    BY <1>q, <2>2, <2>3, <2>4, NoMoreSteps
  <2> QED
    BY <1>8, <2>1, <2>2, <2>4, Peers
<1>11. ASSUME UNCHANGED <<op, negotiation, answer, gaveUp, crossed, channel>>
       PROVE  Rounds'
  BY <1>8, <1>11, <1>q, NoMoreSteps
<1>12. ASSUME NEW s \in Sides, Hear(s) \/ Leave(s)
       PROVE  Rounds'
  BY <1>11, <1>12 DEF Hear, Leave
<1>13. CASE NextRemoteTrack \/ UNCHANGED vars
  BY <1>11, <1>13 DEF NextRemoteTrack, vars
<1> QED
  BY <1>1, <1>2, <1>3, <1>4, <1>5, <1>6, <1>7, <1>9, <1>10, <1>12, <1>13 DEF Next, Side

-----------------------------------------------------------------------------
(* Words and the end: what a side said is heard, waits or is on the way, and *)
(* its goodbye comes after all of it.                                        *)

WordsKept(s) ==
    heard[s] + Count(inbound[s], DataItems) + Count(channel[Peer(s)], DataMsgs) = said[Peer(s)]

GoodbyeKept(s) ==
    /\ lastWord[s] # -1 => closed[s] /\ lastWord[s] = said[s]
    /\ NoneOf(channel[s], GoodbyeMsgs) \/ lastWord[s] # -1
    /\ AllBefore(channel[s], DataMsgs, GoodbyeMsgs)

EndKept(s) ==
    /\ closed[s] /\ lastWord[s] = -1
         => lastWord[Peer(s)] # -1 /\ Count(channel[Peer(s)], DataMsgs) = 0
    /\ left[s] => closed[s] /\ inbound[s] = <<>>

Words == \A s \in Sides : WordsKept(s) /\ GoodbyeKept(s) /\ EndKept(s)

\* A queue that changes by messages of neither kind.
SameWords(q, r) ==
    /\ Count(r, DataMsgs) = Count(q, DataMsgs)
    /\ NoneOf(q, GoodbyeMsgs) => NoneOf(r, GoodbyeMsgs)
    /\ AllBefore(q, DataMsgs, GoodbyeMsgs) => AllBefore(r, DataMsgs, GoodbyeMsgs)

LEMMA SameWordsSteps ==
    ASSUME NEW q \in Seq(Messages)
    PROVE  /\ SameWords(q, q)
           /\ \A m \in Messages : m \notin DataMsgs /\ m \notin GoodbyeMsgs => SameWords(q, Append(q, m))
           /\ q # <<>> /\ Head(q) \notin DataMsgs => SameWords(q, Tail(q))
<1>1. SameWords(q, q)
  BY DEF SameWords
<1>2. ASSUME NEW m \in Messages, m \notin DataMsgs, m \notin GoodbyeMsgs
      PROVE  SameWords(q, Append(q, m))
  <2>1. Count(Append(q, m), DataMsgs) = Count(q, DataMsgs)
    BY <1>2, CountOfAppend, PlacesAreFinite
  <2>2. NoneOf(q, GoodbyeMsgs) => NoneOf(Append(q, m), GoodbyeMsgs)
    BY <1>2, OneOfAppend
  <2>3. AllBefore(q, DataMsgs, GoodbyeMsgs) => AllBefore(Append(q, m), DataMsgs, GoodbyeMsgs)
    BY <1>2, OrderOfAppend
  <2> QED
    BY <2>1, <2>2, <2>3 DEF SameWords
<1>3. ASSUME q # <<>>, Head(q) \notin DataMsgs
      PROVE  SameWords(q, Tail(q))
  <2>1. Tail(q) \in Seq(Messages)
    BY <1>3, HeadTailProperties
  <2>2. Count(Tail(q), DataMsgs) = Count(q, DataMsgs)
    <3>1. Count(q, DataMsgs) = Count(Tail(q), DataMsgs) + 0
      BY <1>3, CountOfTail
    <3>2. Count(Tail(q), DataMsgs) \in Nat
      BY <2>1, PlacesAreFinite
    <3> QED
      BY <3>1, <3>2
  <2>3. NoneOf(q, GoodbyeMsgs) => NoneOf(Tail(q), GoodbyeMsgs)
    BY <1>3, OneOfTail
  <2>4. AllBefore(q, DataMsgs, GoodbyeMsgs) => AllBefore(Tail(q), DataMsgs, GoodbyeMsgs)
    BY <1>3, OrderOfTail
  <2> QED
    BY <2>2, <2>3, <2>4 DEF SameWords
<1> QED
  BY <1>1, <1>2, <1>3

LEMMA WordsAreKept ==
    ASSUME Words, UNCHANGED <<said, heard, lastWord, closed, left, inbound>>,
           \A s \in Sides : SameWords(channel[s], channel'[s])
    PROVE  Words'
BY Peers DEF Words, WordsKept, GoodbyeKept, EndKept, SameWords

LEMMA NothingSaid ==
    ASSUME Init PROVE Words
<1>1. \A s \in Sides : WordsKept(s)
  BY EmptyQueue, Peers DEF Init, WordsKept
<1>2. \A s \in Sides : GoodbyeKept(s)
  BY EmptyQueue DEF Init, GoodbyeKept, AllBefore, NoneOf
<1>3. \A s \in Sides : EndKept(s)
  BY DEF Init, EndKept
<1> QED
  BY <1>1, <1>2, <1>3 DEF Words

LEMMA StepWords == Typed /\ Words /\ [Next]_vars => Words'
<1> SUFFICES ASSUME Typed, Words, [Next]_vars PROVE Words'
  OBVIOUS
<1> USE DEF opVars, negotiationVars, controlVars, trackVars
<1>0. /\ channel \in [Sides -> Seq(Messages)] /\ inbound \in [Sides -> Seq(Items)]
      /\ closed \in [Sides -> BOOLEAN] /\ left \in [Sides -> BOOLEAN]
      /\ said \in [Sides -> Nat] /\ heard \in [Sides -> Nat]
      /\ lastWord \in [Sides -> Nat \cup {-1}]
  BY DEF Typed
<1>q. ASSUME NEW s \in Sides
      PROVE  /\ channel[s] \in Seq(Messages) /\ channel[Peer(s)] \in Seq(Messages)
             /\ Count(channel[s], DataMsgs) \in Nat /\ Count(channel[Peer(s)], DataMsgs) \in Nat
             /\ Count(inbound[s], DataItems) \in Nat /\ Count(inbound[Peer(s)], DataItems) \in Nat
             /\ inbound[s] \in Seq(Items)
  <2>1. channel[s] \in Seq(Messages) /\ channel[Peer(s)] \in Seq(Messages)
    BY <1>0, Peers
  <2>2. inbound[s] \in Seq(Items) /\ inbound[Peer(s)] \in Seq(Items)
    BY <1>0, Peers
  <2> QED
    BY <2>1, <2>2, PlacesAreFinite
\* The messages of a renegotiation, and the steps that move no message.
<1>1. ASSUME NEW s \in Sides, NEW k \in Tracks[s], Offer(s, k)
      PROVE  Words'
  <2>1. /\ op[s][k] # NoOp
        /\ channel' = Sent(s, [type |-> "offer", n |-> op[s][k].n, tracks |-> senders[s]])
        /\ UNCHANGED <<said, heard, lastWord, closed, left, inbound>>
    BY <1>1 DEF Offer
  <2>2. PICK m \in Messages : m \notin DataMsgs /\ m \notin GoodbyeMsgs /\ channel' = Sent(s, m)
    BY <2>1, OfferMade, MessageKinds
  <2>3. channel'[s] = Append(channel[s], m) /\ channel'[Peer(s)] = channel[Peer(s)]
    BY <1>0, <2>2, MessageSent
  <2>4. SameWords(channel[s], channel'[s]) /\ SameWords(channel[Peer(s)], channel'[Peer(s)])
    BY <1>q, <2>2, <2>3, SameWordsSteps
  <2> QED
    BY <2>1, <2>4, WordsAreKept, Peers
<1>2. ASSUME NEW s \in Sides, Apply(s)
      PROVE  Words'
  <2>1. /\ channel' = Sent(s, [type |-> "ended"]) \/ channel' = channel
        /\ UNCHANGED <<said, heard, lastWord, closed, left, inbound>>
    BY <1>2 DEF Apply
  <2>2. CASE channel' = channel
    BY <1>q, <2>1, <2>2, SameWordsSteps, WordsAreKept
  <2>3. CASE channel' = Sent(s, [type |-> "ended"])
    <3>1. PICK m \in Messages : m \notin DataMsgs /\ m \notin GoodbyeMsgs /\ channel' = Sent(s, m)
      BY <2>3, PlainMessages, MessageKinds
    <3>2. channel'[s] = Append(channel[s], m) /\ channel'[Peer(s)] = channel[Peer(s)]
      BY <1>0, <3>1, MessageSent
    <3>3. SameWords(channel[s], channel'[s]) /\ SameWords(channel[Peer(s)], channel'[Peer(s)])
      BY <1>q, <3>1, <3>2, SameWordsSteps
    <3> QED
      BY <2>1, <3>3, WordsAreKept, Peers
  <2> QED
    BY <2>1, <2>2, <2>3
<1>3. ASSUME NEW s \in Sides, TakeOffer(s)
      PROVE  Words'
  <2> DEFINE offer == Head(channel[Peer(s)])
             m == [type |-> "answer", n |-> offer.n]
  <2>1. /\ Next1(s, "offer")
        /\ UNCHANGED <<said, heard, lastWord, closed, left, inbound>>
    BY <1>3 DEF TakeOffer
  <2>2. /\ channel[Peer(s)] # <<>> /\ offer \in Messages /\ offer.type = "offer" /\ offer \notin DataMsgs
        /\ m \in Messages /\ m \notin DataMsgs /\ m \notin GoodbyeMsgs
    BY <1>0, <2>1, MessageTaken, AnswerOf, MessageKinds
  <2>3. /\ channel'[Peer(s)] = Tail(channel[Peer(s)])
        /\ channel'[s] = channel[s] \/ channel'[s] = Append(channel[s], m)
    <3>1. CASE channel' = Taken(s)
      BY <1>0, <2>1, <3>1, MessageTaken
    <3>2. CASE channel' = [Taken(s) EXCEPT ![s] = Append(@, m)]
      <4>1. PICK w \in Messages : w = m
        BY <2>2
      <4>2. channel' = [Taken(s) EXCEPT ![s] = Append(@, w)]
        BY <3>2, <4>1
      <4> QED
        BY <1>0, <2>1, <4>1, <4>2, OfferAnswered
    <3> QED
      BY <1>3, <3>1, <3>2 DEF TakeOffer
  <2>4. SameWords(channel[s], channel'[s]) /\ SameWords(channel[Peer(s)], channel'[Peer(s)])
    BY <1>q, <2>2, <2>3, SameWordsSteps
  <2> QED
    BY <2>1, <2>4, WordsAreKept, Peers
<1>4. ASSUME NEW s \in Sides, TakeAnswer(s)
      PROVE  Words'
  <2>1. /\ Next1(s, "answer") /\ channel' = Taken(s)
        /\ UNCHANGED <<said, heard, lastWord, closed, left, inbound>>
    BY <1>4 DEF TakeAnswer
  <2>2. /\ channel[Peer(s)] # <<>> /\ Head(channel[Peer(s)]) \notin DataMsgs
        /\ channel'[Peer(s)] = Tail(channel[Peer(s)]) /\ channel'[s] = channel[s]
    BY <1>0, <2>1, MessageTaken, MessageKinds
  <2>3. SameWords(channel[s], channel'[s]) /\ SameWords(channel[Peer(s)], channel'[Peer(s)])
    BY <1>q, <2>2, SameWordsSteps
  <2> QED
    BY <2>1, <2>3, WordsAreKept, Peers
<1>5. ASSUME UNCHANGED <<channel, said, heard, lastWord, closed, left, inbound>>
      PROVE  Words'
  BY <1>5, <1>q, SameWordsSteps, WordsAreKept
<1>6. ASSUME NEW s \in Sides, NEW k \in Tracks[s], Attach(s, k) \/ Detach(s, k) \/ OfferFails(s, k)
      PROVE  Words'
  BY <1>5, <1>6 DEF Attach, Detach, OfferFails
<1>7. ASSUME NEW s \in Sides, GiveUp(s)
      PROVE  Words'
  BY <1>5, <1>7 DEF GiveUp
<1>8. CASE NextRemoteTrack \/ UNCHANGED vars
  BY <1>5, <1>8 DEF NextRemoteTrack, vars
\* What a side keeps, its queues being as they were.
<1>9. ASSUME NEW s \in Sides
      PROVE  WordsKept(s) /\ GoodbyeKept(s) /\ EndKept(s)
             /\ WordsKept(Peer(s)) /\ GoodbyeKept(Peer(s)) /\ EndKept(Peer(s))
  BY Peers DEF Words
<1>10. ASSUME NEW s \in Sides, WordsKept(s)', GoodbyeKept(s)', EndKept(s)',
              WordsKept(Peer(s))', GoodbyeKept(Peer(s))', EndKept(Peer(s))'
       PROVE  Words'
  BY <1>10, Peers DEF Words
<1>11. ASSUME NEW s \in Sides, TakeEnded(s)
       PROVE  Words'
  <2>1. /\ Next1(s, "ended") /\ channel' = Taken(s)
        /\ inbound' = [inbound EXCEPT ![s] = Append(@, "ended")]
        /\ UNCHANGED <<said, heard, lastWord, closed, left>>
    BY <1>11 DEF TakeEnded
  <2>2. /\ channel[Peer(s)] # <<>> /\ Head(channel[Peer(s)]) \notin DataMsgs /\ ~ closed[s]
        /\ channel'[Peer(s)] = Tail(channel[Peer(s)]) /\ channel'[s] = channel[s]
    BY <1>0, <2>1, MessageTaken, MessageKinds
  <2>3. SameWords(channel[s], channel'[s]) /\ SameWords(channel[Peer(s)], channel'[Peer(s)])
    BY <1>q, <2>2, SameWordsSteps
  <2>4. /\ inbound'[s] = Append(inbound[s], "ended") /\ inbound'[Peer(s)] = inbound[Peer(s)]
    BY <1>0, <2>1, Peers
  <2>5. Count(inbound'[s], DataItems) = Count(inbound[s], DataItems)
    <3>1. "ended" \in Items /\ "ended" \notin DataItems
      BY DEF Items, DataItems
    <3> QED
      BY <1>q, <2>4, <3>1, CountOfAppend
  <2>6. WordsKept(s)' /\ WordsKept(Peer(s))'
    BY <1>9, <2>1, <2>3, <2>4, <2>5, Peers DEF WordsKept, SameWords
  <2>7. GoodbyeKept(s)' /\ GoodbyeKept(Peer(s))'
    BY <1>9, <2>1, <2>3 DEF GoodbyeKept, SameWords
  <2>8. EndKept(s)' /\ EndKept(Peer(s))'
    BY <1>9, <2>1, <2>2, <2>3, <2>4, Peers DEF EndKept, SameWords
  <2> QED
    BY <1>10, <2>6, <2>7, <2>8
<1>12. ASSUME NEW s \in Sides, TakeData(s)
       PROVE  Words'
  <2>1. /\ Next1(s, "data") /\ channel' = Taken(s)
        /\ inbound' = [inbound EXCEPT ![s] = Append(@, "data")]
        /\ UNCHANGED <<said, heard, lastWord, closed, left>>
    BY <1>12 DEF TakeData
  <2>2. /\ channel[Peer(s)] # <<>> /\ Head(channel[Peer(s)]) \in DataMsgs /\ ~ closed[s]
        /\ channel'[Peer(s)] = Tail(channel[Peer(s)]) /\ channel'[s] = channel[s]
    BY <1>0, <2>1, MessageTaken, MessageKinds
  <2>3. /\ Count(channel[Peer(s)], DataMsgs) = Count(channel'[Peer(s)], DataMsgs) + 1
        /\ Count(channel'[Peer(s)], DataMsgs) \in Nat
        /\ NoneOf(channel[Peer(s)], GoodbyeMsgs) => NoneOf(channel'[Peer(s)], GoodbyeMsgs)
        /\ AllBefore(channel'[Peer(s)], DataMsgs, GoodbyeMsgs)
    <3>1. Tail(channel[Peer(s)]) \in Seq(Messages)
      BY <1>q, <2>2, HeadTailProperties
    <3>2. AllBefore(channel[Peer(s)], DataMsgs, GoodbyeMsgs)
      BY <1>9 DEF GoodbyeKept
    <3>3. Count(channel[Peer(s)], DataMsgs) = Count(channel'[Peer(s)], DataMsgs) + 1
      BY <1>q, <2>2, CountOfTail
    <3>4. Count(channel'[Peer(s)], DataMsgs) \in Nat
      BY <2>2, <3>1, PlacesAreFinite
    <3>5. NoneOf(channel[Peer(s)], GoodbyeMsgs) => NoneOf(channel'[Peer(s)], GoodbyeMsgs)
      BY <1>q, <2>2, OneOfTail
    <3>6. AllBefore(channel'[Peer(s)], DataMsgs, GoodbyeMsgs)
      BY <1>q, <2>2, <3>2, OrderOfTail
    <3> QED
      BY <3>3, <3>4, <3>5, <3>6
  <2>4. /\ inbound'[s] = Append(inbound[s], "data") /\ inbound'[Peer(s)] = inbound[Peer(s)]
    BY <1>0, <2>1, Peers
  <2>5. Count(inbound'[s], DataItems) = Count(inbound[s], DataItems) + 1
    <3>1. "data" \in Items /\ "data" \in DataItems
      BY DEF Items, DataItems
    <3> QED
      BY <1>q, <2>4, <3>1, CountOfAppend
  <2>6. WordsKept(s)' /\ WordsKept(Peer(s))'
    <3>1. heard[s] \in Nat /\ Count(inbound[s], DataItems) \in Nat
      BY <1>0, <1>q
    <3>2. heard[s] + Count(inbound[s], DataItems) + (Count(channel'[Peer(s)], DataMsgs) + 1) = said[Peer(s)]
      BY <1>9, <2>3 DEF WordsKept
    <3>3. heard[s] + (Count(inbound[s], DataItems) + 1) + Count(channel'[Peer(s)], DataMsgs) = said[Peer(s)]
      BY <2>3, <3>1, <3>2
    <3>4. WordsKept(s)'
      BY <2>1, <2>5, <3>3 DEF WordsKept
    <3>5. WordsKept(Peer(s))'
      BY <1>9, <2>1, <2>2, <2>4, Peers DEF WordsKept
    <3> QED
      BY <3>4, <3>5
  <2>7. GoodbyeKept(s)' /\ GoodbyeKept(Peer(s))'
    BY <1>9, <2>1, <2>2, <2>3 DEF GoodbyeKept
  <2>8. EndKept(s)' /\ EndKept(Peer(s))'
    BY <1>9, <2>1, <2>2, <2>4, Peers DEF EndKept
  <2> QED
    BY <1>10, <2>6, <2>7, <2>8
<1>13. ASSUME NEW s \in Sides, TakeGoodbye(s)
       PROVE  Words'
  <2>1. /\ Next1(s, "goodbye") /\ channel' = Taken(s)
        /\ closed' = [closed EXCEPT ![s] = TRUE]
        /\ UNCHANGED <<said, heard, lastWord, left, inbound>>
    BY <1>13 DEF TakeGoodbye
  <2>2. /\ channel[Peer(s)] # <<>> /\ Head(channel[Peer(s)]) \in GoodbyeMsgs /\ ~ closed[s]
        /\ Head(channel[Peer(s)]) \notin DataMsgs
        /\ channel'[Peer(s)] = Tail(channel[Peer(s)]) /\ channel'[s] = channel[s]
    BY <1>0, <2>1, MessageTaken, MessageKinds
  <2>3. SameWords(channel[s], channel'[s]) /\ SameWords(channel[Peer(s)], channel'[Peer(s)])
    BY <1>q, <2>2, SameWordsSteps
  <2>4. closed'[s] /\ closed'[Peer(s)] = closed[Peer(s)]
    BY <1>0, <2>1, Peers
  <2>5. lastWord[Peer(s)] # -1 /\ Count(channel'[Peer(s)], DataMsgs) = 0
    <3>1. AllBefore(channel[Peer(s)], DataMsgs, GoodbyeMsgs)
          /\ (NoneOf(channel[Peer(s)], GoodbyeMsgs) \/ lastWord[Peer(s)] # -1)
      BY <1>9 DEF GoodbyeKept
    <3>2. NoneOf(channel'[Peer(s)], DataMsgs) /\ ~ NoneOf(channel[Peer(s)], GoodbyeMsgs)
      BY <1>q, <2>2, <3>1, OneOfTail, OrderOfTail
    <3>3. channel'[Peer(s)] \in Seq(Messages)
      BY <1>q, <2>2, HeadTailProperties
    <3> QED
      BY <3>1, <3>2, <3>3, NoneCountsZero
  <2>6. WordsKept(s)' /\ WordsKept(Peer(s))'
    BY <1>9, <2>1, <2>3, Peers DEF WordsKept, SameWords
  <2>7. GoodbyeKept(s)' /\ GoodbyeKept(Peer(s))'
    BY <1>9, <2>1, <2>3, <2>4 DEF GoodbyeKept, SameWords
  <2>8. EndKept(s)' /\ EndKept(Peer(s))'
    BY <1>9, <2>1, <2>3, <2>4, <2>5, <2>2, Peers DEF EndKept, SameWords
  <2> QED
    BY <1>10, <2>6, <2>7, <2>8
<1>14. ASSUME NEW s \in Sides, Say(s)
       PROVE  Words'
  <2> DEFINE m == [type |-> "data"]
  <2>1. /\ ~ closed[s] /\ said'[s] = said[s] + 1 /\ said'[Peer(s)] = said[Peer(s)]
        /\ channel' = Sent(s, m)
        /\ UNCHANGED <<heard, lastWord, closed, left, inbound>>
    BY <1>0, <1>14, Peers DEF Say
  <2>2. m \in Messages /\ m \in DataMsgs /\ m \notin GoodbyeMsgs
    BY PlainMessages, MessageKinds
  <2>3. channel'[s] = Append(channel[s], m) /\ channel'[Peer(s)] = channel[Peer(s)]
    BY <1>0, <2>1, <2>2, MessageSent
  <2>4. lastWord[s] = -1 /\ NoneOf(channel[s], GoodbyeMsgs)
    BY <1>9, <2>1 DEF GoodbyeKept
  <2>5. /\ Count(channel'[s], DataMsgs) = Count(channel[s], DataMsgs) + 1
        /\ NoneOf(channel'[s], GoodbyeMsgs)
        /\ AllBefore(channel'[s], DataMsgs, GoodbyeMsgs)
    <3>1. AllBefore(channel[s], DataMsgs, GoodbyeMsgs)
      BY <1>9 DEF GoodbyeKept
    <3> QED
      BY <1>q, <2>2, <2>3, <2>4, <3>1, CountOfAppend, OneOfAppend, OrderOfAppend
  <2>6. WordsKept(s)' /\ WordsKept(Peer(s))'
    <3>1. heard[Peer(s)] \in Nat /\ said[s] \in Nat
      BY <1>0, Peers
    <3>2. heard[Peer(s)] + Count(inbound[Peer(s)], DataItems) + Count(channel[s], DataMsgs) = said[s]
      BY <1>9, Peers DEF WordsKept
    <3>3. heard[Peer(s)] + Count(inbound[Peer(s)], DataItems) + (Count(channel[s], DataMsgs) + 1) = said[s] + 1
      BY <1>q, <3>1, <3>2
    <3>4. WordsKept(Peer(s))'
      BY <2>1, <2>5, <3>3, Peers DEF WordsKept
    <3>5. WordsKept(s)'
      BY <1>9, <2>1, <2>3 DEF WordsKept
    <3> QED
      BY <3>4, <3>5
  <2>7. GoodbyeKept(s)' /\ GoodbyeKept(Peer(s))'
    BY <1>9, <2>1, <2>3, <2>4, <2>5 DEF GoodbyeKept
  <2>8. EndKept(s)' /\ EndKept(Peer(s))'
    BY <1>9, <2>1, <2>3, <2>4, Peers DEF EndKept
  <2> QED
    BY <1>10, <2>6, <2>7, <2>8
<1>15. ASSUME NEW s \in Sides, Hear(s)
       PROVE  Words'
  <2>1. /\ inbound[s] # <<>> /\ ~ left[s]
        /\ inbound'[s] = Tail(inbound[s]) /\ inbound'[Peer(s)] = inbound[Peer(s)]
        /\ heard'[s] = heard[s] + (IF IsData(Head(inbound[s])) THEN 1 ELSE 0)
        /\ heard'[Peer(s)] = heard[Peer(s)]
        /\ UNCHANGED <<channel, said, lastWord, closed, left>>
    BY <1>0, <1>15, Peers DEF Hear
  <2>2. Count(inbound[s], DataItems) = Count(inbound'[s], DataItems) + (IF IsData(Head(inbound[s])) THEN 1 ELSE 0)
    <3>1. Head(inbound[s]) \in DataItems <=> IsData(Head(inbound[s]))
      BY DEF DataItems, IsData
    <3> QED
      BY <1>q, <2>1, <3>1, CountOfTail
  <2>3. WordsKept(s)' /\ WordsKept(Peer(s))'
    <3>1. Count(inbound'[s], DataItems) \in Nat
      <4>1. inbound'[s] \in Seq(Items)
        BY <1>q, <2>1, HeadTailProperties
      <4> QED
        BY <4>1, PlacesAreFinite
    <3>2. heard[s] \in Nat
      BY <1>0
    <3> QED
      BY <1>9, <1>q, <2>1, <2>2, <3>1, <3>2, Peers DEF WordsKept
  <2>4. GoodbyeKept(s)' /\ GoodbyeKept(Peer(s))'
    BY <1>9, <2>1 DEF GoodbyeKept
  <2>5. EndKept(s)' /\ EndKept(Peer(s))'
    BY <1>9, <2>1, Peers DEF EndKept
  <2> QED
    BY <1>10, <2>3, <2>4, <2>5
<1>16. ASSUME NEW s \in Sides, Leave(s)
       PROVE  Words'
  <2>1. /\ closed[s] /\ inbound[s] = <<>> /\ left'[Peer(s)] = left[Peer(s)]
        /\ UNCHANGED <<channel, said, heard, lastWord, closed, inbound>>
    BY <1>0, <1>16, Peers DEF Leave
  <2>2. WordsKept(s)' /\ WordsKept(Peer(s))'
    BY <1>9, <2>1 DEF WordsKept
  <2>3. GoodbyeKept(s)' /\ GoodbyeKept(Peer(s))'
    BY <1>9, <2>1 DEF GoodbyeKept
  <2>4. EndKept(s)' /\ EndKept(Peer(s))'
    BY <1>9, <2>1 DEF EndKept
  <2> QED
    BY <1>10, <2>2, <2>3, <2>4
<1>17. ASSUME NEW s \in Sides, Close(s)
       PROVE  Words'
  <2> DEFINE m == [type |-> "goodbye"]
  <2>1. /\ ~ closed[s] /\ channel' = Sent(s, m)
        /\ closed'[s] /\ closed'[Peer(s)] = closed[Peer(s)]
        /\ lastWord'[s] = said[s] /\ lastWord'[Peer(s)] = lastWord[Peer(s)]
        /\ UNCHANGED <<said, heard, left, inbound>>
    BY <1>0, <1>17, Peers DEF Close
  <2>2. m \in Messages /\ m \notin DataMsgs
    BY PlainMessages, MessageKinds
  <2>3. channel'[s] = Append(channel[s], m) /\ channel'[Peer(s)] = channel[Peer(s)]
    BY <1>0, <2>1, <2>2, MessageSent
  <2>4. /\ Count(channel'[s], DataMsgs) = Count(channel[s], DataMsgs)
        /\ AllBefore(channel'[s], DataMsgs, GoodbyeMsgs)
    <3>1. AllBefore(channel[s], DataMsgs, GoodbyeMsgs)
      BY <1>9 DEF GoodbyeKept
    <3> QED
      BY <1>q, <2>2, <2>3, <3>1, CountOfAppend, OrderOfAppend
  <2>5. said[s] \in Nat /\ lastWord'[s] # -1
    BY <1>0, <2>1
  <2>6. WordsKept(s)' /\ WordsKept(Peer(s))'
    BY <1>9, <2>1, <2>3, <2>4, Peers DEF WordsKept
  <2>7. GoodbyeKept(s)' /\ GoodbyeKept(Peer(s))'
    BY <1>9, <2>1, <2>3, <2>4, <2>5 DEF GoodbyeKept
  <2>8. EndKept(s)' /\ EndKept(Peer(s))'
    BY <1>9, <2>1, <2>3, <2>4, <2>5, Peers DEF EndKept
  <2> QED
    BY <1>10, <2>6, <2>7, <2>8
<1> QED
  BY <1>1, <1>2, <1>3, <1>4, <1>6, <1>7, <1>8, <1>11, <1>12, <1>13, <1>14, <1>15, <1>16, <1>17
     DEF Next, Side

-----------------------------------------------------------------------------
\* Each answer meets the offer it answers, what is sent is recorded or being
\* attached, and the end comes after the last word (renegotiate, attach_window,
\* close and recv_control of transport/src/lib.rs).
THEOREM SessionKeepsOrder == Spec => []SessionInOrder
<1> DEFINE IInv == Typed /\ SendersAreKnown /\ Rounds /\ Words
<1>1. Init => IInv
  <2>1. Init => SendersAreKnown
    BY DEF Init, SendersAreKnown
  <2> QED
    BY <2>1, InitTyped, NoMessagesNoRounds, NothingSaid
<1>2. IInv /\ [Next]_vars => IInv'
  BY StepTyped, StepSenders, StepRounds, StepWords
<1>3. IInv => SessionInOrder
  <2> SUFFICES ASSUME IInv PROVE SessionInOrder
    OBVIOUS
  <2>1. ASSUME NEW s \in Sides
        PROVE  /\ heard[s] + Cardinality({i \in DOMAIN inbound[s] : IsData(inbound[s][i])}) <= said[Peer(s)]
               /\ left[s] /\ lastWord[s] = -1 => heard[s] = lastWord[Peer(s)]
    <3>1. /\ heard[s] \in Nat /\ said[Peer(s)] \in Nat /\ inbound[s] \in Seq(Items)
          /\ channel[Peer(s)] \in Seq(Messages)
      BY Peers DEF Typed
    <3>2. Count(inbound[s], DataItems) \in Nat /\ Count(channel[Peer(s)], DataMsgs) \in Nat
      BY <3>1, PlacesAreFinite
    <3>3. {i \in DOMAIN inbound[s] : IsData(inbound[s][i])} = Places(inbound[s], DataItems)
      BY DEF Places, DataItems, IsData
    <3>4. WordsKept(s) /\ EndKept(s) /\ GoodbyeKept(Peer(s))
      BY Peers DEF Words
    <3>5. heard[s] + Cardinality({i \in DOMAIN inbound[s] : IsData(inbound[s][i])}) <= said[Peer(s)]
      <4>1. Cardinality({i \in DOMAIN inbound[s] : IsData(inbound[s][i])}) = Count(inbound[s], DataItems)
        BY <3>3 DEF Count
      <4>2. heard[s] + Count(inbound[s], DataItems) <= said[Peer(s)]
        BY <3>1, <3>2, <3>4 DEF WordsKept
      <4> QED
        BY <4>1, <4>2
    <3>6. ASSUME left[s], lastWord[s] = -1
          PROVE  heard[s] = lastWord[Peer(s)]
      <4>1. Count(inbound[s], DataItems) = 0
        BY <3>4, <3>6, EmptyQueue DEF EndKept
      <4>2. Count(channel[Peer(s)], DataMsgs) = 0 /\ lastWord[Peer(s)] = said[Peer(s)]
        BY <3>4, <3>6 DEF EndKept, GoodbyeKept
      <4> QED
        BY <3>1, <3>4, <4>1, <4>2 DEF WordsKept
    <3> QED
      BY <3>5, <3>6
  <2>2. TypeOK
    <3>1. \A s \in Sides : \A k \in Tracks[s] : op[s][k] \in Operations
      BY Underway DEF Typed, OpTyped
    <3> QED
      BY <2>1, <3>1 DEF TypeOK, Typed, NegotiationTyped
  <2> QED
    BY <2>1, <2>2 DEF SessionInOrder, Rounds, EndIsLast
<1> QED
  BY <1>1, <1>2, <1>3, PTL DEF Spec

-----------------------------------------------------------------------------
(* The command channel.  What of a channel is under way, as numbers.         *)

HostMsgs == [type : {"Close"}, id : Ids] \cup [type : {"Open"}, id : Ids, kind : ChannelKinds]
ClientMsgs == [type : Answers \cup {"Data", "Exited"}, id : Ids]
EventKinds == {"Data", "Exited", "Closed"}

OpensOf(i) == {m \in HostMsgs : m.type = "Open" /\ m.id = i}
ClosesOf(i) == {m \in HostMsgs : m.type = "Close" /\ m.id = i}
DataOf(i) == {m \in ClientMsgs : m.type = "Data" /\ m.id = i}
ExitsOf(i) == {m \in ClientMsgs : m.type = "Exited" /\ m.id = i}
RefusalsOf(i) == {m \in ClientMsgs : m.type \in {"Refused", "PasswordNeeded"} /\ m.id = i}
OpenedOf(i) == {m \in ClientMsgs : m.type = "Opened" /\ m.id = i}

OpenSent(i) == Count(toHost, OpensOf(i))
CloseSent(i) == Count(toHost, ClosesOf(i))
DataDue(i) == Count(toClient, DataOf(i))
ExitDue(i) == Count(toClient, ExitsOf(i))
RefusalDue(i) == Count(toClient, RefusalsOf(i))
OpenedDue(i) == Count(toClient, OpenedOf(i))
OutputFirst(i) == AllBefore(toClient, DataOf(i), ExitsOf(i))

DataTold(i) == Count(events[i], {"Data"})
ExitTold(i) == Count(events[i], {"Exited"})
ClosedTold(i) == Count(events[i], {"Closed"})

InHand(i) == \E o \in opening : o.id = i
Unstarted(i) == \E o \in opening : o.id = i /\ ~ o.started
LaunchInHand(i) == \E o \in opening : o.id = i /\ o.started /\ o.kind # "Exec"
Before(i) == OpenSent(i) > 0 \/ Unstarted(i)

-----------------------------------------------------------------------------
(* The invariant, a channel at a time.                                       *)

\* A number not given out yet is nowhere.
Unborn(i) == i > opens =>
    /\ OpenSent(i) = 0 /\ CloseSent(i) = 0
    /\ DataDue(i) = 0 /\ ExitDue(i) = 0 /\ RefusalDue(i) = 0 /\ OpenedDue(i) = 0
    /\ ~ InHand(i) /\ call[i] = "no" /\ events[i] = <<>>
    /\ written[i] = 0 /\ unread[i] = 0
    /\ i \notin routes /\ i \notin closing /\ i \notin late /\ i \notin open
    /\ i \notin shut /\ i \notin running /\ i \notin waited /\ i \notin listed

OpenedOnce(i) == OpenSent(i) <= 1 /\ (InHand(i) => OpenSent(i) = 0)

\* Before it is started a channel has done nothing.
NotStarted(i) == Before(i) =>
    /\ CloseSent(i) = 0
    /\ DataDue(i) = 0 /\ ExitDue(i) = 0 /\ RefusalDue(i) = 0 /\ OpenedDue(i) = 0
    /\ call[i] \notin Answers /\ DataTold(i) = 0 /\ ExitTold(i) = 0
    /\ written[i] = 0 /\ unread[i] = 0
    /\ i \notin closing /\ i \notin open /\ i \notin shut
    /\ i \notin running /\ i \notin waited /\ i \notin listed

\* A launch runs nothing that is waited for.
OnlyLaunched(i) == LaunchInHand(i) =>
    i \notin running /\ i \notin waited /\ written[i] = 0 /\ unread[i] = 0

RouteIsLive(i) == i \in routes =>
    /\ linked /\ i \notin late /\ CloseSent(i) = 0
    /\ ClosedTold(i) = 0 /\ ExitTold(i) = 0
    /\ serving /\ i \in shut => i \notin waited

\* A channel in the map has a command, or the word of its end is coming.
RouteIsServed(i) == i \in routes /\ serving =>
    Before(i) \/ LaunchInHand(i) \/ i \in waited \/ ExitDue(i) > 0 \/ RefusalDue(i) > 0

\* What runs, or will, is in the map, or is about to be closed, or nobody waited for it.
ServedIsRouted(i) == linked /\ serving /\ (i \in running \/ Before(i)) /\ i \notin late =>
    i \in routes \/ CloseSent(i) > 0

EndIsSent(i) ==
    /\ ExitDue(i) > 0 \/ RefusalDue(i) > 0 => i \notin running /\ ~ Before(i)
    /\ ExitDue(i) > 0 => unread[i] = 0

\* Output is in the app's queue, on the way or with the readers.
OutputIsKept(i) == i \in routes /\ (serving \/ ExitDue(i) > 0) =>
    DataTold(i) + DataDue(i) + unread[i] = written[i]

EndIsTold(i) == ExitTold(i) > 0 =>
    DataTold(i) = written[i] /\ i \notin running /\ ~ Before(i) /\ i \notin routes

ClosedIsLast(i) ==
    \A n \in DOMAIN events[i] : events[i][n] = "Closed" => n = Len(events[i])

ChannelKept(i) ==
    /\ Unborn(i) /\ OpenedOnce(i) /\ NotStarted(i) /\ OnlyLaunched(i)
    /\ RouteIsLive(i) /\ RouteIsServed(i) /\ ServedIsRouted(i)
    /\ EndIsSent(i) /\ OutputFirst(i) /\ OutputIsKept(i) /\ EndIsTold(i) /\ ClosedIsLast(i)

HostIsTidy ==
    /\ running \subseteq open /\ running \subseteq listed /\ listed \subseteq waited
    /\ running \cap shut = {}
    /\ ~ serving => opening = {} /\ running = {}

CommandsTyped ==
    /\ opens \in 0 .. MaxOpens
    /\ call \in [Ids -> {"no", "waiting", "silent", "ended"} \cup Answers]
    /\ events \in [Ids -> Seq(EventKinds)]
    /\ routes \subseteq Ids /\ closing \subseteq Ids /\ late \subseteq Ids /\ open \subseteq Ids
    /\ shut \subseteq Ids /\ running \subseteq Ids /\ waited \subseteq Ids /\ listed \subseteq Ids
    /\ linked \in BOOLEAN /\ serving \in BOOLEAN
    /\ toHost \in Seq(HostMsgs) /\ toClient \in Seq(ClientMsgs)
    /\ opening \subseteq [id : Ids, kind : ChannelKinds, started : BOOLEAN]
    /\ opening = {} \/ \E o \in opening : opening = {o}
    /\ written \in [Ids -> 0 .. MaxChunks] /\ unread \in [Ids -> 0 .. MaxChunks]
    /\ \A i \in Ids : unread[i] <= written[i]

CommandsInv == CommandsTyped /\ HostIsTidy /\ \A i \in Ids : ChannelKept(i)

-----------------------------------------------------------------------------
(* How the queues' numbers change.                                           *)

LEMMA NumbersAreNatural ==
    ASSUME CommandsTyped, NEW i \in Ids
    PROVE  /\ OpenSent(i) \in Nat /\ CloseSent(i) \in Nat
           /\ DataDue(i) \in Nat /\ ExitDue(i) \in Nat /\ RefusalDue(i) \in Nat /\ OpenedDue(i) \in Nat
           /\ DataTold(i) \in Nat /\ ExitTold(i) \in Nat /\ ClosedTold(i) \in Nat
           /\ written[i] \in Nat /\ unread[i] \in Nat /\ i \in Nat /\ opens \in Nat
<1>1. toHost \in Seq(HostMsgs) /\ toClient \in Seq(ClientMsgs) /\ events[i] \in Seq(EventKinds)
  BY DEF CommandsTyped
<1>2. OpenSent(i) \in Nat /\ CloseSent(i) \in Nat
  BY <1>1, PlacesAreFinite DEF OpenSent, CloseSent
<1>3. DataDue(i) \in Nat /\ ExitDue(i) \in Nat /\ RefusalDue(i) \in Nat /\ OpenedDue(i) \in Nat
  BY <1>1, PlacesAreFinite DEF DataDue, ExitDue, RefusalDue, OpenedDue
<1>4. DataTold(i) \in Nat /\ ExitTold(i) \in Nat /\ ClosedTold(i) \in Nat
  BY <1>1, PlacesAreFinite DEF DataTold, ExitTold, ClosedTold
<1>5. written[i] \in Nat /\ unread[i] \in Nat /\ i \in Nat /\ opens \in Nat
  <2>1. MaxOpens \in Nat /\ MaxChunks \in Nat
    BY CommandsAssumption
  <2> QED
    BY <2>1 DEF CommandsTyped, Ids
<1> QED
  BY <1>2, <1>3, <1>4, <1>5

LEMMA HostGrows ==
    ASSUME NEW m \in HostMsgs, NEW i \in Ids, toHost \in Seq(HostMsgs), toHost' = Append(toHost, m)
    PROVE  /\ toHost' \in Seq(HostMsgs)
           /\ OpenSent(i)' = OpenSent(i) + (IF m.type = "Open" /\ m.id = i THEN 1 ELSE 0)
           /\ CloseSent(i)' = CloseSent(i) + (IF m.type = "Close" /\ m.id = i THEN 1 ELSE 0)
<1>1. toHost' \in Seq(HostMsgs)
  BY AppendProperties
<1>2. Count(Append(toHost, m), OpensOf(i)) = Count(toHost, OpensOf(i)) + (IF m \in OpensOf(i) THEN 1 ELSE 0)
  BY CountOfAppend
<1>3. Count(Append(toHost, m), ClosesOf(i)) = Count(toHost, ClosesOf(i)) + (IF m \in ClosesOf(i) THEN 1 ELSE 0)
  BY CountOfAppend
<1> QED
  BY <1>1, <1>2, <1>3 DEF OpenSent, CloseSent, OpensOf, ClosesOf

LEMMA HostShrinks ==
    ASSUME NEW i \in Ids, toHost \in Seq(HostMsgs), toHost # <<>>, toHost' = Tail(toHost)
    PROVE  /\ toHost' \in Seq(HostMsgs) /\ Head(toHost) \in HostMsgs
           /\ OpenSent(i) = OpenSent(i)' + (IF Head(toHost).type = "Open" /\ Head(toHost).id = i THEN 1 ELSE 0)
           /\ CloseSent(i) = CloseSent(i)' + (IF Head(toHost).type = "Close" /\ Head(toHost).id = i THEN 1 ELSE 0)
           /\ OpenSent(i)' \in Nat /\ CloseSent(i)' \in Nat
<1>1. toHost' \in Seq(HostMsgs) /\ Head(toHost) \in HostMsgs
  BY HeadTailProperties
<1>2. Count(toHost, OpensOf(i)) = Count(Tail(toHost), OpensOf(i)) + (IF Head(toHost) \in OpensOf(i) THEN 1 ELSE 0)
  BY CountOfTail
<1>3. Count(toHost, ClosesOf(i)) = Count(Tail(toHost), ClosesOf(i)) + (IF Head(toHost) \in ClosesOf(i) THEN 1 ELSE 0)
  BY CountOfTail
<1>4. OpenSent(i)' \in Nat /\ CloseSent(i)' \in Nat
  BY <1>1, PlacesAreFinite DEF OpenSent, CloseSent
<1> QED
  BY <1>1, <1>2, <1>3, <1>4 DEF OpenSent, CloseSent, OpensOf, ClosesOf

\* A message added to any queue to the client.
LEMMA ClientGrows ==
    ASSUME NEW q \in Seq(ClientMsgs), NEW m \in ClientMsgs, NEW i \in Ids
    PROVE  /\ Append(q, m) \in Seq(ClientMsgs)
           /\ Count(Append(q, m), DataOf(i)) = Count(q, DataOf(i)) + (IF m.type = "Data" /\ m.id = i THEN 1 ELSE 0)
           /\ Count(Append(q, m), ExitsOf(i)) = Count(q, ExitsOf(i)) + (IF m.type = "Exited" /\ m.id = i THEN 1 ELSE 0)
           /\ Count(Append(q, m), RefusalsOf(i))
                = Count(q, RefusalsOf(i)) + (IF m.type \in {"Refused", "PasswordNeeded"} /\ m.id = i THEN 1 ELSE 0)
           /\ Count(Append(q, m), OpenedOf(i)) = Count(q, OpenedOf(i)) + (IF m.type = "Opened" /\ m.id = i THEN 1 ELSE 0)
           /\ AllBefore(q, DataOf(i), ExitsOf(i)) /\ (m.type = "Data" /\ m.id = i => Count(q, ExitsOf(i)) = 0)
                => AllBefore(Append(q, m), DataOf(i), ExitsOf(i))
<1>1. Append(q, m) \in Seq(ClientMsgs)
  BY AppendProperties
<1>2. /\ m \in DataOf(i) <=> m.type = "Data" /\ m.id = i
      /\ m \in ExitsOf(i) <=> m.type = "Exited" /\ m.id = i
      /\ m \in RefusalsOf(i) <=> m.type \in {"Refused", "PasswordNeeded"} /\ m.id = i
      /\ m \in OpenedOf(i) <=> m.type = "Opened" /\ m.id = i
  BY DEF DataOf, ExitsOf, RefusalsOf, OpenedOf
<1>3. Count(Append(q, m), DataOf(i)) = Count(q, DataOf(i)) + (IF m \in DataOf(i) THEN 1 ELSE 0)
  BY CountOfAppend
<1>4. Count(Append(q, m), ExitsOf(i)) = Count(q, ExitsOf(i)) + (IF m \in ExitsOf(i) THEN 1 ELSE 0)
  BY CountOfAppend
<1>5. Count(Append(q, m), RefusalsOf(i)) = Count(q, RefusalsOf(i)) + (IF m \in RefusalsOf(i) THEN 1 ELSE 0)
  BY CountOfAppend
<1>6. Count(Append(q, m), OpenedOf(i)) = Count(q, OpenedOf(i)) + (IF m \in OpenedOf(i) THEN 1 ELSE 0)
  BY CountOfAppend
<1>7. ASSUME AllBefore(q, DataOf(i), ExitsOf(i)), m.type = "Data" /\ m.id = i => Count(q, ExitsOf(i)) = 0
      PROVE  AllBefore(Append(q, m), DataOf(i), ExitsOf(i))
  <2>1. m \in DataOf(i) => m \notin ExitsOf(i) /\ NoneOf(q, ExitsOf(i))
    BY <1>2, <1>7, NoneCountsZero
  <2> QED
    BY <1>7, <2>1, OrderOfAppend
<1> QED
  BY <1>1, <1>2, <1>3, <1>4, <1>5, <1>6, <1>7

LEMMA ClientShrinks ==
    ASSUME NEW i \in Ids, toClient \in Seq(ClientMsgs), toClient # <<>>, toClient' = Tail(toClient)
    PROVE  /\ toClient' \in Seq(ClientMsgs) /\ Head(toClient) \in ClientMsgs
           /\ DataDue(i) = DataDue(i)' + (IF Head(toClient).type = "Data" /\ Head(toClient).id = i THEN 1 ELSE 0)
           /\ ExitDue(i) = ExitDue(i)' + (IF Head(toClient).type = "Exited" /\ Head(toClient).id = i THEN 1 ELSE 0)
           /\ RefusalDue(i) = RefusalDue(i)'
                + (IF Head(toClient).type \in {"Refused", "PasswordNeeded"} /\ Head(toClient).id = i THEN 1 ELSE 0)
           /\ OpenedDue(i) = OpenedDue(i)' + (IF Head(toClient).type = "Opened" /\ Head(toClient).id = i THEN 1 ELSE 0)
           /\ DataDue(i)' \in Nat /\ ExitDue(i)' \in Nat /\ RefusalDue(i)' \in Nat /\ OpenedDue(i)' \in Nat
           /\ OutputFirst(i) => OutputFirst(i)'
           /\ OutputFirst(i) /\ Head(toClient).type = "Exited" /\ Head(toClient).id = i => DataDue(i)' = 0
<1> DEFINE m == Head(toClient)
<1>1. toClient' \in Seq(ClientMsgs) /\ m \in ClientMsgs
  BY HeadTailProperties
<1>2. /\ m \in DataOf(i) <=> m.type = "Data" /\ m.id = i
      /\ m \in ExitsOf(i) <=> m.type = "Exited" /\ m.id = i
      /\ m \in RefusalsOf(i) <=> m.type \in {"Refused", "PasswordNeeded"} /\ m.id = i
      /\ m \in OpenedOf(i) <=> m.type = "Opened" /\ m.id = i
  BY <1>1 DEF DataOf, ExitsOf, RefusalsOf, OpenedOf
<1> HIDE DEF m
<1>3. DataDue(i) = DataDue(i)' + (IF m \in DataOf(i) THEN 1 ELSE 0)
  BY CountOfTail DEF DataDue, m
<1>4. ExitDue(i) = ExitDue(i)' + (IF m \in ExitsOf(i) THEN 1 ELSE 0)
  BY CountOfTail DEF ExitDue, m
<1>5. RefusalDue(i) = RefusalDue(i)' + (IF m \in RefusalsOf(i) THEN 1 ELSE 0)
  BY CountOfTail DEF RefusalDue, m
<1>6. OpenedDue(i) = OpenedDue(i)' + (IF m \in OpenedOf(i) THEN 1 ELSE 0)
  BY CountOfTail DEF OpenedDue, m
<1>7. DataDue(i)' \in Nat /\ ExitDue(i)' \in Nat /\ RefusalDue(i)' \in Nat /\ OpenedDue(i)' \in Nat
  BY <1>1, PlacesAreFinite DEF DataDue, ExitDue, RefusalDue, OpenedDue
<1>8. OutputFirst(i) => OutputFirst(i)' /\ (m \in ExitsOf(i) => NoneOf(toClient', DataOf(i)))
  BY OrderOfTail DEF OutputFirst, m
<1>9. NoneOf(toClient', DataOf(i)) => DataDue(i)' = 0
  BY <1>1, NoneCountsZero DEF DataDue
<1> QED
  BY <1>1, <1>2, <1>3, <1>4, <1>5, <1>6, <1>7, <1>8, <1>9 DEF m

-----------------------------------------------------------------------------
(* What a step leaves of a channel's state.                                  *)

SameToHost(i) == OpenSent(i)' = OpenSent(i) /\ CloseSent(i)' = CloseSent(i)

SameToClient(i) ==
    /\ DataDue(i)' = DataDue(i) /\ ExitDue(i)' = ExitDue(i)
    /\ RefusalDue(i)' = RefusalDue(i) /\ OpenedDue(i)' = OpenedDue(i)
    /\ OutputFirst(i) => OutputFirst(i)'

SameOpening(i) ==
    /\ InHand(i)' <=> InHand(i)
    /\ Unstarted(i)' <=> Unstarted(i)
    /\ LaunchInHand(i)' <=> LaunchInHand(i)

SameAtClient(i) ==
    /\ call'[i] = call[i] /\ events'[i] = events[i]
    /\ i \in routes' <=> i \in routes
    /\ i \in closing' <=> i \in closing
    /\ i \in late' <=> i \in late

SameAtHost(i) ==
    /\ written'[i] = written[i] /\ unread'[i] = unread[i]
    /\ i \in open' => i \in open
    /\ i \in shut' <=> i \in shut
    /\ i \in running' <=> i \in running
    /\ i \in waited' <=> i \in waited
    /\ i \in listed' <=> i \in listed

LEMMA SameQueues ==
    /\ UNCHANGED toHost => \A i \in Ids : SameToHost(i)
    /\ UNCHANGED toClient => \A i \in Ids : SameToClient(i)
    /\ UNCHANGED opening => \A i \in Ids : SameOpening(i)
BY DEF SameToHost, SameToClient, SameOpening, OpenSent, CloseSent, DataDue, ExitDue, RefusalDue,
       OpenedDue, OutputFirst, InHand, Unstarted, LaunchInHand

LEMMA SameTold ==
    ASSUME NEW i \in Ids, events'[i] = events[i]
    PROVE  DataTold(i)' = DataTold(i) /\ ExitTold(i)' = ExitTold(i) /\ ClosedTold(i)' = ClosedTold(i)
BY DEF DataTold, ExitTold, ClosedTold

\* A channel that a step leaves alone; a number goes out in order.
LEMMA ChannelLeftAlone ==
    ASSUME NEW i \in Ids, ChannelKept(i), SameToHost(i), SameToClient(i), SameOpening(i),
           SameAtClient(i), SameAtHost(i), UNCHANGED <<linked, serving>>, i > opens' => i > opens
    PROVE  ChannelKept(i)'
<1>1. /\ OpenSent(i)' = OpenSent(i) /\ CloseSent(i)' = CloseSent(i)
      /\ DataDue(i)' = DataDue(i) /\ ExitDue(i)' = ExitDue(i)
      /\ RefusalDue(i)' = RefusalDue(i) /\ OpenedDue(i)' = OpenedDue(i)
      /\ DataTold(i)' = DataTold(i) /\ ExitTold(i)' = ExitTold(i) /\ ClosedTold(i)' = ClosedTold(i)
  BY SameTold DEF SameToHost, SameToClient, SameAtClient
<1>2. Before(i)' <=> Before(i)
  BY <1>1 DEF Before, SameOpening
<1>3. Unborn(i)' /\ OpenedOnce(i)' /\ NotStarted(i)' /\ OnlyLaunched(i)'
  BY <1>1, <1>2 DEF ChannelKept, Unborn, OpenedOnce, NotStarted, OnlyLaunched, SameOpening,
                    SameAtClient, SameAtHost
<1>4. RouteIsLive(i)' /\ RouteIsServed(i)' /\ ServedIsRouted(i)'
  BY <1>1, <1>2 DEF ChannelKept, RouteIsLive, RouteIsServed, ServedIsRouted, SameOpening,
                    SameAtClient, SameAtHost
<1>5. EndIsSent(i)' /\ OutputFirst(i)' /\ OutputIsKept(i)' /\ EndIsTold(i)' /\ ClosedIsLast(i)'
  BY <1>1, <1>2 DEF ChannelKept, EndIsSent, OutputIsKept, EndIsTold, ClosedIsLast,
                    SameToClient, SameAtClient, SameAtHost
<1> QED
  BY <1>3, <1>4, <1>5 DEF ChannelKept

LEMMA EventsTold ==
    ASSUME CommandsTyped, NEW i \in Ids, NEW e \in EventKinds, events'[i] = Append(events[i], e)
    PROVE  /\ events'[i] \in Seq(EventKinds)
           /\ DataTold(i)' = DataTold(i) + (IF e = "Data" THEN 1 ELSE 0)
           /\ ExitTold(i)' = ExitTold(i) + (IF e = "Exited" THEN 1 ELSE 0)
           /\ ClosedTold(i)' = ClosedTold(i) + (IF e = "Closed" THEN 1 ELSE 0)
           /\ ClosedTold(i) = 0 => ClosedIsLast(i)'
<1>1. events[i] \in Seq(EventKinds)
  BY DEF CommandsTyped
<1>2. events'[i] \in Seq(EventKinds)
  BY <1>1, AppendProperties
<1>3. Count(Append(events[i], e), {"Data"}) = Count(events[i], {"Data"}) + (IF e \in {"Data"} THEN 1 ELSE 0)
  BY <1>1, CountOfAppend
<1>4. Count(Append(events[i], e), {"Exited"}) = Count(events[i], {"Exited"}) + (IF e \in {"Exited"} THEN 1 ELSE 0)
  BY <1>1, CountOfAppend
<1>5. Count(Append(events[i], e), {"Closed"}) = Count(events[i], {"Closed"}) + (IF e \in {"Closed"} THEN 1 ELSE 0)
  BY <1>1, CountOfAppend
<1>6. ASSUME ClosedTold(i) = 0
      PROVE  ClosedIsLast(i)'
  <2>1. NoneOf(events[i], {"Closed"})
    BY <1>1, <1>6, NoneCountsZero DEF ClosedTold
  <2>2. ASSUME NEW n \in DOMAIN events'[i], events'[i][n] = "Closed"
        PROVE  n = Len(events'[i])
    <3>1. n \in 1 .. Len(events[i]) => n \in Places(events[i], {"Closed"})
      BY <1>1, <2>2 DEF Places
    <3>2. n \notin 1 .. Len(events[i])
      BY <2>1, <3>1 DEF NoneOf
    <3> QED
      BY <1>1, <2>2, <3>2
  <2> QED
    BY <2>2 DEF ClosedIsLast
<1> QED
  BY <1>2, <1>3, <1>4, <1>5, <1>6 DEF DataTold, ExitTold, ClosedTold

\* The same message to an end that may be gone.
LEMMA Reached ==
    ASSUME CommandsTyped, NEW m \in HostMsgs, ToHost(m)
    PROVE  /\ toHost' \in Seq(HostMsgs)
           /\ \A i \in Ids : m.id # i \/ ~ serving => SameToHost(i)
           /\ \A i \in Ids : serving =>
                /\ OpenSent(i)' = OpenSent(i) + (IF m.type = "Open" /\ m.id = i THEN 1 ELSE 0)
                /\ CloseSent(i)' = CloseSent(i) + (IF m.type = "Close" /\ m.id = i THEN 1 ELSE 0)
<1>1. CASE serving
  <2>1. toHost' = Append(toHost, m) /\ toHost \in Seq(HostMsgs)
    BY <1>1 DEF ToHost, CommandsTyped
  <2>2. \A i \in Ids :
          /\ toHost' \in Seq(HostMsgs)
          /\ OpenSent(i)' = OpenSent(i) + (IF m.type = "Open" /\ m.id = i THEN 1 ELSE 0)
          /\ CloseSent(i)' = CloseSent(i) + (IF m.type = "Close" /\ m.id = i THEN 1 ELSE 0)
          /\ OpenSent(i) \in Nat /\ CloseSent(i) \in Nat
    BY <2>1, HostGrows, NumbersAreNatural
  <2>3. m.id \in Ids
    BY DEF HostMsgs
  <2> QED
    BY <1>1, <2>2, <2>3 DEF SameToHost
<1>2. CASE ~ serving
  <2>1. UNCHANGED toHost
    BY <1>2 DEF ToHost
  <2> QED
    BY <1>2, <2>1, SameQueues DEF CommandsTyped
<1> QED
  BY <1>1, <1>2

LEMMA Told ==
    ASSUME CommandsTyped, NEW m \in ClientMsgs, ToClient(<<m>>)
    PROVE  /\ toClient' \in Seq(ClientMsgs)
           /\ \A i \in Ids : m.id # i \/ ~ linked => SameToClient(i)
           /\ \A i \in Ids : linked =>
                /\ DataDue(i)' = DataDue(i) + (IF m.type = "Data" /\ m.id = i THEN 1 ELSE 0)
                /\ ExitDue(i)' = ExitDue(i) + (IF m.type = "Exited" /\ m.id = i THEN 1 ELSE 0)
                /\ RefusalDue(i)' = RefusalDue(i)
                     + (IF m.type \in {"Refused", "PasswordNeeded"} /\ m.id = i THEN 1 ELSE 0)
                /\ OpenedDue(i)' = OpenedDue(i) + (IF m.type = "Opened" /\ m.id = i THEN 1 ELSE 0)
                /\ OutputFirst(i) /\ (m.type = "Data" /\ m.id = i => ExitDue(i) = 0) => OutputFirst(i)'
<1>1. CASE linked
  <2>1. toClient' = Append(toClient, m) /\ toClient \in Seq(ClientMsgs)
    BY <1>1 DEF ToClient, CommandsTyped
  <2>2. \A i \in Ids :
           /\ toClient' \in Seq(ClientMsgs)
           /\ DataDue(i)' = DataDue(i) + (IF m.type = "Data" /\ m.id = i THEN 1 ELSE 0)
           /\ ExitDue(i)' = ExitDue(i) + (IF m.type = "Exited" /\ m.id = i THEN 1 ELSE 0)
           /\ RefusalDue(i)' = RefusalDue(i)
                + (IF m.type \in {"Refused", "PasswordNeeded"} /\ m.id = i THEN 1 ELSE 0)
           /\ OpenedDue(i)' = OpenedDue(i) + (IF m.type = "Opened" /\ m.id = i THEN 1 ELSE 0)
           /\ OutputFirst(i) /\ (m.type = "Data" /\ m.id = i => ExitDue(i) = 0) => OutputFirst(i)'
    BY <2>1, ClientGrows DEF DataDue, ExitDue, RefusalDue, OpenedDue, OutputFirst
  <2>3. \A i \in Ids : DataDue(i) \in Nat /\ ExitDue(i) \in Nat /\ RefusalDue(i) \in Nat /\ OpenedDue(i) \in Nat
    BY NumbersAreNatural
  <2>4. m.id \in Ids
    BY DEF ClientMsgs
  <2>5. ASSUME NEW i \in Ids, m.id # i
        PROVE  SameToClient(i)
    BY <2>2, <2>3, <2>5 DEF SameToClient
  <2> QED
    BY <1>1, <2>2, <2>4, <2>5
<1>2. CASE ~ linked
  <2>1. UNCHANGED toClient
    BY <1>2 DEF ToClient
  <2> QED
    BY <1>2, <2>1, SameQueues DEF CommandsTyped
<1> QED
  BY <1>1, <1>2

-----------------------------------------------------------------------------
(* The steps of the client.                                                  *)

LEMMA CommandsBegin == CommandsInit => CommandsInv
<1> SUFFICES ASSUME CommandsInit PROVE CommandsInv
  OBVIOUS
<1>1. MaxOpens \in Nat /\ MaxChunks \in Nat /\ 0 \in 0 .. MaxOpens /\ 0 \in 0 .. MaxChunks
  BY CommandsAssumption
<1>2. CommandsTyped
  BY <1>1, EmptySeq DEF CommandsInit, CommandsTyped
<1>3. HostIsTidy
  BY DEF CommandsInit, HostIsTidy
<1>4. ASSUME NEW i \in Ids
      PROVE  ChannelKept(i)
  <2>1. /\ toHost = <<>> /\ toClient = <<>> /\ events[i] = <<>>
        /\ call[i] = "no" /\ written[i] = 0 /\ unread[i] = 0
        /\ opening = {} /\ routes = {} /\ closing = {} /\ late = {} /\ open = {} /\ shut = {}
        /\ running = {} /\ waited = {} /\ listed = {}
    BY DEF CommandsInit
  <2>2. /\ OpenSent(i) = 0 /\ CloseSent(i) = 0
        /\ DataDue(i) = 0 /\ ExitDue(i) = 0 /\ RefusalDue(i) = 0 /\ OpenedDue(i) = 0
        /\ DataTold(i) = 0 /\ ExitTold(i) = 0
    BY <2>1, EmptyQueue DEF OpenSent, CloseSent, DataDue, ExitDue, RefusalDue, OpenedDue, DataTold, ExitTold
  <2>3. ~ InHand(i) /\ ~ Unstarted(i) /\ ~ LaunchInHand(i) /\ ~ Before(i)
    BY <2>1, <2>2 DEF InHand, Unstarted, LaunchInHand, Before
  <2>4. OutputFirst(i) /\ ClosedIsLast(i)
    BY <2>1 DEF OutputFirst, AllBefore, Places, ClosedIsLast
  <2> QED
    BY <2>1, <2>2, <2>3, <2>4
       DEF ChannelKept, Unborn, OpenedOnce, NotStarted, OnlyLaunched, RouteIsLive, RouteIsServed,
           ServedIsRouted, EndIsSent, OutputIsKept, EndIsTold
<1> QED
  BY <1>2, <1>3, <1>4 DEF CommandsInv

LEMMA OpenStep ==
    ASSUME CommandsInv, NEW kind \in ChannelKinds, Open(kind)
    PROVE  CommandsInv'
<1>1. CommandsTyped /\ HostIsTidy /\ \A i \in Ids : ChannelKept(i)
  BY DEF CommandsInv
<1>j. PICK j \in Ids : j = opens + 1
  <2>1. MaxOpens \in Nat
    BY CommandsAssumption
  <2> QED
    BY <1>1, <2>1 DEF Open, CommandsTyped, Ids
<1> DEFINE m == [type |-> "Open", id |-> j, kind |-> kind]
<1>2. j \in Ids /\ j \in 0 .. MaxOpens /\ opens \in Nat /\ m \in HostMsgs
  <2>1. MaxOpens \in Nat
    BY CommandsAssumption
  <2>2. j \in 0 .. MaxOpens /\ opens \in Nat
    BY <1>1, <1>j, <2>1 DEF CommandsTyped, Ids
  <2> QED
    BY <2>2 DEF HostMsgs
<1>3. /\ linked /\ opens' = j /\ routes' = routes \cup {j}
      /\ call' = [call EXCEPT ![j] = "waiting"]
      /\ ToHost(m)
      /\ UNCHANGED <<events, closing, linked, late, toClient, hostSide>>
  BY <1>j DEF Open
<1>4. /\ toHost' \in Seq(HostMsgs)
      /\ \A i \in Ids : i # j => SameToHost(i)
      /\ \A i \in Ids : ~ serving => SameToHost(i)
      /\ serving => OpenSent(j)' = OpenSent(j) + 1 /\ CloseSent(j)' = CloseSent(j)
  <2>1. m.type = "Open" /\ m.id = j
    OBVIOUS
  <2>2. CloseSent(j) \in Nat
    BY <1>1, <1>2, NumbersAreNatural
  <2> HIDE DEF m
  <2>3. /\ toHost' \in Seq(HostMsgs)
        /\ \A i \in Ids : i # j \/ ~ serving => SameToHost(i)
        /\ serving => /\ OpenSent(j)' = OpenSent(j) + (IF m.type = "Open" /\ m.id = j THEN 1 ELSE 0)
                      /\ CloseSent(j)' = CloseSent(j) + (IF m.type = "Close" /\ m.id = j THEN 1 ELSE 0)
    BY <1>1, <1>2, <1>3, <2>1, Reached
  <2> QED
    BY <2>1, <2>2, <2>3
<1>5. \A i \in Ids : SameToClient(i) /\ SameOpening(i) /\ SameAtHost(i)
  BY <1>3, SameQueues DEF hostSide, SameAtHost
<1>6. CommandsTyped'
  BY <1>1, <1>2, <1>3, <1>4 DEF CommandsTyped, hostSide
<1>7. HostIsTidy'
  BY <1>1, <1>3 DEF HostIsTidy, hostSide
<1> HIDE DEF m
<1>8. ASSUME NEW i \in Ids, i # j
      PROVE  ChannelKept(i)'
  <2>1. SameAtClient(i)
    BY <1>1, <1>2, <1>3, <1>8 DEF SameAtClient, CommandsTyped
  <2>2. i > opens' => i > opens
    BY <1>j, <1>2, <1>3, <1>8 DEF Ids
  <2> QED
    BY <1>1, <1>3, <1>4, <1>5, <1>8, <2>1, <2>2, ChannelLeftAlone DEF hostSide
<1>9. ChannelKept(j)'
  <2>1. j > opens /\ ~ (j > opens')
    BY <1>j, <1>2, <1>3
  <2>2. /\ OpenSent(j) = 0 /\ CloseSent(j) = 0
        /\ DataDue(j) = 0 /\ ExitDue(j) = 0 /\ RefusalDue(j) = 0 /\ OpenedDue(j) = 0
        /\ ~ InHand(j) /\ events[j] = <<>> /\ written[j] = 0 /\ unread[j] = 0
        /\ j \notin closing /\ j \notin late /\ j \notin open
        /\ j \notin shut /\ j \notin running /\ j \notin waited /\ j \notin listed
    BY <1>1, <1>2, <2>1 DEF ChannelKept, Unborn
  <2>3. /\ OpenSent(j)' <= 1 /\ (serving => OpenSent(j)' = 1) /\ CloseSent(j)' = 0
        /\ DataDue(j)' = 0 /\ ExitDue(j)' = 0 /\ RefusalDue(j)' = 0 /\ OpenedDue(j)' = 0
        /\ ~ InHand(j)' /\ ~ Unstarted(j)' /\ ~ LaunchInHand(j)'
    <3>1. ~ Unstarted(j) /\ ~ LaunchInHand(j)
      BY <2>2 DEF InHand, Unstarted, LaunchInHand
    <3> QED
      BY <1>1, <1>2, <1>4, <1>5, <2>2, <3>1 DEF SameToHost, SameToClient, SameOpening, CommandsTyped
  <2>4. /\ events'[j] = <<>> /\ DataTold(j)' = 0 /\ ExitTold(j)' = 0 /\ ClosedTold(j)' = 0
    BY <1>3, <2>2, EmptyQueue DEF DataTold, ExitTold, ClosedTold
  <2>5. /\ written'[j] = 0 /\ unread'[j] = 0 /\ call'[j] = "waiting" /\ linked'
        /\ j \notin closing' /\ j \notin late' /\ j \notin open' /\ j \notin shut'
        /\ j \notin running' /\ j \notin waited' /\ j \notin listed' /\ serving' = serving
    BY <1>1, <1>2, <1>3, <2>2 DEF hostSide, CommandsTyped
  <2>6. OutputFirst(j)' /\ ClosedIsLast(j)'
    BY <1>1, <1>2, <1>5, <2>4 DEF ChannelKept, SameToClient, ClosedIsLast
  <2>7. serving => Before(j)'
    BY <2>3 DEF Before
  <2>8. Unborn(j)' /\ OpenedOnce(j)' /\ NotStarted(j)' /\ OnlyLaunched(j)'
    BY <2>1, <2>3, <2>4, <2>5 DEF Unborn, OpenedOnce, NotStarted, OnlyLaunched, Answers
  <2>9. RouteIsLive(j)' /\ RouteIsServed(j)' /\ ServedIsRouted(j)'
    BY <1>3, <2>3, <2>4, <2>5, <2>7 DEF RouteIsLive, RouteIsServed, ServedIsRouted
  <2>10. EndIsSent(j)' /\ OutputIsKept(j)' /\ EndIsTold(j)'
    BY <2>3, <2>4, <2>5 DEF EndIsSent, OutputIsKept, EndIsTold
  <2> QED
    BY <2>6, <2>8, <2>9, <2>10 DEF ChannelKept
<1> QED
  BY <1>6, <1>7, <1>8, <1>9 DEF CommandsInv

LEMMA TimeOutStep ==
    ASSUME CommandsInv, NEW j \in Ids, OpenTimesOut(j)
    PROVE  CommandsInv'
<1>1. CommandsTyped /\ HostIsTidy /\ \A i \in Ids : ChannelKept(i)
  BY DEF CommandsInv
<1>2. /\ call' = [call EXCEPT ![j] = "silent"] /\ routes' = routes \ {j} /\ late' = late \cup {j}
      /\ UNCHANGED <<opens, events, closing, linked, toHost, toClient, hostSide>>
  BY DEF OpenTimesOut
<1>3. \A i \in Ids : SameToHost(i) /\ SameToClient(i) /\ SameOpening(i) /\ SameAtHost(i)
  BY <1>2, SameQueues DEF hostSide, SameAtHost
<1>4. CommandsTyped'
  BY <1>1, <1>2 DEF CommandsTyped, hostSide
<1>5. HostIsTidy'
  BY <1>1, <1>2 DEF HostIsTidy, hostSide
<1>6. ASSUME NEW i \in Ids, i # j
      PROVE  ChannelKept(i)'
  <2>1. SameAtClient(i)
    BY <1>1, <1>2, <1>6 DEF SameAtClient, CommandsTyped
  <2> QED
    BY <1>1, <1>2, <1>3, <2>1, ChannelLeftAlone DEF hostSide
<1>7. ChannelKept(j)'
  <2>1. /\ OpenSent(j)' = OpenSent(j) /\ CloseSent(j)' = CloseSent(j)
        /\ DataDue(j)' = DataDue(j) /\ ExitDue(j)' = ExitDue(j)
        /\ RefusalDue(j)' = RefusalDue(j) /\ OpenedDue(j)' = OpenedDue(j)
        /\ DataTold(j)' = DataTold(j) /\ ExitTold(j)' = ExitTold(j) /\ ClosedTold(j)' = ClosedTold(j)
        /\ (OutputFirst(j) => OutputFirst(j)') /\ events'[j] = events[j]
    BY <1>2, <1>3, SameTold DEF SameToHost, SameToClient
  <2>2. /\ Before(j)' <=> Before(j)
        /\ InHand(j)' <=> InHand(j)
        /\ LaunchInHand(j)' <=> LaunchInHand(j)
    BY <1>3, <2>1 DEF Before, SameOpening
  <2>3. call'[j] = "silent" /\ j \notin routes' /\ j \in late' /\ call[j] = "waiting"
    BY <1>1, <1>2 DEF CommandsTyped, OpenTimesOut
  <2>4. Unborn(j)' /\ OpenedOnce(j)' /\ NotStarted(j)' /\ OnlyLaunched(j)'
    BY <1>1, <1>2, <1>3, <2>1, <2>2, <2>3
       DEF ChannelKept, Unborn, OpenedOnce, NotStarted, OnlyLaunched, SameAtHost, Answers
  <2>5. RouteIsLive(j)' /\ RouteIsServed(j)' /\ ServedIsRouted(j)' /\ OutputIsKept(j)'
    BY <2>3 DEF RouteIsLive, RouteIsServed, ServedIsRouted, OutputIsKept
  <2>6. EndIsSent(j)' /\ OutputFirst(j)' /\ EndIsTold(j)' /\ ClosedIsLast(j)'
    BY <1>1, <1>3, <2>1, <2>2, <2>3 DEF ChannelKept, EndIsSent, EndIsTold, ClosedIsLast, SameAtHost
  <2> QED
    BY <2>4, <2>5, <2>6 DEF ChannelKept
<1> QED
  BY <1>4, <1>5, <1>6, <1>7 DEF CommandsInv

LEMMA CloseStep ==
    ASSUME CommandsInv, NEW j \in Ids, CloseChannel(j)
    PROVE  CommandsInv'
<1>1. CommandsTyped /\ HostIsTidy /\ \A i \in Ids : ChannelKept(i)
  BY DEF CommandsInv
<1>2. /\ closing' = closing \cup {j} /\ call[j] = "Opened"
      /\ UNCHANGED <<opens, call, routes, events, linked, late, toHost, toClient, hostSide>>
  BY DEF CloseChannel
<1>3. \A i \in Ids : SameToHost(i) /\ SameToClient(i) /\ SameOpening(i) /\ SameAtHost(i)
  BY <1>2, SameQueues DEF hostSide, SameAtHost
<1>4. CommandsTyped'
  BY <1>1, <1>2 DEF CommandsTyped, hostSide
<1>5. HostIsTidy'
  BY <1>1, <1>2 DEF HostIsTidy, hostSide
<1>6. ASSUME NEW i \in Ids, i # j
      PROVE  ChannelKept(i)'
  <2>1. SameAtClient(i)
    BY <1>2, <1>6 DEF SameAtClient
  <2> QED
    BY <1>1, <1>2, <1>3, <2>1, ChannelLeftAlone DEF hostSide
<1>7. ChannelKept(j)'
  <2>1. /\ OpenSent(j)' = OpenSent(j) /\ CloseSent(j)' = CloseSent(j)
        /\ DataDue(j)' = DataDue(j) /\ ExitDue(j)' = ExitDue(j)
        /\ RefusalDue(j)' = RefusalDue(j) /\ OpenedDue(j)' = OpenedDue(j)
        /\ DataTold(j)' = DataTold(j) /\ ExitTold(j)' = ExitTold(j) /\ ClosedTold(j)' = ClosedTold(j)
        /\ (OutputFirst(j) => OutputFirst(j)') /\ events'[j] = events[j]
    BY <1>2, <1>3, SameTold DEF SameToHost, SameToClient
  <2>2. /\ Before(j)' <=> Before(j)
        /\ InHand(j)' <=> InHand(j)
        /\ LaunchInHand(j)' <=> LaunchInHand(j)
    BY <1>3, <2>1 DEF Before, SameOpening
  <2>3. ~ Before(j) /\ ~ (j > opens)
    BY <1>1, <1>2 DEF ChannelKept, NotStarted, Unborn, Answers
  <2>4. Unborn(j)' /\ OpenedOnce(j)' /\ NotStarted(j)' /\ OnlyLaunched(j)'
    BY <1>1, <1>2, <1>3, <2>1, <2>2, <2>3
       DEF ChannelKept, Unborn, OpenedOnce, NotStarted, OnlyLaunched, SameAtHost
  <2>5. RouteIsLive(j)' /\ RouteIsServed(j)' /\ ServedIsRouted(j)'
    BY <1>1, <1>2, <1>3, <2>1, <2>2
       DEF ChannelKept, RouteIsLive, RouteIsServed, ServedIsRouted, SameAtHost, hostSide
  <2>6. EndIsSent(j)' /\ OutputFirst(j)' /\ OutputIsKept(j)' /\ EndIsTold(j)' /\ ClosedIsLast(j)'
    BY <1>1, <1>2, <1>3, <2>1, <2>2
       DEF ChannelKept, EndIsSent, OutputIsKept, EndIsTold, ClosedIsLast, SameAtHost, hostSide
  <2> QED
    BY <2>4, <2>5, <2>6 DEF ChannelKept
<1> QED
  BY <1>4, <1>5, <1>6, <1>7 DEF CommandsInv

LEMMA ForwardStep ==
    ASSUME CommandsInv, NEW j \in Ids, Forward(j)
    PROVE  CommandsInv'
<1> DEFINE m == Message("Close", j)
<1>1. CommandsTyped /\ HostIsTidy /\ \A i \in Ids : ChannelKept(i)
  BY DEF CommandsInv
<1>2. /\ j \in closing /\ closing' = closing \ {j} /\ call' = [call EXCEPT ![j] = "ended"]
      /\ ToHost(m) /\ routes' = routes \ {j}
      /\ events' = [events EXCEPT ![j] = IF j \in routes THEN Append(@, "Closed") ELSE @]
      /\ UNCHANGED <<opens, linked, late, toClient, hostSide>>
  BY DEF Forward
<1>3. m \in HostMsgs /\ m.type = "Close" /\ m.id = j
  BY DEF Message, HostMsgs
<1> HIDE DEF m
<1>4. /\ toHost' \in Seq(HostMsgs)
      /\ \A i \in Ids : i # j => SameToHost(i)
      /\ OpenSent(j)' = OpenSent(j)
      /\ serving => CloseSent(j)' = CloseSent(j) + 1
      /\ ~ serving => CloseSent(j)' = CloseSent(j)
  <2>1. OpenSent(j) \in Nat
    BY <1>1, NumbersAreNatural
  <2>2. /\ toHost' \in Seq(HostMsgs)
        /\ \A i \in Ids : i # j \/ ~ serving => SameToHost(i)
        /\ serving => /\ OpenSent(j)' = OpenSent(j) + (IF m.type = "Open" /\ m.id = j THEN 1 ELSE 0)
                      /\ CloseSent(j)' = CloseSent(j) + (IF m.type = "Close" /\ m.id = j THEN 1 ELSE 0)
    BY <1>1, <1>2, <1>3, Reached
  <2>3. ~ serving => OpenSent(j)' = OpenSent(j) /\ CloseSent(j)' = CloseSent(j)
    BY <2>2 DEF SameToHost
  <2> QED
    BY <1>3, <2>1, <2>2, <2>3
<1>5. \A i \in Ids : SameToClient(i) /\ SameOpening(i) /\ SameAtHost(i)
  BY <1>2, SameQueues DEF hostSide, SameAtHost
<1>6. /\ events'[j] = IF j \in routes THEN Append(events[j], "Closed") ELSE events[j]
      /\ \A i \in Ids : i # j => events'[i] = events[i]
      /\ "Closed" \in EventKinds
  BY <1>1, <1>2 DEF CommandsTyped, EventKinds
<1>7. events' \in [Ids -> Seq(EventKinds)]
  <2>1. events'[j] \in Seq(EventKinds)
    BY <1>1, <1>6, EventsTold DEF CommandsTyped
  <2> QED
    BY <1>1, <1>2, <1>6, <2>1 DEF CommandsTyped
<1>8. CommandsTyped'
  BY <1>1, <1>2, <1>4, <1>7 DEF CommandsTyped, hostSide
<1>9. HostIsTidy'
  BY <1>1, <1>2 DEF HostIsTidy, hostSide
<1>10. ASSUME NEW i \in Ids, i # j
       PROVE  ChannelKept(i)'
  <2>1. SameAtClient(i)
    BY <1>1, <1>2, <1>6, <1>10 DEF SameAtClient, CommandsTyped
  <2> QED
    BY <1>1, <1>2, <1>4, <1>5, <1>10, <2>1, ChannelLeftAlone DEF hostSide
<1>11. ChannelKept(j)'
  <2>1. /\ DataDue(j)' = DataDue(j) /\ ExitDue(j)' = ExitDue(j)
        /\ RefusalDue(j)' = RefusalDue(j) /\ OpenedDue(j)' = OpenedDue(j)
        /\ OutputFirst(j) => OutputFirst(j)'
    BY <1>5 DEF SameToClient
  <2>2. DataTold(j)' = DataTold(j) /\ ExitTold(j)' = ExitTold(j)
    <3>1. CASE j \in routes
      <4>1. DataTold(j) \in Nat /\ ExitTold(j) \in Nat
        BY <1>1, NumbersAreNatural
      <4>2. /\ DataTold(j)' = DataTold(j) + (IF "Closed" = "Data" THEN 1 ELSE 0)
            /\ ExitTold(j)' = ExitTold(j) + (IF "Closed" = "Exited" THEN 1 ELSE 0)
        BY <1>1, <1>6, <3>1, EventsTold
      <4> QED
        BY <4>1, <4>2
    <3>2. CASE j \notin routes
      BY <1>6, <3>2, SameTold
    <3> QED
      BY <3>1, <3>2
  <2>3. ClosedIsLast(j)'
    <3>1. CASE j \in routes
      BY <1>1, <1>6, <3>1, EventsTold DEF ChannelKept, RouteIsLive
    <3>2. CASE j \notin routes
      BY <1>1, <1>6, <3>2 DEF ChannelKept, ClosedIsLast
    <3> QED
      BY <3>1, <3>2
  <2>4. /\ Before(j)' <=> Before(j)
        /\ InHand(j)' <=> InHand(j)
        /\ LaunchInHand(j)' <=> LaunchInHand(j)
    BY <1>4, <1>5 DEF Before, SameOpening
  <2>5. ~ Before(j) /\ ~ (j > opens)
    BY <1>1, <1>2 DEF ChannelKept, NotStarted, Unborn
  <2>6. j \notin routes' /\ (serving => CloseSent(j)' > 0)
    <3>1. CloseSent(j) \in Nat
      BY <1>1, NumbersAreNatural
    <3> QED
      BY <1>2, <1>4, <3>1
  <2>7. Unborn(j)' /\ OpenedOnce(j)' /\ NotStarted(j)' /\ OnlyLaunched(j)'
    BY <1>1, <1>2, <1>4, <1>5, <2>4, <2>5
       DEF ChannelKept, Unborn, OpenedOnce, NotStarted, OnlyLaunched, SameAtHost
  <2>8. RouteIsLive(j)' /\ RouteIsServed(j)' /\ ServedIsRouted(j)' /\ OutputIsKept(j)'
    BY <1>2, <2>6 DEF RouteIsLive, RouteIsServed, ServedIsRouted, OutputIsKept, hostSide
  <2>9. EndIsSent(j)' /\ OutputFirst(j)' /\ EndIsTold(j)'
    BY <1>1, <1>5, <2>1, <2>2, <2>4, <2>6 DEF ChannelKept, EndIsSent, EndIsTold, SameAtHost
  <2> QED
    BY <2>3, <2>7, <2>8, <2>9 DEF ChannelKept
<1> QED
  BY <1>8, <1>9, <1>10, <1>11 DEF CommandsInv

LEMMA ClientEndsStep ==
    ASSUME CommandsInv, ClientEnds
    PROVE  CommandsInv'
<1>1. CommandsTyped /\ HostIsTidy /\ \A i \in Ids : ChannelKept(i)
  BY DEF CommandsInv
<1>2. /\ linked' = FALSE /\ routes' = {} /\ toClient' = <<>>
      /\ call' = [i \in Ids |-> IF call[i] = "waiting" /\ i \in routes THEN "ended" ELSE call[i]]
      /\ events' = [i \in Ids |-> IF i \in routes THEN Append(events[i], "Closed") ELSE events[i]]
      /\ UNCHANGED <<opens, closing, late, toHost, hostSide>>
  BY DEF ClientEnds
<1>3. \A i \in Ids : SameToHost(i) /\ SameOpening(i) /\ SameAtHost(i)
  BY <1>2, SameQueues DEF hostSide, SameAtHost
<1>4. ASSUME NEW i \in Ids
      PROVE  events'[i] \in Seq(EventKinds) /\ ChannelKept(i)'
  <2>1. /\ DataDue(i)' = 0 /\ ExitDue(i)' = 0 /\ RefusalDue(i)' = 0 /\ OpenedDue(i)' = 0
        /\ OutputFirst(i)'
    BY <1>2, EmptyQueue DEF DataDue, ExitDue, RefusalDue, OpenedDue, OutputFirst, AllBefore, NoneOf
  <2>2. /\ events'[i] \in Seq(EventKinds) /\ ClosedIsLast(i)'
        /\ DataTold(i)' = DataTold(i) /\ ExitTold(i)' = ExitTold(i)
    <3>1. CASE i \in routes
      <4>1. DataTold(i) \in Nat /\ ExitTold(i) \in Nat /\ ClosedTold(i) = 0
        BY <1>1, <3>1, NumbersAreNatural DEF ChannelKept, RouteIsLive
      <4>2. events'[i] = Append(events[i], "Closed") /\ "Closed" \in EventKinds
        BY <1>2, <3>1 DEF EventKinds
      <4>3. /\ DataTold(i)' = DataTold(i) + (IF "Closed" = "Data" THEN 1 ELSE 0)
            /\ ExitTold(i)' = ExitTold(i) + (IF "Closed" = "Exited" THEN 1 ELSE 0)
            /\ events'[i] \in Seq(EventKinds) /\ ClosedIsLast(i)'
        BY <1>1, <4>1, <4>2, EventsTold
      <4> QED
        BY <4>1, <4>3
    <3>2. CASE i \notin routes
      BY <1>1, <1>2, <3>2, SameTold DEF CommandsTyped, ChannelKept, ClosedIsLast
    <3> QED
      BY <3>1, <3>2
  <2>3. /\ Before(i)' <=> Before(i)
        /\ InHand(i)' <=> InHand(i)
        /\ LaunchInHand(i)' <=> LaunchInHand(i)
        /\ OpenSent(i)' = OpenSent(i) /\ CloseSent(i)' = CloseSent(i)
    BY <1>3 DEF Before, SameOpening, SameToHost
  <2>4. /\ call'[i] \in {call[i], "ended"} /\ (i \notin routes => call'[i] = call[i] /\ events'[i] = events[i])
        /\ i \notin routes'
    BY <1>2
  <2>5. Unborn(i)' /\ OpenedOnce(i)' /\ NotStarted(i)' /\ OnlyLaunched(i)'
    BY <1>1, <1>2, <1>3, <2>1, <2>2, <2>3, <2>4
       DEF ChannelKept, Unborn, OpenedOnce, NotStarted, OnlyLaunched, SameAtHost, Answers
  <2>6. RouteIsLive(i)' /\ RouteIsServed(i)' /\ ServedIsRouted(i)' /\ OutputIsKept(i)'
    BY <1>2 DEF RouteIsLive, RouteIsServed, ServedIsRouted, OutputIsKept
  <2>7. EndIsSent(i)' /\ EndIsTold(i)'
    BY <1>1, <1>3, <2>1, <2>2, <2>3, <2>4 DEF ChannelKept, EndIsSent, EndIsTold, SameAtHost
  <2> QED
    BY <2>1, <2>2, <2>5, <2>6, <2>7 DEF ChannelKept
<1>5. CommandsTyped'
  <2>1. events' \in [Ids -> Seq(EventKinds)]
    BY <1>2, <1>4
  <2>2. call' \in [Ids -> {"no", "waiting", "silent", "ended"} \cup Answers]
    BY <1>1, <1>2 DEF CommandsTyped
  <2> QED
    BY <1>1, <1>2, <2>1, <2>2, EmptySeq DEF CommandsTyped, hostSide
<1>6. HostIsTidy'
  BY <1>1, <1>2 DEF HostIsTidy, hostSide
<1> QED
  BY <1>4, <1>5, <1>6 DEF CommandsInv

\* Two events at once: an exit and the end.
LEMMA ExitAndEnd ==
    ASSUME NEW e \in Seq(EventKinds)
    PROVE  /\ e \o <<"Exited", "Closed">> \in Seq(EventKinds)
           /\ Count(e \o <<"Exited", "Closed">>, {"Data"}) = Count(e, {"Data"})
           /\ Count(e, {"Closed"}) = 0
                => \A n \in DOMAIN (e \o <<"Exited", "Closed">>) :
                     (e \o <<"Exited", "Closed">>)[n] = "Closed" => n = Len(e \o <<"Exited", "Closed">>)
<1> DEFINE d == Append(e, "Exited")
           f == Append(d, "Closed")
<1>1. d \in Seq(EventKinds) /\ f \in Seq(EventKinds) /\ "Exited" \in EventKinds /\ "Closed" \in EventKinds
  BY AppendProperties DEF EventKinds
<1>2. e \o <<"Exited", "Closed">> = f
  OBVIOUS
<1>3. Count(d, {"Data"}) = Count(e, {"Data"}) + (IF "Exited" \in {"Data"} THEN 1 ELSE 0)
  BY <1>1, CountOfAppend
<1> HIDE DEF d
<1>4. Count(f, {"Data"}) = Count(d, {"Data"}) + (IF "Closed" \in {"Data"} THEN 1 ELSE 0)
  BY <1>1, CountOfAppend
<1>5. Count(e, {"Data"}) \in Nat /\ Count(d, {"Data"}) \in Nat
  BY <1>1, PlacesAreFinite
<1>6. ASSUME Count(e, {"Closed"}) = 0, NEW n \in DOMAIN f, f[n] = "Closed"
      PROVE  n = Len(f)
  <2>1. NoneOf(d, {"Closed"})
    <3>1. NoneOf(e, {"Closed"})
      BY <1>6, NoneCountsZero
    <3> QED
      BY <1>1, <3>1, OneOfAppend DEF d
  <2>2. n \in 1 .. Len(d) => n \in Places(d, {"Closed"})
    BY <1>1, <1>6 DEF Places
  <2> QED
    BY <1>1, <1>6, <2>1, <2>2 DEF NoneOf
<1>7. Count(f, {"Data"}) = Count(e, {"Data"})
  BY <1>3, <1>4, <1>5
<1>8. Count(e, {"Closed"}) = 0 => \A n \in DOMAIN f : f[n] = "Closed" => n = Len(f)
  BY <1>6
<1> HIDE DEF f
<1> QED
  BY <1>1, <1>2, <1>7, <1>8

LEMMA HandleStep ==
    ASSUME CommandsInv, Handle
    PROVE  CommandsInv'
<1>1. CommandsTyped /\ HostIsTidy /\ \A i \in Ids : ChannelKept(i)
  BY DEF CommandsInv
<1>2. PICK m \in ClientMsgs : m = Head(toClient)
  <2>1. toClient \in Seq(ClientMsgs) /\ toClient # <<>>
    BY <1>1 DEF Handle, CommandsTyped
  <2>2. Head(toClient) \in ClientMsgs
    BY <2>1, HeadTailProperties
  <2> QED
    BY <2>2
<1>3. PICK j \in Ids : j = m.id
  BY DEF ClientMsgs
<1>4. /\ toClient # <<>> /\ toClient' = Tail(toClient) /\ linked
      /\ routes' = IF m.type \in {"Opened", "Data"} THEN routes ELSE routes \ {j}
      /\ call' = [call EXCEPT ![j] =
             IF j \notin routes \/ @ # "waiting" \/ m.type = "Data" THEN @
             ELSE IF m.type = "Exited" THEN "silent" ELSE m.type]
      /\ events' = [events EXCEPT ![j] =
             IF j \notin routes \/ m.type \in Answers THEN @
             ELSE IF m.type = "Exited" THEN @ \o <<"Exited", "Closed">>
             ELSE Append(@, "Data")]
      /\ closing' = IF j \in routes /\ m.type = "PasswordNeeded" THEN closing \cup {j} ELSE closing
      /\ UNCHANGED <<opens, linked, late, toHost, hostSide>>
  BY <1>2, <1>3 DEF Handle
<1>5. m.type \in {"Opened", "PasswordNeeded", "Refused", "Data", "Exited"}
  BY DEF ClientMsgs, Answers
<1>6. \A i \in Ids : SameToHost(i) /\ SameOpening(i) /\ SameAtHost(i)
  BY <1>4, SameQueues DEF hostSide, SameAtHost
<1>7. ASSUME NEW i \in Ids
      PROVE  /\ toClient' \in Seq(ClientMsgs)
             /\ DataDue(i) = DataDue(i)' + (IF m.type = "Data" /\ j = i THEN 1 ELSE 0)
             /\ ExitDue(i) = ExitDue(i)' + (IF m.type = "Exited" /\ j = i THEN 1 ELSE 0)
             /\ RefusalDue(i) = RefusalDue(i)'
                  + (IF m.type \in {"Refused", "PasswordNeeded"} /\ j = i THEN 1 ELSE 0)
             /\ OpenedDue(i) = OpenedDue(i)' + (IF m.type = "Opened" /\ j = i THEN 1 ELSE 0)
             /\ DataDue(i)' \in Nat /\ ExitDue(i)' \in Nat /\ RefusalDue(i)' \in Nat /\ OpenedDue(i)' \in Nat
             /\ OutputFirst(i)'
             /\ m.type = "Exited" /\ j = i => DataDue(i)' = 0
  <2>1. OutputFirst(i) /\ toClient \in Seq(ClientMsgs)
    BY <1>1 DEF ChannelKept, CommandsTyped
  <2> QED
    BY <1>2, <1>3, <1>4, <2>1, ClientShrinks
<1>8. ASSUME NEW i \in Ids, i # j
      PROVE  ChannelKept(i)'
  <2>1. SameAtClient(i)
    BY <1>1, <1>4, <1>8 DEF SameAtClient, CommandsTyped
  <2>2. SameToClient(i)
    BY <1>7, <1>8 DEF SameToClient
  <2> QED
    BY <1>1, <1>4, <1>6, <1>8, <2>1, <2>2, ChannelLeftAlone DEF hostSide
\* What the message says of its channel.
<1>9. /\ ~ Before(j) /\ ~ (j > opens)
      /\ m.type \in {"Exited", "Refused", "PasswordNeeded"} => j \notin running
      /\ m.type = "Exited" => unread[j] = 0 /\ ExitDue(j) > 0
  <2>1. /\ m.type = "Data" => DataDue(j) > 0
        /\ m.type = "Exited" => ExitDue(j) > 0
        /\ m.type \in {"Refused", "PasswordNeeded"} => RefusalDue(j) > 0
        /\ m.type = "Opened" => OpenedDue(j) > 0
    BY <1>7
  <2>2. NotStarted(j) /\ Unborn(j) /\ EndIsSent(j)
    BY <1>1 DEF ChannelKept
  <2>3. ~ Before(j) /\ ~ (j > opens)
    BY <1>5, <2>1, <2>2 DEF NotStarted, Unborn
  <2>4. ExitDue(j) \in Nat /\ RefusalDue(j) \in Nat
    BY <1>1, NumbersAreNatural
  <2> QED
    BY <1>5, <2>1, <2>2, <2>3, <2>4 DEF EndIsSent
<1>10. /\ events'[j] \in Seq(EventKinds) /\ ClosedIsLast(j)'
       /\ j \in routes /\ m.type = "Data"
            => DataTold(j)' = DataTold(j) + 1 /\ ExitTold(j)' = ExitTold(j) /\ ClosedTold(j)' = ClosedTold(j)
       /\ j \in routes /\ m.type = "Exited" => DataTold(j)' = DataTold(j)
       /\ j \notin routes \/ m.type \in Answers
            => DataTold(j)' = DataTold(j) /\ ExitTold(j)' = ExitTold(j) /\ ClosedTold(j)' = ClosedTold(j)
  <2>1. events[j] \in Seq(EventKinds) /\ ClosedIsLast(j) /\ (j \in routes => ClosedTold(j) = 0)
    BY <1>1 DEF CommandsTyped, ChannelKept, RouteIsLive
  <2>2. CASE j \notin routes \/ m.type \in Answers
    <3>1. events'[j] = events[j]
      BY <1>1, <1>4, <2>2 DEF CommandsTyped
    <3>2. ClosedIsLast(j)'
      BY <2>1, <3>1 DEF ClosedIsLast
    <3> QED
      BY <2>1, <2>2, <3>1, <3>2, SameTold DEF Answers
  <2>3. CASE j \in routes /\ m.type = "Data"
    <3>1. events'[j] = Append(events[j], "Data") /\ "Data" \in EventKinds
      BY <1>1, <1>4, <2>3 DEF CommandsTyped, Answers, EventKinds
    <3>2. /\ events'[j] \in Seq(EventKinds)
          /\ DataTold(j)' = DataTold(j) + (IF "Data" = "Data" THEN 1 ELSE 0)
          /\ ExitTold(j)' = ExitTold(j) + (IF "Data" = "Exited" THEN 1 ELSE 0)
          /\ ClosedTold(j)' = ClosedTold(j) + (IF "Data" = "Closed" THEN 1 ELSE 0)
          /\ ClosedIsLast(j)'
      BY <1>1, <2>1, <2>3, <3>1, EventsTold
    <3>3. ExitTold(j) \in Nat /\ ClosedTold(j) \in Nat
      BY <1>1, NumbersAreNatural
    <3> QED
      BY <2>3, <3>2, <3>3 DEF Answers
  <2>4. CASE j \in routes /\ m.type = "Exited"
    <3>1. events'[j] = events[j] \o <<"Exited", "Closed">>
      BY <1>1, <1>4, <2>4 DEF CommandsTyped, Answers
    <3>2. events'[j] \in Seq(EventKinds) /\ DataTold(j)' = DataTold(j)
      BY <2>1, <3>1, ExitAndEnd DEF DataTold
    <3>3. ClosedIsLast(j)'
      BY <2>1, <2>4, <3>1, ExitAndEnd DEF ClosedTold, ClosedIsLast
    <3> QED
      BY <2>4, <3>2, <3>3 DEF Answers
  <2> QED
    BY <1>5, <2>2, <2>3, <2>4 DEF Answers
<1>11. ChannelKept(j)'
  <2>1. /\ DataDue(j)' \in Nat /\ ExitDue(j)' \in Nat /\ RefusalDue(j)' \in Nat /\ OpenedDue(j)' \in Nat
        /\ DataTold(j) \in Nat /\ ExitTold(j) \in Nat /\ unread[j] \in Nat /\ written[j] \in Nat
    BY <1>1, <1>7, NumbersAreNatural
  <2>2. /\ ~ Before(j)'
        /\ InHand(j)' <=> InHand(j)
        /\ LaunchInHand(j)' <=> LaunchInHand(j)
        /\ OpenSent(j)' = OpenSent(j) /\ CloseSent(j)' = CloseSent(j)
        /\ opens' = opens /\ linked' = linked /\ serving' = serving /\ late' = late
    BY <1>4, <1>6, <1>9 DEF Before, SameOpening, SameToHost, hostSide
  <2>3. /\ j \in routes' <=> j \in routes /\ m.type \in {"Opened", "Data"}
    BY <1>4
  <2>4. /\ ExitDue(j)' > 0 => ExitDue(j) > 0
        /\ RefusalDue(j)' > 0 => RefusalDue(j) > 0
        /\ m.type \in {"Opened", "Data"} => ExitDue(j)' = ExitDue(j) /\ RefusalDue(j)' = RefusalDue(j)
    BY <1>7, <2>1
  <2>5. Unborn(j)' /\ OpenedOnce(j)' /\ NotStarted(j)' /\ OnlyLaunched(j)'
    BY <1>1, <1>6, <1>9, <2>2 DEF ChannelKept, Unborn, OpenedOnce, NotStarted, OnlyLaunched, SameAtHost
  <2>6. RouteIsLive(j)'
    BY <1>1, <1>6, <1>10, <2>2, <2>3 DEF ChannelKept, RouteIsLive, SameAtHost, Answers
  <2>7. RouteIsServed(j)'
    BY <1>1, <1>6, <1>9, <2>2, <2>3, <2>4 DEF ChannelKept, RouteIsServed, SameAtHost
  <2>8. ServedIsRouted(j)'
    BY <1>1, <1>5, <1>6, <1>9, <2>2, <2>3 DEF ChannelKept, ServedIsRouted, SameAtHost
  <2>9. EndIsSent(j)'
    BY <1>1, <1>6, <1>9, <2>2, <2>4 DEF ChannelKept, EndIsSent, SameAtHost
  <2>10. OutputIsKept(j)'
    <3> SUFFICES ASSUME j \in routes', serving' \/ ExitDue(j)' > 0
                 PROVE  DataTold(j)' + DataDue(j)' + unread'[j] = written'[j]
      BY DEF OutputIsKept
    <3>1. DataTold(j) + DataDue(j) + unread[j] = written[j]
      BY <1>1, <2>2, <2>3, <2>4 DEF ChannelKept, OutputIsKept
    <3>2. unread'[j] = unread[j] /\ written'[j] = written[j]
      BY <1>6 DEF SameAtHost
    <3>3. CASE m.type = "Data"
      <4>1. DataTold(j)' = DataTold(j) + 1 /\ DataDue(j) = DataDue(j)' + 1
        BY <1>7, <1>10, <2>3, <3>3
      <4> QED
        BY <2>1, <3>1, <3>2, <4>1
    <3>4. CASE m.type = "Opened"
      <4>1. DataTold(j)' = DataTold(j) /\ DataDue(j) = DataDue(j)'
        BY <1>7, <1>10, <2>1, <3>4 DEF Answers
      <4> QED
        BY <2>1, <3>1, <3>2, <4>1
    <3> QED
      BY <2>3, <3>3, <3>4
  <2>11. EndIsTold(j)'
    <3>1. unread'[j] = unread[j] /\ written'[j] = written[j] /\ (j \in running' <=> j \in running)
      BY <1>6 DEF SameAtHost
    <3>2. CASE j \in routes /\ m.type = "Exited"
      <4>1. DataTold(j) + DataDue(j) + unread[j] = written[j]
        BY <1>1, <1>9, <3>2 DEF ChannelKept, OutputIsKept
      <4>2. DataDue(j) = 0 /\ unread[j] = 0 /\ DataTold(j)' = DataTold(j)
        BY <1>7, <1>9, <1>10, <3>2
      <4>3. DataTold(j)' = written'[j]
        BY <2>1, <3>1, <4>1, <4>2
      <4> QED
        BY <1>9, <2>2, <2>3, <3>1, <3>2, <4>3 DEF EndIsTold
    <3>3. CASE j \in routes /\ m.type # "Exited"
      <4>1. ExitTold(j)' = 0
        BY <1>1, <1>5, <1>10, <3>3 DEF ChannelKept, RouteIsLive, Answers
      <4> QED
        BY <4>1 DEF EndIsTold
    <3>4. CASE j \notin routes
      BY <1>1, <1>10, <2>2, <2>3, <3>1, <3>4 DEF ChannelKept, EndIsTold
    <3> QED
      BY <3>2, <3>3, <3>4
  <2> QED
    BY <1>7, <1>10, <2>5, <2>6, <2>7, <2>8, <2>9, <2>10, <2>11 DEF ChannelKept
<1>12. CommandsTyped'
  <2>1. events' \in [Ids -> Seq(EventKinds)]
    BY <1>1, <1>4, <1>10 DEF CommandsTyped
  <2>2. call' \in [Ids -> {"no", "waiting", "silent", "ended"} \cup Answers]
    BY <1>1, <1>4, <1>5 DEF CommandsTyped, Answers
  <2> QED
    BY <1>1, <1>4, <1>7, <2>1, <2>2 DEF CommandsTyped, hostSide
<1>13. HostIsTidy'
  BY <1>1, <1>4 DEF HostIsTidy, hostSide
<1> QED
  BY <1>8, <1>11, <1>12, <1>13 DEF CommandsInv

-----------------------------------------------------------------------------
(* The steps of the host.                                                    *)

LEMMA TakeStep ==
    ASSUME CommandsInv, NEW refuse \in {"no", "Refused", "PasswordNeeded"}, Take(refuse)
    PROVE  CommandsInv'
<1>1. CommandsTyped /\ HostIsTidy /\ \A i \in Ids : ChannelKept(i)
  BY DEF CommandsInv
<1>2. PICK m \in HostMsgs : m = Head(toHost) /\ m.type = "Open" /\ m.kind \in ChannelKinds
  <2>1. toHost \in Seq(HostMsgs) /\ toHost # <<>> /\ Head(toHost).type = "Open"
    BY <1>1 DEF Take, CommandsTyped
  <2>2. Head(toHost) \in HostMsgs
    BY <2>1, HeadTailProperties
  <2> QED
    BY <2>1, <2>2 DEF HostMsgs
<1>3. PICK j \in Ids : j = m.id
  BY DEF HostMsgs
<1>4. PICK rest \in SUBSET Ids : rest = IF m.kind = "RemoteApp" THEN open ELSE open \ shut
  BY <1>1 DEF CommandsTyped
<1>5. PICK result \in {"no", "Refused", "PasswordNeeded"} :
        result = IF m.kind # "RemoteApp" /\ Cardinality(rest) >= MAX_CHANNELS THEN "Refused" ELSE refuse
  OBVIOUS
<1>6. /\ serving /\ opening = {} /\ toHost # <<>> /\ toHost' = Tail(toHost) /\ open' = rest
      /\ UNCHANGED <<clientSide, serving, shut, running, waited, written, unread, listed>>
      /\ result # "no" => ToClient(<<Message(result, j)>>) /\ opening' = {}
      /\ result = "no" => /\ opening' = {[id |-> j, kind |-> m.kind, started |-> FALSE]}
                          /\ UNCHANGED toClient
  BY <1>2, <1>3, <1>4, <1>5 DEF Take
<1>7. rest \subseteq open /\ running \subseteq rest
  BY <1>1, <1>4 DEF HostIsTidy
<1>8. ASSUME NEW i \in Ids
      PROVE  /\ toHost' \in Seq(HostMsgs)
             /\ OpenSent(i) = OpenSent(i)' + (IF j = i THEN 1 ELSE 0)
             /\ CloseSent(i) = CloseSent(i)'
             /\ OpenSent(i)' \in Nat
  <2>1. /\ toHost' \in Seq(HostMsgs)
        /\ OpenSent(i) = OpenSent(i)' + (IF m.type = "Open" /\ m.id = i THEN 1 ELSE 0)
        /\ CloseSent(i) = CloseSent(i)' + (IF m.type = "Close" /\ m.id = i THEN 1 ELSE 0)
        /\ OpenSent(i)' \in Nat /\ CloseSent(i)' \in Nat
    BY <1>1, <1>2, <1>6, HostShrinks DEF CommandsTyped
  <2> QED
    BY <1>2, <1>3, <2>1
<1>9. /\ toClient' \in Seq(ClientMsgs)
      /\ \A i \in Ids : i # j \/ ~ linked \/ result = "no" => SameToClient(i)
      /\ linked /\ result # "no" =>
           /\ DataDue(j)' = DataDue(j) /\ ExitDue(j)' = ExitDue(j) /\ RefusalDue(j)' = RefusalDue(j) + 1
           /\ OutputFirst(j) => OutputFirst(j)'
  <2>1. CASE result = "no"
    BY <1>1, <1>6, <2>1, SameQueues DEF CommandsTyped
  <2>2. CASE result # "no"
    <3>1. PICK a \in ClientMsgs : a = Message(result, j)
      BY <1>5, <2>2 DEF Message, ClientMsgs, Answers
    <3>2. a.type \in {"Refused", "PasswordNeeded"} /\ a.id = j
      BY <1>5, <2>2, <3>1 DEF Message
    <3>3. DataDue(j) \in Nat /\ ExitDue(j) \in Nat
      BY <1>1, NumbersAreNatural
    <3>4. ToClient(<<a>>)
      BY <1>6, <2>2, <3>1
    <3>5. /\ toClient' \in Seq(ClientMsgs)
          /\ \A i \in Ids : a.id # i \/ ~ linked => SameToClient(i)
          /\ linked =>
               /\ DataDue(j)' = DataDue(j) + (IF a.type = "Data" /\ a.id = j THEN 1 ELSE 0)
               /\ ExitDue(j)' = ExitDue(j) + (IF a.type = "Exited" /\ a.id = j THEN 1 ELSE 0)
               /\ RefusalDue(j)' = RefusalDue(j)
                    + (IF a.type \in {"Refused", "PasswordNeeded"} /\ a.id = j THEN 1 ELSE 0)
               /\ OutputFirst(j) /\ (a.type = "Data" /\ a.id = j => ExitDue(j) = 0) => OutputFirst(j)'
      BY <1>1, <3>4, Told
    <3> QED
      BY <2>2, <3>2, <3>3, <3>5
  <2> QED
    BY <2>1, <2>2
<1>10. ASSUME NEW i \in Ids
       PROVE  SameAtClient(i) /\ SameAtHost(i)
  BY <1>6, <1>7 DEF SameAtClient, SameAtHost, clientSide
<1>11. ASSUME NEW i \in Ids, i # j
       PROVE  ChannelKept(i)'
  <2>1. SameToHost(i)
    BY <1>8, <1>11 DEF SameToHost
  <2>2. SameOpening(i)
    BY <1>5, <1>6, <1>11 DEF SameOpening, InHand, Unstarted, LaunchInHand
  <2> QED
    BY <1>1, <1>6, <1>9, <1>10, <1>11, <2>1, <2>2, ChannelLeftAlone DEF clientSide
<1>12. ChannelKept(j)'
  <2>1. OpenSent(j) > 0 /\ OpenSent(j)' = 0 /\ CloseSent(j)' = CloseSent(j)
    BY <1>1, <1>8 DEF ChannelKept, OpenedOnce
  <2>2. Before(j) /\ ~ (j > opens)
    BY <1>1, <2>1 DEF Before, ChannelKept, Unborn
  <2>3. /\ CloseSent(j) = 0
        /\ DataDue(j) = 0 /\ ExitDue(j) = 0 /\ RefusalDue(j) = 0 /\ OpenedDue(j) = 0
        /\ call[j] \notin Answers /\ DataTold(j) = 0 /\ ExitTold(j) = 0
        /\ written[j] = 0 /\ unread[j] = 0
        /\ j \notin closing /\ j \notin open /\ j \notin shut
        /\ j \notin running /\ j \notin waited /\ j \notin listed
    BY <1>1, <2>2 DEF ChannelKept, NotStarted
  <2>4. DataTold(j)' = DataTold(j) /\ ExitTold(j)' = ExitTold(j) /\ ClosedTold(j)' = ClosedTold(j)
    BY <1>10, SameTold DEF SameAtClient
  <2>5. /\ linked' = linked /\ serving' = serving /\ opens' = opens /\ j \notin running'
        /\ j \in routes' <=> j \in routes
        /\ j \in late' <=> j \in late
    BY <1>6, <2>3 DEF clientSide
  <2>6. /\ DataDue(j)' = 0 /\ ExitDue(j)' = 0 /\ (OutputFirst(j) => OutputFirst(j)')
        /\ linked /\ result # "no" => RefusalDue(j)' > 0
        /\ result = "no" => RefusalDue(j)' = 0 /\ OpenedDue(j)' = 0
    BY <1>9, <2>3 DEF SameToClient
  <2>7. RouteIsLive(j)' /\ OutputFirst(j)' /\ ClosedIsLast(j)'
    BY <1>1, <1>10, <2>1, <2>4, <2>5, <2>6 DEF ChannelKept, RouteIsLive, ClosedIsLast, SameAtClient, SameAtHost
  <2>8. OutputIsKept(j)' /\ EndIsTold(j)'
    BY <1>10, <2>3, <2>4, <2>6 DEF OutputIsKept, EndIsTold, SameAtHost
  <2>9. CASE result # "no"
    <3>1. ~ Before(j)' /\ ~ InHand(j)' /\ ~ LaunchInHand(j)'
      BY <1>6, <2>1, <2>9 DEF Before, InHand, Unstarted, LaunchInHand
    <3>2. Unborn(j)' /\ OpenedOnce(j)' /\ NotStarted(j)' /\ OnlyLaunched(j)'
      BY <2>1, <2>2, <2>5, <3>1 DEF Unborn, OpenedOnce, NotStarted, OnlyLaunched
    <3>3. RouteIsServed(j)' /\ ServedIsRouted(j)' /\ EndIsSent(j)'
      BY <1>1, <2>5, <2>6, <2>9, <3>1 DEF ChannelKept, RouteIsLive, RouteIsServed, ServedIsRouted, EndIsSent
    <3> QED
      BY <2>7, <2>8, <3>2, <3>3 DEF ChannelKept
  <2>10. CASE result = "no"
    <3>1. Before(j)' /\ InHand(j)' /\ ~ LaunchInHand(j)'
      <4>1. PICK o : o = [id |-> j, kind |-> m.kind, started |-> FALSE]
        OBVIOUS
      <4>2. opening' = {o} /\ o.id = j /\ o.started = FALSE
        BY <1>6, <2>10, <4>1
      <4> QED
        BY <4>2 DEF Before, InHand, Unstarted, LaunchInHand
    <3>2. Unborn(j)' /\ OpenedOnce(j)' /\ OnlyLaunched(j)'
      BY <2>1, <2>2, <2>5, <3>1 DEF Unborn, OpenedOnce, OnlyLaunched
    <3>3. NotStarted(j)'
      BY <1>10, <2>1, <2>3, <2>4, <2>6, <2>10 DEF NotStarted, SameAtClient, SameAtHost
    <3>4. RouteIsServed(j)' /\ ServedIsRouted(j)' /\ EndIsSent(j)'
      BY <1>1, <2>1, <2>2, <2>5, <2>6, <2>10, <3>1 DEF ChannelKept, RouteIsServed, ServedIsRouted, EndIsSent
    <3> QED
      BY <2>7, <2>8, <3>2, <3>3, <3>4 DEF ChannelKept
  <2> QED
    BY <2>9, <2>10
<1>13. CommandsTyped'
  <2>1. /\ opening' \subseteq [id : Ids, kind : ChannelKinds, started : BOOLEAN]
        /\ opening' = {} \/ \E o \in opening' : opening' = {o}
    <3>1. PICK o \in [id : Ids, kind : ChannelKinds, started : BOOLEAN] :
            o = [id |-> j, kind |-> m.kind, started |-> FALSE]
      BY <1>2
    <3>2. opening' = {} \/ opening' = {o}
      BY <1>6, <3>1
    <3> QED
      BY <3>2
  <2>2. open' \subseteq Ids /\ toHost' \in Seq(HostMsgs)
    BY <1>4, <1>6, <1>8
  <2> QED
    BY <1>1, <1>6, <1>9, <2>1, <2>2 DEF CommandsTyped, clientSide
<1>14. HostIsTidy'
  BY <1>1, <1>6, <1>7 DEF HostIsTidy
<1> QED
  BY <1>11, <1>12, <1>13, <1>14 DEF CommandsInv

LEMMA StartStep ==
    ASSUME CommandsInv, Start
    PROVE  CommandsInv'
<1>1. CommandsTyped /\ HostIsTidy /\ \A i \in Ids : ChannelKept(i)
  BY DEF CommandsInv
<1>2. PICK o \in [id : Ids, kind : ChannelKinds, started : BOOLEAN] :
        /\ opening = {o} /\ ~ o.started
        /\ opening' = {[o EXCEPT !.started = TRUE]}
        /\ running' = running \cup (IF o.kind = "Exec" THEN {o.id} ELSE {})
        /\ waited' = waited \cup (IF o.kind = "Exec" THEN {o.id} ELSE {})
        /\ listed' = listed \cup (IF o.kind = "Exec" THEN {o.id} ELSE {})
        /\ open' = open \cup (IF o.kind = "Exec" THEN {o.id} ELSE {})
  BY <1>1 DEF Start, CommandsTyped
<1>3. PICK j \in Ids : j = o.id
  OBVIOUS
<1>4. PICK k \in ChannelKinds : k = o.kind
  OBVIOUS
<1>5. PICK new \in SUBSET {j} : new = IF k = "Exec" THEN {j} ELSE {}
  OBVIOUS
<1>6. /\ running' = running \cup new /\ waited' = waited \cup new
      /\ listed' = listed \cup new /\ open' = open \cup new
      /\ UNCHANGED <<clientSide, toHost, toClient, serving, shut, written, unread>>
  BY <1>2, <1>3, <1>4, <1>5 DEF Start
<1>7. /\ \A i \in Ids : InHand(i) <=> i = j
      /\ \A i \in Ids : Unstarted(i) <=> i = j
      /\ \A i \in Ids : ~ LaunchInHand(i)
  BY <1>2, <1>3 DEF InHand, Unstarted, LaunchInHand
<1>8. /\ \A i \in Ids : InHand(i)' <=> i = j
      /\ \A i \in Ids : ~ Unstarted(i)'
      /\ \A i \in Ids : LaunchInHand(i)' <=> (i = j /\ k # "Exec")
  <2>1. PICK p : p = [o EXCEPT !.started = TRUE]
    OBVIOUS
  <2>2. p.id = j /\ p.kind = k /\ p.started = TRUE /\ opening' = {p}
    BY <1>2, <1>3, <1>4, <2>1
  <2> QED
    BY <2>2 DEF InHand, Unstarted, LaunchInHand
<1>9. \A i \in Ids : SameToHost(i) /\ SameToClient(i) /\ SameAtClient(i)
  BY <1>6, SameQueues DEF SameAtClient, clientSide
<1>10. ASSUME NEW i \in Ids, i # j
       PROVE  ChannelKept(i)'
  <2>1. SameOpening(i)
    BY <1>7, <1>8, <1>10 DEF SameOpening
  <2>2. SameAtHost(i)
    BY <1>6, <1>10 DEF SameAtHost
  <2> QED
    BY <1>1, <1>6, <1>9, <2>1, <2>2, ChannelLeftAlone DEF clientSide
<1>11. ChannelKept(j)'
  <2>1. /\ Before(j) /\ ~ (j > opens) /\ OpenSent(j) = 0 /\ ~ Before(j)'
        /\ OpenSent(j)' = OpenSent(j) /\ CloseSent(j)' = CloseSent(j)
    BY <1>1, <1>7, <1>8, <1>9 DEF Before, ChannelKept, Unborn, OpenedOnce, SameToHost
  <2>2. /\ CloseSent(j) = 0
        /\ DataDue(j) = 0 /\ ExitDue(j) = 0 /\ RefusalDue(j) = 0
        /\ DataTold(j) = 0 /\ ExitTold(j) = 0
        /\ written[j] = 0 /\ unread[j] = 0
        /\ j \notin shut /\ j \notin running /\ j \notin waited
    BY <1>1, <2>1 DEF ChannelKept, NotStarted
  <2>3. /\ DataTold(j)' = 0 /\ ExitTold(j)' = 0 /\ ClosedTold(j)' = ClosedTold(j)
        /\ DataDue(j)' = 0 /\ ExitDue(j)' = 0 /\ RefusalDue(j)' = 0
        /\ OutputFirst(j) => OutputFirst(j)'
    BY <1>9, <2>2, SameTold DEF SameAtClient, SameToClient
  <2>4. /\ linked' = linked /\ serving' = serving /\ opens' = opens
        /\ j \notin shut' /\ written'[j] = 0 /\ unread'[j] = 0
        /\ (j \in running' <=> k = "Exec") /\ (j \in waited' <=> k = "Exec")
    BY <1>5, <1>6, <2>2 DEF clientSide
  <2>5. Unborn(j)' /\ OpenedOnce(j)' /\ NotStarted(j)' /\ OnlyLaunched(j)'
    BY <1>8, <2>1, <2>4 DEF Unborn, OpenedOnce, NotStarted, OnlyLaunched
  <2>6. RouteIsLive(j)' /\ RouteIsServed(j)' /\ ServedIsRouted(j)'
    BY <1>1, <1>8, <1>9, <2>1, <2>3, <2>4
       DEF ChannelKept, RouteIsLive, RouteIsServed, ServedIsRouted, SameAtClient
  <2>7. EndIsSent(j)' /\ OutputFirst(j)' /\ OutputIsKept(j)' /\ EndIsTold(j)' /\ ClosedIsLast(j)'
    BY <1>1, <1>9, <2>3, <2>4
       DEF ChannelKept, EndIsSent, OutputIsKept, EndIsTold, ClosedIsLast, SameAtClient
  <2> QED
    BY <2>5, <2>6, <2>7 DEF ChannelKept
<1>12. CommandsTyped'
  <2>1. /\ opening' \subseteq [id : Ids, kind : ChannelKinds, started : BOOLEAN]
        /\ \E p \in opening' : opening' = {p}
    BY <1>2
  <2> QED
    BY <1>1, <1>5, <1>6, <2>1 DEF CommandsTyped, clientSide
<1>13. HostIsTidy'
  <2>1. ~ Before(j) \/ j \notin shut
    BY <1>1 DEF ChannelKept, NotStarted
  <2>2. Before(j) /\ serving
    BY <1>1, <1>2, <1>7 DEF Before, HostIsTidy
  <2> QED
    BY <1>1, <1>5, <1>6, <2>1, <2>2 DEF HostIsTidy
<1> QED
  BY <1>10, <1>11, <1>12, <1>13 DEF CommandsInv

LEMMA WhatIsTold ==
    \A type \in Answers \cup {"Data", "Exited"}, i \in Ids :
        Message(type, i) \in ClientMsgs /\ Message(type, i).type = type /\ Message(type, i).id = i
BY DEF Message, ClientMsgs

\* A launch is answered and over in one go.
LEMMA LaunchTold ==
    ASSUME CommandsTyped, NEW j \in Ids,
           ToClient(<<Message("Opened", j)>> \o <<Message("Exited", j)>>)
    PROVE  /\ toClient' \in Seq(ClientMsgs)
           /\ \A i \in Ids : i # j \/ ~ linked => SameToClient(i)
           /\ linked => /\ DataDue(j)' = DataDue(j) /\ ExitDue(j)' = ExitDue(j) + 1
                        /\ RefusalDue(j)' = RefusalDue(j)
                        /\ OutputFirst(j) => OutputFirst(j)'
<1>1. PICK a \in ClientMsgs : a = Message("Opened", j) /\ a.type = "Opened" /\ a.id = j
  BY DEF Message, ClientMsgs, Answers
<1>2. PICK b \in ClientMsgs : b = Message("Exited", j) /\ b.type = "Exited" /\ b.id = j
  BY DEF Message, ClientMsgs
<1>3. CASE linked
  <2>1. PICK q \in Seq(ClientMsgs) : q = toClient
    BY DEF CommandsTyped
  <2>2. PICK r \in Seq(ClientMsgs) : r = Append(q, a)
    BY AppendProperties
  <2>3. toClient' = Append(r, b)
    <3>1. toClient' = q \o (<<a>> \o <<b>>)
      BY <1>1, <1>2, <1>3, <2>1 DEF ToClient
    <3> QED
      BY <2>2, <3>1
  <2>4. ASSUME NEW i \in Ids
        PROVE  /\ Count(r, DataOf(i)) = DataDue(i)
               /\ Count(r, ExitsOf(i)) = ExitDue(i)
               /\ Count(r, RefusalsOf(i)) = RefusalDue(i)
               /\ Count(r, OpenedOf(i)) = OpenedDue(i) + (IF j = i THEN 1 ELSE 0)
               /\ OutputFirst(i) => AllBefore(r, DataOf(i), ExitsOf(i))
    <3>1. DataDue(i) \in Nat /\ ExitDue(i) \in Nat /\ RefusalDue(i) \in Nat
      BY NumbersAreNatural
    <3>2. /\ Count(Append(q, a), DataOf(i)) = Count(q, DataOf(i)) + (IF a.type = "Data" /\ a.id = i THEN 1 ELSE 0)
          /\ Count(Append(q, a), ExitsOf(i)) = Count(q, ExitsOf(i)) + (IF a.type = "Exited" /\ a.id = i THEN 1 ELSE 0)
          /\ Count(Append(q, a), RefusalsOf(i))
               = Count(q, RefusalsOf(i)) + (IF a.type \in {"Refused", "PasswordNeeded"} /\ a.id = i THEN 1 ELSE 0)
          /\ Count(Append(q, a), OpenedOf(i)) = Count(q, OpenedOf(i)) + (IF a.type = "Opened" /\ a.id = i THEN 1 ELSE 0)
          /\ AllBefore(q, DataOf(i), ExitsOf(i)) /\ (a.type = "Data" /\ a.id = i => Count(q, ExitsOf(i)) = 0)
               => AllBefore(Append(q, a), DataOf(i), ExitsOf(i))
      BY ClientGrows
    <3> QED
      BY <1>1, <2>1, <2>2, <3>1, <3>2 DEF DataDue, ExitDue, RefusalDue, OpenedDue, OutputFirst
  <2>5. ASSUME NEW i \in Ids
        PROVE  /\ toClient' \in Seq(ClientMsgs)
               /\ DataDue(i)' = Count(r, DataOf(i))
               /\ ExitDue(i)' = Count(r, ExitsOf(i)) + (IF j = i THEN 1 ELSE 0)
               /\ RefusalDue(i)' = Count(r, RefusalsOf(i))
               /\ OpenedDue(i)' = Count(r, OpenedOf(i))
               /\ AllBefore(r, DataOf(i), ExitsOf(i)) => OutputFirst(i)'
    <3>1. Count(r, DataOf(i)) \in Nat /\ Count(r, RefusalsOf(i)) \in Nat /\ Count(r, OpenedOf(i)) \in Nat
      BY PlacesAreFinite
    <3>2. /\ Append(r, b) \in Seq(ClientMsgs)
          /\ Count(Append(r, b), DataOf(i)) = Count(r, DataOf(i)) + (IF b.type = "Data" /\ b.id = i THEN 1 ELSE 0)
          /\ Count(Append(r, b), ExitsOf(i)) = Count(r, ExitsOf(i)) + (IF b.type = "Exited" /\ b.id = i THEN 1 ELSE 0)
          /\ Count(Append(r, b), RefusalsOf(i))
               = Count(r, RefusalsOf(i)) + (IF b.type \in {"Refused", "PasswordNeeded"} /\ b.id = i THEN 1 ELSE 0)
          /\ Count(Append(r, b), OpenedOf(i)) = Count(r, OpenedOf(i)) + (IF b.type = "Opened" /\ b.id = i THEN 1 ELSE 0)
          /\ AllBefore(r, DataOf(i), ExitsOf(i)) /\ (b.type = "Data" /\ b.id = i => Count(r, ExitsOf(i)) = 0)
               => AllBefore(Append(r, b), DataOf(i), ExitsOf(i))
      BY ClientGrows
    <3> QED
      BY <1>2, <2>3, <3>1, <3>2 DEF DataDue, ExitDue, RefusalDue, OpenedDue, OutputFirst
  <2>6. ASSUME NEW i \in Ids, i # j
        PROVE  SameToClient(i)
    <3>1. ExitDue(i) \in Nat /\ OpenedDue(i) \in Nat
      BY NumbersAreNatural
    <3> QED
      BY <2>4, <2>5, <2>6, <3>1 DEF SameToClient
  <2> QED
    BY <1>3, <2>4, <2>5, <2>6
<1>4. CASE ~ linked
  <2>1. UNCHANGED toClient
    BY <1>4 DEF ToClient
  <2> QED
    BY <1>4, <2>1, SameQueues DEF CommandsTyped
<1> QED
  BY <1>3, <1>4

LEMMA AnswerStep ==
    ASSUME CommandsInv, Answer
    PROVE  CommandsInv'
<1>1. CommandsTyped /\ HostIsTidy /\ \A i \in Ids : ChannelKept(i)
  BY DEF CommandsInv
<1>2. PICK o \in [id : Ids, kind : ChannelKinds, started : BOOLEAN] :
        /\ opening = {o} /\ o.started
        /\ ToClient(<<Message("Opened", o.id)>>
                    \o IF o.kind = "Exec" THEN <<>> ELSE <<Message("Exited", o.id)>>)
  BY <1>1 DEF Answer, CommandsTyped
<1>3. PICK j \in Ids : j = o.id
  OBVIOUS
<1>4. /\ opening' = {}
      /\ UNCHANGED <<clientSide, toHost, serving, open, shut, running, waited, written, unread, listed>>
  BY DEF Answer
<1>5. /\ \A i \in Ids : InHand(i) <=> i = j
      /\ \A i \in Ids : ~ Unstarted(i)
      /\ \A i \in Ids : LaunchInHand(i) <=> (i = j /\ o.kind # "Exec")
  BY <1>2, <1>3 DEF InHand, Unstarted, LaunchInHand
<1>6. \A i \in Ids : ~ InHand(i)' /\ ~ Unstarted(i)' /\ ~ LaunchInHand(i)'
  BY <1>4 DEF InHand, Unstarted, LaunchInHand
<1>7. \A i \in Ids : SameToHost(i) /\ SameAtClient(i) /\ SameAtHost(i)
  BY <1>4, SameQueues DEF SameAtClient, SameAtHost, clientSide
<1>8. /\ toClient' \in Seq(ClientMsgs)
      /\ \A i \in Ids : i # j \/ ~ linked => SameToClient(i)
      /\ linked =>
           /\ DataDue(j)' = DataDue(j) /\ RefusalDue(j)' = RefusalDue(j)
           /\ ExitDue(j)' = IF o.kind = "Exec" THEN ExitDue(j) ELSE ExitDue(j) + 1
           /\ OutputFirst(j) => OutputFirst(j)'
  <2>1. CASE o.kind = "Exec"
    <3>1. PICK a \in ClientMsgs : a = Message("Opened", j) /\ a.type = "Opened" /\ a.id = j
      BY WhatIsTold DEF Answers
    <3>2. ToClient(<<a>>)
      <4>1. <<a>> \o <<>> = <<a>>
        OBVIOUS
      <4> QED
        BY <1>2, <1>3, <2>1, <3>1, <4>1
    <3>3. DataDue(j) \in Nat /\ ExitDue(j) \in Nat /\ RefusalDue(j) \in Nat
      BY <1>1, NumbersAreNatural
    <3>4. /\ toClient' \in Seq(ClientMsgs)
          /\ \A i \in Ids : a.id # i \/ ~ linked => SameToClient(i)
          /\ linked =>
               /\ DataDue(j)' = DataDue(j) + (IF a.type = "Data" /\ a.id = j THEN 1 ELSE 0)
               /\ ExitDue(j)' = ExitDue(j) + (IF a.type = "Exited" /\ a.id = j THEN 1 ELSE 0)
               /\ RefusalDue(j)' = RefusalDue(j)
                    + (IF a.type \in {"Refused", "PasswordNeeded"} /\ a.id = j THEN 1 ELSE 0)
               /\ OutputFirst(j) /\ (a.type = "Data" /\ a.id = j => ExitDue(j) = 0) => OutputFirst(j)'
      BY <1>1, <3>2, Told
    <3> QED
      BY <2>1, <3>1, <3>3, <3>4
  <2>2. CASE o.kind # "Exec"
    <3>1. ToClient(<<Message("Opened", j)>> \o <<Message("Exited", j)>>)
      BY <1>2, <1>3, <2>2
    <3> QED
      BY <1>1, <2>2, <3>1, LaunchTold
  <2> QED
    BY <2>1, <2>2
<1>9. ASSUME NEW i \in Ids, i # j
      PROVE  ChannelKept(i)'
  <2>1. SameOpening(i)
    BY <1>5, <1>6, <1>9 DEF SameOpening
  <2> QED
    BY <1>1, <1>4, <1>7, <1>8, <1>9, <2>1, ChannelLeftAlone DEF clientSide
<1>10. ChannelKept(j)'
  <2>1. /\ ~ Before(j) /\ ~ Before(j)' /\ ~ (j > opens) /\ serving
        /\ OpenSent(j)' = OpenSent(j) /\ CloseSent(j)' = CloseSent(j) /\ OpenSent(j) = 0
    BY <1>1, <1>2, <1>5, <1>6, <1>7 DEF Before, ChannelKept, Unborn, OpenedOnce, SameToHost, HostIsTidy
  <2>2. DataTold(j)' = DataTold(j) /\ ExitTold(j)' = ExitTold(j) /\ ClosedTold(j)' = ClosedTold(j)
    BY <1>7, SameTold DEF SameAtClient
  <2>3. /\ linked' = linked /\ serving' = serving /\ opens' = opens
    BY <1>4 DEF clientSide
  <2>4. ExitDue(j) \in Nat
    BY <1>1, NumbersAreNatural
  <2>5. Unborn(j)' /\ OpenedOnce(j)' /\ NotStarted(j)' /\ OnlyLaunched(j)'
    BY <1>6, <2>1, <2>3 DEF Unborn, OpenedOnce, NotStarted, OnlyLaunched
  <2>6. RouteIsLive(j)' /\ ServedIsRouted(j)' /\ EndIsTold(j)' /\ ClosedIsLast(j)'
    BY <1>1, <1>7, <2>1, <2>2, <2>3
       DEF ChannelKept, RouteIsLive, ServedIsRouted, EndIsTold, ClosedIsLast, SameAtClient, SameAtHost
  <2>7. RouteIsServed(j)'
    <3> SUFFICES ASSUME j \in routes
                 PROVE  j \in waited' \/ ExitDue(j)' > 0 \/ RefusalDue(j)' > 0
      BY <1>4 DEF RouteIsServed, clientSide
    <3>1. linked /\ (LaunchInHand(j) \/ j \in waited \/ ExitDue(j) > 0 \/ RefusalDue(j) > 0)
      BY <1>1, <2>1 DEF ChannelKept, RouteIsLive, RouteIsServed
    <3> QED
      BY <1>4, <1>5, <1>8, <2>4, <3>1
  <2>8. EndIsSent(j)' /\ OutputFirst(j)' /\ OutputIsKept(j)'
    <3>1. CASE linked /\ o.kind # "Exec"
      <4>1. /\ j \notin running /\ unread[j] = 0
            /\ unread'[j] = unread[j] /\ written'[j] = written[j] /\ j \notin running'
        BY <1>1, <1>4, <1>5, <3>1 DEF ChannelKept, OnlyLaunched
      <4> QED
        BY <1>1, <1>4, <1>8, <2>1, <2>2, <2>3, <3>1, <4>1
           DEF ChannelKept, EndIsSent, OutputIsKept, clientSide
    <3>2. CASE ~ (linked /\ o.kind # "Exec")
      <4>1. /\ DataDue(j)' = DataDue(j) /\ ExitDue(j)' = ExitDue(j) /\ RefusalDue(j)' = RefusalDue(j)
            /\ OutputFirst(j) => OutputFirst(j)'
        BY <1>8, <3>2 DEF SameToClient
      <4> QED
        BY <1>1, <1>7, <2>1, <2>2, <2>3, <4>1
           DEF ChannelKept, EndIsSent, OutputIsKept, SameAtHost, SameAtClient
    <3> QED
      BY <3>1, <3>2
  <2> QED
    BY <2>5, <2>6, <2>7, <2>8 DEF ChannelKept
<1>11. CommandsTyped'
  BY <1>1, <1>4, <1>8 DEF CommandsTyped, clientSide
<1>12. HostIsTidy'
  BY <1>1, <1>4 DEF HostIsTidy
<1> QED
  BY <1>9, <1>10, <1>11, <1>12 DEF CommandsInv

LEMMA TakeCloseStep ==
    ASSUME CommandsInv, TakeClose
    PROVE  CommandsInv'
<1>1. CommandsTyped /\ HostIsTidy /\ \A i \in Ids : ChannelKept(i)
  BY DEF CommandsInv
<1>2. PICK m \in HostMsgs : m = Head(toHost) /\ m.type = "Close"
  <2>1. toHost \in Seq(HostMsgs) /\ toHost # <<>> /\ Head(toHost).type = "Close"
    BY <1>1 DEF TakeClose, CommandsTyped
  <2>2. Head(toHost) \in HostMsgs
    BY <2>1, HeadTailProperties
  <2> QED
    BY <2>1, <2>2
<1>3. PICK j \in Ids : j = m.id
  BY DEF HostMsgs
<1>4. /\ serving /\ opening = {} /\ toHost # <<>> /\ toHost' = Tail(toHost)
      /\ open' = open \ {j} /\ shut' = shut \cup (open \cap {j})
      /\ running' = running \ (open \cap {j}) /\ listed' = listed \ (open \cap {j})
      /\ UNCHANGED <<clientSide, toClient, serving, opening, waited, written, unread>>
  BY <1>2, <1>3 DEF TakeClose, Kill
<1>5. ASSUME NEW i \in Ids
      PROVE  /\ toHost' \in Seq(HostMsgs)
             /\ OpenSent(i) = OpenSent(i)'
             /\ CloseSent(i) = CloseSent(i)' + (IF j = i THEN 1 ELSE 0)
             /\ CloseSent(i)' \in Nat
  <2>1. /\ toHost' \in Seq(HostMsgs)
        /\ OpenSent(i) = OpenSent(i)' + (IF m.type = "Open" /\ m.id = i THEN 1 ELSE 0)
        /\ CloseSent(i) = CloseSent(i)' + (IF m.type = "Close" /\ m.id = i THEN 1 ELSE 0)
        /\ OpenSent(i)' \in Nat /\ CloseSent(i)' \in Nat
    BY <1>1, <1>2, <1>4, HostShrinks DEF CommandsTyped
  <2> QED
    BY <1>2, <1>3, <2>1
<1>6. \A i \in Ids : SameToClient(i) /\ SameOpening(i) /\ SameAtClient(i)
  BY <1>4, SameQueues DEF SameAtClient, clientSide
<1>7. ASSUME NEW i \in Ids, i # j
      PROVE  ChannelKept(i)'
  <2>1. SameToHost(i)
    BY <1>5, <1>7 DEF SameToHost
  <2>2. SameAtHost(i)
    BY <1>4, <1>7 DEF SameAtHost
  <2> QED
    BY <1>1, <1>4, <1>6, <2>1, <2>2, ChannelLeftAlone DEF clientSide
<1>8. ChannelKept(j)'
  <2>1. CloseSent(j) > 0
    BY <1>5
  <2>2. ~ Before(j) /\ ~ (j > opens) /\ j \notin routes
    <3>1. CloseSent(j) # 0
      BY <1>5
    <3> QED
      BY <1>1, <3>1 DEF ChannelKept, NotStarted, Unborn, RouteIsLive
  <2>3. /\ OpenSent(j)' = OpenSent(j) /\ ~ Before(j)'
        /\ (InHand(j)' <=> InHand(j)) /\ (LaunchInHand(j)' <=> LaunchInHand(j))
    BY <1>5, <1>6, <2>2 DEF Before, SameOpening
  <2>4. /\ DataDue(j)' = DataDue(j) /\ ExitDue(j)' = ExitDue(j) /\ RefusalDue(j)' = RefusalDue(j)
        /\ OutputFirst(j) => OutputFirst(j)'
        /\ DataTold(j)' = DataTold(j) /\ ExitTold(j)' = ExitTold(j)
    BY <1>6, SameTold DEF SameToClient, SameAtClient
  <2>5. /\ opens' = opens /\ j \notin routes' /\ j \notin running' /\ events'[j] = events[j]
        /\ waited' = waited /\ written' = written /\ unread' = unread
    BY <1>1, <1>4, <2>2 DEF clientSide, HostIsTidy
  <2>6. Unborn(j)' /\ OpenedOnce(j)' /\ NotStarted(j)' /\ OnlyLaunched(j)'
    BY <1>1, <2>2, <2>3, <2>5 DEF ChannelKept, Unborn, OpenedOnce, NotStarted, OnlyLaunched
  <2>7. RouteIsLive(j)' /\ RouteIsServed(j)' /\ ServedIsRouted(j)' /\ OutputIsKept(j)'
    BY <2>3, <2>5 DEF RouteIsLive, RouteIsServed, ServedIsRouted, OutputIsKept
  <2>8. EndIsSent(j)' /\ OutputFirst(j)' /\ EndIsTold(j)' /\ ClosedIsLast(j)'
    BY <1>1, <2>3, <2>4, <2>5 DEF ChannelKept, EndIsSent, EndIsTold, ClosedIsLast
  <2> QED
    BY <2>6, <2>7, <2>8 DEF ChannelKept
<1>9. CommandsTyped'
  BY <1>1, <1>4, <1>5 DEF CommandsTyped, clientSide
<1>10. HostIsTidy'
  BY <1>1, <1>4 DEF HostIsTidy
<1> QED
  BY <1>7, <1>8, <1>9, <1>10 DEF CommandsInv

LEMMA HostEndsStep ==
    ASSUME CommandsInv, HostEnds
    PROVE  CommandsInv'
<1>1. CommandsTyped /\ HostIsTidy /\ \A i \in Ids : ChannelKept(i)
  BY DEF CommandsInv
<1>2. /\ serving /\ serving' = FALSE /\ opening' = {} /\ open' = {} /\ toHost' = <<>>
      /\ shut' = shut \cup open /\ running' = {} /\ listed' = listed \ open
      /\ UNCHANGED <<clientSide, toClient, waited, written, unread>>
  BY <1>1 DEF HostEnds, Kill, HostIsTidy
<1>3. \A i \in Ids : SameToClient(i) /\ SameAtClient(i)
  BY <1>2, SameQueues DEF SameAtClient, clientSide
<1>4. ASSUME NEW i \in Ids
      PROVE  ChannelKept(i)'
  <2>1. OpenSent(i)' = 0 /\ CloseSent(i)' = 0 /\ ~ InHand(i)' /\ ~ LaunchInHand(i)' /\ ~ Before(i)'
    BY <1>2, EmptyQueue DEF OpenSent, CloseSent, InHand, Unstarted, LaunchInHand, Before
  <2>2. /\ DataDue(i)' = DataDue(i) /\ ExitDue(i)' = ExitDue(i)
        /\ RefusalDue(i)' = RefusalDue(i) /\ OpenedDue(i)' = OpenedDue(i)
        /\ OutputFirst(i) => OutputFirst(i)'
        /\ DataTold(i)' = DataTold(i) /\ ExitTold(i)' = ExitTold(i) /\ ClosedTold(i)' = ClosedTold(i)
    BY <1>3, SameTold DEF SameToClient, SameAtClient
  <2>3. Unborn(i)' /\ OpenedOnce(i)' /\ NotStarted(i)' /\ OnlyLaunched(i)'
    BY <1>1, <1>2, <2>1, <2>2 DEF ChannelKept, Unborn, OpenedOnce, NotStarted, OnlyLaunched, clientSide
  <2>4. RouteIsLive(i)' /\ RouteIsServed(i)' /\ ServedIsRouted(i)' /\ OutputIsKept(i)'
    BY <1>1, <1>2, <2>1, <2>2
       DEF ChannelKept, RouteIsLive, RouteIsServed, ServedIsRouted, OutputIsKept, clientSide
  <2>5. EndIsSent(i)' /\ OutputFirst(i)' /\ EndIsTold(i)' /\ ClosedIsLast(i)'
    BY <1>1, <1>2, <2>1, <2>2 DEF ChannelKept, EndIsSent, EndIsTold, ClosedIsLast, clientSide
  <2> QED
    BY <2>3, <2>4, <2>5 DEF ChannelKept
<1>5. CommandsTyped'
  BY <1>1, <1>2, EmptySeq DEF CommandsTyped, clientSide
<1>6. HostIsTidy'
  <2>1. listed' \subseteq waited'
    BY <1>1, <1>2 DEF HostIsTidy
  <2> QED
    BY <1>2, <2>1 DEF HostIsTidy
<1> QED
  BY <1>4, <1>5, <1>6 DEF CommandsInv

LEMMA WriteStep ==
    ASSUME CommandsInv, NEW j \in Ids, Write(j)
    PROVE  CommandsInv'
<1>1. CommandsTyped /\ HostIsTidy /\ \A i \in Ids : ChannelKept(i)
  BY DEF CommandsInv
<1>2. /\ j \in running /\ written[j] < MaxChunks
      /\ written' = [written EXCEPT ![j] = @ + 1] /\ unread' = [unread EXCEPT ![j] = @ + 1]
      /\ UNCHANGED <<clientSide, toHost, toClient, serving, opening, open, shut, running, waited, listed>>
  BY DEF Write
<1>3. \A i \in Ids : SameToHost(i) /\ SameToClient(i) /\ SameOpening(i) /\ SameAtClient(i)
  BY <1>2, SameQueues DEF SameAtClient, clientSide
<1>4. /\ written'[j] = written[j] + 1 /\ unread'[j] = unread[j] + 1
      /\ \A i \in Ids : i # j => written'[i] = written[i] /\ unread'[i] = unread[i]
  BY <1>1, <1>2 DEF CommandsTyped
<1>5. ASSUME NEW i \in Ids, i # j
      PROVE  ChannelKept(i)'
  <2>1. SameAtHost(i)
    BY <1>2, <1>4, <1>5 DEF SameAtHost
  <2> QED
    BY <1>1, <1>2, <1>3, <2>1, ChannelLeftAlone DEF clientSide
<1>6. ChannelKept(j)'
  <2>1. /\ ~ Before(j) /\ ~ (j > opens) /\ ~ LaunchInHand(j) /\ serving
        /\ ~ (ExitDue(j) > 0) /\ ~ (ExitTold(j) > 0)
    BY <1>1, <1>2
       DEF ChannelKept, NotStarted, Unborn, OnlyLaunched, EndIsSent, EndIsTold, HostIsTidy
  <2>2. /\ OpenSent(j)' = OpenSent(j) /\ CloseSent(j)' = CloseSent(j)
        /\ DataDue(j)' = DataDue(j) /\ ExitDue(j)' = ExitDue(j) /\ RefusalDue(j)' = RefusalDue(j)
        /\ OutputFirst(j) => OutputFirst(j)'
        /\ DataTold(j)' = DataTold(j) /\ ExitTold(j)' = ExitTold(j) /\ ClosedTold(j)' = ClosedTold(j)
        /\ (InHand(j)' <=> InHand(j)) /\ ~ LaunchInHand(j)' /\ ~ Before(j)'
    BY <1>3, <2>1, SameTold DEF SameToHost, SameToClient, SameOpening, SameAtClient, Before
  <2>3. Unborn(j)' /\ OpenedOnce(j)' /\ NotStarted(j)' /\ OnlyLaunched(j)'
    BY <1>1, <1>2, <2>1, <2>2 DEF ChannelKept, Unborn, OpenedOnce, NotStarted, OnlyLaunched, clientSide
  <2>4. RouteIsLive(j)' /\ RouteIsServed(j)' /\ ServedIsRouted(j)'
    BY <1>1, <1>2, <2>1, <2>2
       DEF ChannelKept, RouteIsLive, RouteIsServed, ServedIsRouted, clientSide
  <2>5. OutputIsKept(j)'
    <3> SUFFICES ASSUME j \in routes'
                 PROVE  DataTold(j)' + DataDue(j)' + unread'[j] = written'[j]
      BY DEF OutputIsKept
    <3>1. DataTold(j) + DataDue(j) + unread[j] = written[j]
      BY <1>1, <1>2, <2>1 DEF ChannelKept, OutputIsKept, clientSide
    <3>2. DataTold(j) \in Nat /\ DataDue(j) \in Nat /\ unread[j] \in Nat /\ written[j] \in Nat
      BY <1>1, NumbersAreNatural
    <3> QED
      BY <1>4, <2>2, <3>1, <3>2
  <2>6. EndIsSent(j)' /\ OutputFirst(j)' /\ EndIsTold(j)' /\ ClosedIsLast(j)'
    BY <1>1, <1>2, <2>1, <2>2 DEF ChannelKept, EndIsSent, EndIsTold, ClosedIsLast, clientSide
  <2> QED
    BY <2>3, <2>4, <2>5, <2>6 DEF ChannelKept
<1>7. CommandsTyped'
  <2>1. /\ written[j] + 1 \in 0 .. MaxChunks /\ unread[j] + 1 \in 0 .. MaxChunks
        /\ unread[j] + 1 <= written[j] + 1
    <3>1. /\ MaxChunks \in Nat /\ written[j] \in 0 .. MaxChunks /\ unread[j] \in 0 .. MaxChunks
          /\ unread[j] <= written[j]
      BY <1>1, CommandsAssumption DEF CommandsTyped
    <3> QED
      BY <1>2, <3>1
  <2>2. /\ written' \in [Ids -> 0 .. MaxChunks] /\ unread' \in [Ids -> 0 .. MaxChunks]
    BY <1>1, <1>2, <2>1 DEF CommandsTyped
  <2>3. \A i \in Ids : unread'[i] <= written'[i]
    BY <1>1, <1>4, <2>1 DEF CommandsTyped
  <2> QED
    BY <1>1, <1>2, <2>2, <2>3 DEF CommandsTyped, clientSide
<1>8. HostIsTidy'
  BY <1>1, <1>2 DEF HostIsTidy
<1> QED
  BY <1>5, <1>6, <1>7, <1>8 DEF CommandsInv

LEMMA ExitStep ==
    ASSUME CommandsInv, NEW j \in Ids, Exit(j)
    PROVE  CommandsInv'
<1>1. CommandsTyped /\ HostIsTidy /\ \A i \in Ids : ChannelKept(i)
  BY DEF CommandsInv
<1>2. /\ j \in running /\ running' = running \ {j}
      /\ UNCHANGED <<clientSide, toHost, toClient, serving, opening, open, shut, waited, written, unread, listed>>
  BY DEF Exit
<1>3. \A i \in Ids : SameToHost(i) /\ SameToClient(i) /\ SameOpening(i) /\ SameAtClient(i)
  BY <1>2, SameQueues DEF SameAtClient, clientSide
<1>4. ASSUME NEW i \in Ids, i # j
      PROVE  ChannelKept(i)'
  <2>1. SameAtHost(i)
    BY <1>2, <1>4 DEF SameAtHost
  <2> QED
    BY <1>1, <1>2, <1>3, <2>1, ChannelLeftAlone DEF clientSide
<1>5. ChannelKept(j)'
  <2>1. ~ Before(j) /\ ~ (j > opens) /\ ~ LaunchInHand(j)
    BY <1>1, <1>2 DEF ChannelKept, NotStarted, Unborn, OnlyLaunched
  <2>2. /\ OpenSent(j)' = OpenSent(j) /\ CloseSent(j)' = CloseSent(j)
        /\ DataDue(j)' = DataDue(j) /\ ExitDue(j)' = ExitDue(j) /\ RefusalDue(j)' = RefusalDue(j)
        /\ OutputFirst(j) => OutputFirst(j)'
        /\ DataTold(j)' = DataTold(j) /\ ExitTold(j)' = ExitTold(j) /\ ClosedTold(j)' = ClosedTold(j)
        /\ (InHand(j)' <=> InHand(j)) /\ ~ LaunchInHand(j)' /\ ~ Before(j)'
    BY <1>3, <2>1, SameTold DEF SameToHost, SameToClient, SameOpening, SameAtClient, Before
  <2>3. Unborn(j)' /\ OpenedOnce(j)' /\ NotStarted(j)' /\ OnlyLaunched(j)'
    BY <1>1, <1>2, <2>1, <2>2 DEF ChannelKept, Unborn, OpenedOnce, NotStarted, OnlyLaunched, clientSide
  <2>4. RouteIsLive(j)' /\ RouteIsServed(j)' /\ ServedIsRouted(j)'
    BY <1>1, <1>2, <2>1, <2>2
       DEF ChannelKept, RouteIsLive, RouteIsServed, ServedIsRouted, clientSide
  <2>5. EndIsSent(j)' /\ OutputFirst(j)' /\ OutputIsKept(j)' /\ EndIsTold(j)' /\ ClosedIsLast(j)'
    BY <1>1, <1>2, <2>1, <2>2
       DEF ChannelKept, EndIsSent, OutputIsKept, EndIsTold, ClosedIsLast, clientSide
  <2> QED
    BY <2>3, <2>4, <2>5 DEF ChannelKept
<1>6. CommandsTyped'
  BY <1>1, <1>2 DEF CommandsTyped, clientSide
<1>7. HostIsTidy'
  BY <1>1, <1>2 DEF HostIsTidy
<1> QED
  BY <1>4, <1>5, <1>6, <1>7 DEF CommandsInv

LEMMA ReadStep ==
    ASSUME CommandsInv, NEW j \in Ids, Read(j)
    PROVE  CommandsInv'
<1>1. CommandsTyped /\ HostIsTidy /\ \A i \in Ids : ChannelKept(i)
  BY DEF CommandsInv
<1>2. /\ unread[j] > 0 /\ unread' = [unread EXCEPT ![j] = IF serving THEN @ - 1 ELSE 0]
      /\ serving => ToClient(<<Message("Data", j)>>)
      /\ ~ serving => UNCHANGED toClient
      /\ UNCHANGED <<clientSide, toHost, serving, opening, open, shut, running, waited, written, listed>>
  BY DEF Read
<1>3. /\ ~ Before(j) /\ ~ (j > opens) /\ ~ LaunchInHand(j) /\ ExitDue(j) = 0
  <2>1. unread[j] # 0 /\ ExitDue(j) \in Nat
    BY <1>1, <1>2, NumbersAreNatural
  <2>2. ~ (ExitDue(j) > 0)
    BY <1>1, <2>1 DEF ChannelKept, EndIsSent
  <2> QED
    BY <1>1, <2>1, <2>2 DEF ChannelKept, NotStarted, Unborn, OnlyLaunched
<1>4. /\ toClient' \in Seq(ClientMsgs)
      /\ \A i \in Ids : i # j \/ ~ linked \/ ~ serving => SameToClient(i)
      /\ linked /\ serving => DataDue(j)' = DataDue(j) + 1
      /\ ExitDue(j)' = ExitDue(j) /\ RefusalDue(j)' = RefusalDue(j)
      /\ OutputFirst(j) => OutputFirst(j)'
  <2>1. CASE serving
    <3>1. PICK a \in ClientMsgs : a = Message("Data", j) /\ a.type = "Data" /\ a.id = j
      BY WhatIsTold
    <3>2. ToClient(<<a>>)
      BY <1>2, <2>1, <3>1
    <3>3. ExitDue(j) \in Nat /\ RefusalDue(j) \in Nat
      BY <1>1, NumbersAreNatural
    <3>4. /\ toClient' \in Seq(ClientMsgs)
          /\ \A i \in Ids : a.id # i \/ ~ linked => SameToClient(i)
          /\ linked =>
               /\ DataDue(j)' = DataDue(j) + (IF a.type = "Data" /\ a.id = j THEN 1 ELSE 0)
               /\ ExitDue(j)' = ExitDue(j) + (IF a.type = "Exited" /\ a.id = j THEN 1 ELSE 0)
               /\ RefusalDue(j)' = RefusalDue(j)
                    + (IF a.type \in {"Refused", "PasswordNeeded"} /\ a.id = j THEN 1 ELSE 0)
               /\ OutputFirst(j) /\ (a.type = "Data" /\ a.id = j => ExitDue(j) = 0) => OutputFirst(j)'
      BY <1>1, <3>2, Told
    <3>5. ~ linked => SameToClient(j)
      BY <3>4
    <3> QED
      BY <1>3, <2>1, <3>1, <3>3, <3>4, <3>5 DEF SameToClient
  <2>2. CASE ~ serving
    <3>1. \A i \in Ids : SameToClient(i)
      BY <1>2, <2>2, SameQueues
    <3> QED
      BY <1>1, <1>2, <2>2, <3>1 DEF SameToClient, CommandsTyped
  <2> QED
    BY <2>1, <2>2
<1>5. \A i \in Ids : SameToHost(i) /\ SameOpening(i) /\ SameAtClient(i)
  BY <1>2, SameQueues DEF SameAtClient, clientSide
<1>6. /\ unread'[j] = IF serving THEN unread[j] - 1 ELSE 0
      /\ \A i \in Ids : i # j => unread'[i] = unread[i]
      /\ written' = written
  BY <1>1, <1>2 DEF CommandsTyped
<1>7. ASSUME NEW i \in Ids, i # j
      PROVE  ChannelKept(i)'
  <2>1. SameAtHost(i)
    BY <1>2, <1>6, <1>7 DEF SameAtHost
  <2> QED
    BY <1>1, <1>2, <1>4, <1>5, <1>7, <2>1, ChannelLeftAlone DEF clientSide
<1>8. ChannelKept(j)'
  <2>1. /\ OpenSent(j)' = OpenSent(j) /\ CloseSent(j)' = CloseSent(j)
        /\ DataTold(j)' = DataTold(j) /\ ExitTold(j)' = ExitTold(j) /\ ClosedTold(j)' = ClosedTold(j)
        /\ (InHand(j)' <=> InHand(j)) /\ ~ LaunchInHand(j)' /\ ~ Before(j)'
    BY <1>3, <1>5, SameTold DEF SameToHost, SameOpening, SameAtClient, Before
  <2>2. ExitDue(j)' = 0 /\ ~ (ExitDue(j)' > 0)
    BY <1>3, <1>4
  <2>3. Unborn(j)' /\ OpenedOnce(j)' /\ NotStarted(j)' /\ OnlyLaunched(j)'
    BY <1>1, <1>2, <1>3, <2>1 DEF ChannelKept, Unborn, OpenedOnce, NotStarted, OnlyLaunched, clientSide
  <2>4. RouteIsLive(j)' /\ RouteIsServed(j)' /\ ServedIsRouted(j)'
    BY <1>1, <1>2, <1>3, <1>4, <2>1
       DEF ChannelKept, RouteIsLive, RouteIsServed, ServedIsRouted, clientSide
  <2>5. OutputIsKept(j)'
    <3> SUFFICES ASSUME j \in routes, serving
                 PROVE  DataTold(j)' + DataDue(j)' + unread'[j] = written'[j]
      BY <1>2, <2>2 DEF OutputIsKept, clientSide
    <3>1. DataTold(j) + DataDue(j) + unread[j] = written[j] /\ linked
      BY <1>1 DEF ChannelKept, OutputIsKept, RouteIsLive
    <3>2. DataTold(j) \in Nat /\ DataDue(j) \in Nat /\ unread[j] \in Nat /\ written[j] \in Nat
      BY <1>1, NumbersAreNatural
    <3> QED
      BY <1>2, <1>4, <1>6, <2>1, <3>1, <3>2
  <2>6. EndIsSent(j)' /\ OutputFirst(j)' /\ EndIsTold(j)' /\ ClosedIsLast(j)'
    BY <1>1, <1>2, <1>3, <1>4, <2>1, <2>2 DEF ChannelKept, EndIsSent, EndIsTold, ClosedIsLast, clientSide
  <2> QED
    BY <2>3, <2>4, <2>5, <2>6 DEF ChannelKept
<1>9. CommandsTyped'
  <2>1. unread'[j] \in 0 .. MaxChunks /\ unread'[j] <= written[j]
    <3>1. /\ MaxChunks \in Nat /\ written[j] \in 0 .. MaxChunks /\ unread[j] \in 0 .. MaxChunks
          /\ unread[j] <= written[j]
      BY <1>1, CommandsAssumption DEF CommandsTyped
    <3> QED
      BY <1>2, <1>6, <3>1
  <2>2. unread' \in [Ids -> 0 .. MaxChunks]
    BY <1>1, <1>2, <1>6, <2>1 DEF CommandsTyped
  <2>3. \A i \in Ids : unread'[i] <= written'[i]
    BY <1>1, <1>6, <2>1 DEF CommandsTyped
  <2> QED
    BY <1>1, <1>2, <1>4, <2>2, <2>3 DEF CommandsTyped, clientSide
<1>10. HostIsTidy'
  BY <1>1, <1>2 DEF HostIsTidy
<1> QED
  BY <1>7, <1>8, <1>9, <1>10 DEF CommandsInv

LEMMA ReportStep ==
    ASSUME CommandsInv, NEW j \in Ids, Report(j)
    PROVE  CommandsInv'
<1>1. CommandsTyped /\ HostIsTidy /\ \A i \in Ids : ChannelKept(i)
  BY DEF CommandsInv
<1>2. /\ j \in waited /\ j \notin running /\ unread[j] = 0
      /\ waited' = waited \ {j} /\ listed' = listed \ {j} /\ shut' = shut \cup {j}
      /\ j \notin shut /\ serving => ToClient(<<Message("Exited", j)>>)
      /\ ~ (j \notin shut /\ serving) => UNCHANGED toClient
      /\ UNCHANGED <<clientSide, toHost, serving, opening, open, running, written, unread>>
  BY DEF Report, Joined
<1>3. /\ ~ Before(j) /\ ~ (j > opens) /\ ~ LaunchInHand(j)
  BY <1>1, <1>2 DEF ChannelKept, NotStarted, Unborn, OnlyLaunched
<1>4. /\ toClient' \in Seq(ClientMsgs)
      /\ \A i \in Ids : i # j \/ ~ linked \/ ~ serving \/ j \in shut => SameToClient(i)
      /\ linked /\ serving /\ j \notin shut => ExitDue(j)' > 0
      /\ DataDue(j)' = DataDue(j) /\ RefusalDue(j)' = RefusalDue(j)
      /\ OutputFirst(j) => OutputFirst(j)'
  <2>1. CASE serving /\ j \notin shut
    <3>1. PICK a \in ClientMsgs : a = Message("Exited", j) /\ a.type = "Exited" /\ a.id = j
      BY WhatIsTold
    <3>2. ToClient(<<a>>)
      BY <1>2, <2>1, <3>1
    <3>3. ExitDue(j) \in Nat /\ DataDue(j) \in Nat /\ RefusalDue(j) \in Nat
      BY <1>1, NumbersAreNatural
    <3>4. /\ toClient' \in Seq(ClientMsgs)
          /\ \A i \in Ids : a.id # i \/ ~ linked => SameToClient(i)
          /\ linked =>
               /\ DataDue(j)' = DataDue(j) + (IF a.type = "Data" /\ a.id = j THEN 1 ELSE 0)
               /\ ExitDue(j)' = ExitDue(j) + (IF a.type = "Exited" /\ a.id = j THEN 1 ELSE 0)
               /\ RefusalDue(j)' = RefusalDue(j)
                    + (IF a.type \in {"Refused", "PasswordNeeded"} /\ a.id = j THEN 1 ELSE 0)
               /\ OutputFirst(j) /\ (a.type = "Data" /\ a.id = j => ExitDue(j) = 0) => OutputFirst(j)'
      BY <1>1, <3>2, Told
    <3>5. ~ linked => SameToClient(j)
      BY <3>4
    <3> QED
      BY <2>1, <3>1, <3>3, <3>4, <3>5 DEF SameToClient
  <2>2. CASE ~ (serving /\ j \notin shut)
    <3>1. \A i \in Ids : SameToClient(i)
      BY <1>2, <2>2, SameQueues
    <3> QED
      BY <1>1, <1>2, <2>2, <3>1 DEF SameToClient, CommandsTyped
  <2> QED
    BY <2>1, <2>2
<1>5. \A i \in Ids : SameToHost(i) /\ SameOpening(i) /\ SameAtClient(i)
  BY <1>2, SameQueues DEF SameAtClient, clientSide
<1>6. ASSUME NEW i \in Ids, i # j
      PROVE  ChannelKept(i)'
  <2>1. SameAtHost(i)
    BY <1>2, <1>6 DEF SameAtHost
  <2> QED
    BY <1>1, <1>2, <1>4, <1>5, <1>6, <2>1, ChannelLeftAlone DEF clientSide
<1>7. ChannelKept(j)'
  <2>1. /\ OpenSent(j)' = OpenSent(j) /\ CloseSent(j)' = CloseSent(j)
        /\ DataTold(j)' = DataTold(j) /\ ExitTold(j)' = ExitTold(j) /\ ClosedTold(j)' = ClosedTold(j)
        /\ (InHand(j)' <=> InHand(j)) /\ ~ LaunchInHand(j)' /\ ~ Before(j)'
    BY <1>3, <1>5, SameTold DEF SameToHost, SameOpening, SameAtClient, Before
  <2>2. Unborn(j)' /\ OpenedOnce(j)' /\ NotStarted(j)' /\ OnlyLaunched(j)'
    BY <1>1, <1>2, <1>3, <2>1 DEF ChannelKept, Unborn, OpenedOnce, NotStarted, OnlyLaunched, clientSide
  <2>3. RouteIsLive(j)' /\ ServedIsRouted(j)'
    BY <1>1, <1>2, <1>3, <2>1 DEF ChannelKept, RouteIsLive, ServedIsRouted, clientSide
  <2>4. RouteIsServed(j)'
    BY <1>1, <1>2, <1>4 DEF ChannelKept, RouteIsLive, RouteIsServed, clientSide
  <2>5. OutputIsKept(j)'
    <3>1. CASE serving
      BY <1>1, <1>2, <1>4, <2>1, <3>1 DEF ChannelKept, OutputIsKept, clientSide
    <3>2. CASE ~ serving
      <4>1. ExitDue(j)' = ExitDue(j)
        BY <1>4, <3>2 DEF SameToClient
      <4> QED
        BY <1>1, <1>2, <1>4, <2>1, <3>2, <4>1 DEF ChannelKept, OutputIsKept, clientSide
    <3> QED
      BY <3>1, <3>2
  <2>6. EndIsSent(j)' /\ OutputFirst(j)' /\ EndIsTold(j)' /\ ClosedIsLast(j)'
    BY <1>1, <1>2, <1>3, <1>4, <2>1 DEF ChannelKept, EndIsSent, EndIsTold, ClosedIsLast, clientSide
  <2> QED
    BY <2>2, <2>3, <2>4, <2>5, <2>6 DEF ChannelKept
<1>8. CommandsTyped'
  BY <1>1, <1>2, <1>4 DEF CommandsTyped, clientSide
<1>9. HostIsTidy'
  BY <1>1, <1>2 DEF HostIsTidy
<1> QED
  BY <1>6, <1>7, <1>8, <1>9 DEF CommandsInv

LEMMA CommandsStep == CommandsInv /\ [CommandsNext]_commandVars => CommandsInv'
<1> SUFFICES ASSUME CommandsInv, [CommandsNext]_commandVars
             PROVE  CommandsInv'
  OBVIOUS
<1>1. CASE \E i \in Ids : OpenTimesOut(i) \/ CloseChannel(i) \/ Forward(i)
  BY <1>1, TimeOutStep, CloseStep, ForwardStep
<1>2. CASE \E i \in Ids : Write(i) \/ Exit(i) \/ Read(i) \/ Report(i)
  BY <1>2, WriteStep, ExitStep, ReadStep, ReportStep
<1>3. CASE Handle \/ ClientEnds \/ Start \/ Answer \/ TakeClose \/ HostEnds
  BY <1>3, HandleStep, ClientEndsStep, StartStep, AnswerStep, TakeCloseStep, HostEndsStep
<1>4. CASE \E kind \in ChannelKinds : Open(kind)
  BY <1>4, OpenStep
<1>5. CASE \E refuse \in {"no", "Refused", "PasswordNeeded"} : Take(refuse)
  BY <1>5, TakeStep
<1>6. CASE UNCHANGED commandVars
  <2>1. UNCHANGED <<clientSide, toHost, toClient, hostSide>>
    BY <1>6 DEF commandVars
  <2>2. CommandsTyped /\ HostIsTidy /\ \A i \in Ids : ChannelKept(i)
    BY DEF CommandsInv
  <2>3. CommandsTyped' /\ HostIsTidy'
    BY <2>1, <2>2 DEF CommandsTyped, HostIsTidy, clientSide, hostSide
  <2>4. ASSUME NEW i \in Ids
        PROVE  ChannelKept(i)'
    <3>1. SameToHost(i) /\ SameToClient(i) /\ SameOpening(i) /\ SameAtClient(i) /\ SameAtHost(i)
      BY <2>1, SameQueues DEF SameAtClient, SameAtHost, clientSide, hostSide
    <3> QED
      BY <2>1, <2>2, <3>1, ChannelLeftAlone DEF clientSide, hostSide
  <2> QED
    BY <2>3, <2>4 DEF CommandsInv
<1> QED
  BY <1>1, <1>2, <1>3, <1>4, <1>5, <1>6 DEF CommandsNext

-----------------------------------------------------------------------------
(* What the invariant says of what the app sees.                             *)

LEMMA CommandsInvSays == CommandsInv => CommandsAccountedFor
<1> SUFFICES ASSUME CommandsInv PROVE CommandsAccountedFor
  OBVIOUS
<1>1. CommandsTyped /\ HostIsTidy /\ \A i \in Ids : ChannelKept(i)
  BY DEF CommandsInv
<1>2. CommandsTypeOK
  <2>1. Cardinality(opening) <= 1
    <3>1. CASE opening = {}
      BY <3>1, FS_EmptySet
    <3>2. CASE \E o \in opening : opening = {o}
      BY <3>2, FS_Singleton
    <3> QED
      BY <1>1, <3>1, <3>2 DEF CommandsTyped
  <2>2. /\ toHost \in Seq([type : {"Close"}, id : Ids] \cup [type : {"Open"}, id : Ids, kind : ChannelKinds])
        /\ toClient \in Seq([type : Answers \cup {"Data", "Exited"}, id : Ids])
        /\ events \in [Ids -> Seq({"Data", "Exited", "Closed"})]
    BY <1>1 DEF CommandsTyped, HostMsgs, ClientMsgs, EventKinds
  <2> QED
    BY <1>1, <2>1, <2>2 DEF CommandsTypeOK, CommandsTyped
<1>3. ChannelsMatchCommands
  <2> SUFFICES ASSUME CommandsSettled
               PROVE  running \ late = routes /\ listed = running
    BY DEF ChannelsMatchCommands
  <2>1. listed = running
    BY <1>1 DEF CommandsSettled, HostIsTidy
  <2>2. ASSUME NEW i \in Ids
        PROVE  i \in routes <=> i \in running /\ i \notin late
    <3>1. /\ OpenSent(i) = 0 /\ CloseSent(i) = 0 /\ ExitDue(i) = 0 /\ RefusalDue(i) = 0
          /\ ~ Before(i) /\ ~ LaunchInHand(i)
      BY EmptyQueue DEF CommandsSettled, OpenSent, CloseSent, ExitDue, RefusalDue, Before,
                        Unstarted, LaunchInHand
    <3>2. linked = serving /\ waited = running
      BY DEF CommandsSettled
    <3>3. i \in routes => i \in running /\ i \notin late
      BY <1>1, <3>1, <3>2 DEF ChannelKept, RouteIsLive, RouteIsServed
    <3>4. i \in running /\ i \notin late => i \in routes
      BY <1>1, <3>1, <3>2 DEF ChannelKept, ServedIsRouted, HostIsTidy
    <3> QED
      BY <3>3, <3>4
  <2>3. routes \subseteq Ids /\ running \subseteq Ids
    BY <1>1 DEF CommandsTyped
  <2> QED
    BY <2>1, <2>2, <2>3
<1>4. EndComesLast
  <2>1. ASSUME NEW i \in Ids, \E n \in DOMAIN events[i] : events[i][n] = "Exited"
        PROVE  Cardinality({n \in DOMAIN events[i] : events[i][n] = "Data"}) = written[i]
    <3>1. events[i] \in Seq(EventKinds) /\ EndIsTold(i) /\ ExitTold(i) \in Nat
      BY <1>1, NumbersAreNatural DEF CommandsTyped, ChannelKept
    <3>2. ~ NoneOf(events[i], {"Exited"})
      BY <2>1 DEF NoneOf, Places
    <3>3. ExitTold(i) > 0
      BY <3>1, <3>2, NoneCountsZero DEF ExitTold
    <3>4. DataTold(i) = written[i]
      BY <3>1, <3>3 DEF EndIsTold
    <3>5. {n \in DOMAIN events[i] : events[i][n] = "Data"} = Places(events[i], {"Data"})
      BY DEF Places
    <3> QED
      BY <3>4, <3>5 DEF DataTold, Count
  <2> QED
    BY <1>1, <2>1 DEF EndComesLast, ChannelKept, ClosedIsLast
<1> QED
  BY <1>2, <1>3, <1>4 DEF CommandsAccountedFor

\* However a client's calls, the host's session loop and the threads of its commands
\* interleave, once all is quiet the channels of the app are the commands that run for
\* it, and the end of each is told last, after all of its output.
THEOREM CommandsAreAccountedFor == CommandsSpec => []CommandsAccountedFor
<1>1. CommandsInit => CommandsInv
  BY CommandsBegin
<1>2. CommandsInv /\ [CommandsNext]_commandVars => CommandsInv'
  BY CommandsStep
<1>3. CommandsInv => CommandsAccountedFor
  BY CommandsInvSays
<1> QED
  BY <1>1, <1>2, <1>3, PTL DEF CommandsSpec

===============================================================================
