----------------------------- MODULE CaptureProofs -----------------------------
(* Proofs about the agents' capture of windows, about the private session    *)
(* input goes to and about the secure screen's helper, for every bound and   *)
(* size and every number of sessions, processes and clients.                 *)
EXTENDS LinuxAgent, WindowsCapture, SecureScreen, FiniteSetTheorems, SequenceTheorems, TLAPS

-----------------------------------------------------------------------------
(* Input on Linux.  The generation only grows, and by one for every change   *)
(* of the display served; an injector keeps the generation read before it    *)
(* was made.  Equal generations therefore mean that nothing changed between  *)
(* the reading and now, the making included.                                 *)

Injectors == [tag : Nat, sway : Nat, devices : Nat, state : {"none", "made", "failed"}]

PrivateTypes ==
    /\ headless \in [number : Nat, running : BOOLEAN] /\ sways \in Nat
    /\ servedDisplay \in Nat /\ generation \in Nat
    /\ injector \in Injectors
    /\ typing \in {"idle", "checked", "connected", "made"}

TagIsOld == injector.tag <= generation

\* An event whose turn saw no change has the generation of its beginning.
TagIsFresh == typing # "idle" /\ ~switchedSince => injector.tag = generation

\* Only a display served under the injector's tag was connected to, as long
\* as that tag is the generation.
MadeInOneGeneration ==
    injector.tag = generation =>
        /\ typing = "connected" /\ injector.state # "failed" => injector.sway = servedDisplay
        /\ injector.state = "made" =>
             injector.sway = servedDisplay /\ injector.devices = servedDisplay

PrivateIInv == PrivateTypes /\ TagIsOld /\ TagIsFresh /\ MadeInOneGeneration

\* A change of the display leaves every older tag behind.
LEMMA ServeKeeps ==
    ASSUME PrivateIInv, NEW d \in Nat, SetDisplay(d), UNCHANGED <<injector, typing>>,
           headless' \in [number : Nat, running : BOOLEAN], sways' \in Nat
    PROVE  PrivateIInv'
<1>1. PrivateTypes'
  BY DEF PrivateIInv, PrivateTypes, SetDisplay
<1>2. CASE d = servedDisplay
  BY <1>1, <1>2 DEF PrivateIInv, SetDisplay, TagIsOld, TagIsFresh, MadeInOneGeneration
<1>3. CASE d # servedDisplay
  <2>1. generation' = generation + 1 /\ switchedSince' = TRUE
    BY <1>3 DEF SetDisplay
  <2>2. injector'.tag < generation'
    BY <2>1 DEF PrivateIInv, PrivateTypes, TagIsOld, Injectors
  <2> QED
    BY <1>1, <2>1, <2>2 DEF PrivateIInv, PrivateTypes, TagIsOld, TagIsFresh, MadeInOneGeneration, Injectors
<1> QED
  BY <1>2, <1>3

\* So does anything that leaves the display and the input alone.
LEMMA ElsewhereKeeps ==
    ASSUME PrivateIInv, UNCHANGED <<servedDisplay, generation, switchedSince, injector, typing>>,
           headless' \in [number : Nat, running : BOOLEAN], sways' \in Nat
    PROVE  PrivateIInv'
BY DEF PrivateIInv, PrivateTypes, TagIsOld, TagIsFresh, MadeInOneGeneration

LEMMA SetOffKeeps ==
    ASSUME PrivateIInv, SetOff, UNCHANGED <<injector, typing>>
    PROVE  PrivateIInv'
<1>0. headless' = headless \/ headless' = [number |-> 0, running |-> FALSE]
  BY DEF SetOff, NoSway
<1>1. headless' \in [number : Nat, running : BOOLEAN] /\ sways' \in Nat
  <2>1. CASE headless' = headless
    BY <2>1 DEF PrivateIInv, PrivateTypes, SetOff
  <2>2. CASE headless' = [number |-> 0, running |-> FALSE]
    BY <2>2 DEF PrivateIInv, PrivateTypes, SetOff
  <2> QED
    BY <1>0, <2>1, <2>2
<1>2. SetDisplay(Seat) \/ UNCHANGED displayVars
  BY DEF SetOff, ServeDisplay
<1>3. CASE SetDisplay(Seat)
  BY <1>1, <1>3, ServeKeeps DEF Seat
<1>4. CASE UNCHANGED displayVars
  BY <1>1, <1>4, ElsewhereKeeps DEF displayVars
<1> QED
  BY <1>2, <1>3, <1>4

LEMMA SetOnKeeps ==
    ASSUME PrivateIInv, SetOn, UNCHANGED <<injector, typing>>
    PROVE  PrivateIInv'
<1>0. \/ UNCHANGED <<headless, sways>>
      \/ sways' = sways + 1 /\ headless' = [number |-> sways + 1, running |-> TRUE]
  BY DEF SetOn, SetOnLinux, SetOnWindows, Starts
<1>1. headless' \in [number : Nat, running : BOOLEAN] /\ sways' \in Nat
  <2>1. CASE UNCHANGED <<headless, sways>>
    BY <2>1 DEF PrivateIInv, PrivateTypes
  <2>2. CASE sways' = sways + 1 /\ headless' = [number |-> sways + 1, running |-> TRUE]
    BY <2>2 DEF PrivateIInv, PrivateTypes
  <2> QED
    BY <1>0, <2>1, <2>2
<1>2. SetDisplay(headless'.number) \/ UNCHANGED displayVars
  BY DEF SetOn, SetOnLinux, SetOnWindows, ServeDisplay
<1>3. CASE SetDisplay(headless'.number)
  <2>1. headless'.number \in Nat
    BY <1>1
  <2> QED
    BY <1>1, <1>3, <2>1, ServeKeeps
<1>4. CASE UNCHANGED displayVars
  BY <1>1, <1>4, ElsewhereKeeps DEF displayVars
<1> QED
  BY <1>2, <1>3, <1>4

LEMMA InputKeeps ==
    ASSUME PrivateIInv, InputChecks \/ ConnectsSway \/ ConnectsDevices \/ Injects
    PROVE  PrivateIInv'
<1> USE DEF PrivateIInv, PrivateTypes
<1>1. CASE InputChecks
  <2>1. CASE injector.state # "none" /\ injector.tag = generation
    BY <1>1, <2>1 DEF InputChecks, TagIsOld, TagIsFresh, MadeInOneGeneration
  <2>2. CASE ~(injector.state # "none" /\ injector.tag = generation)
    <3>1. injector' = [tag |-> generation, sway |-> 0, devices |-> 0, state |-> "none"]
      BY <1>1, <2>2 DEF InputChecks, NoInjector
    <3> QED
      BY <1>1, <2>2, <3>1 DEF InputChecks, Injectors, TagIsOld, TagIsFresh, MadeInOneGeneration
  <2> QED
    BY <2>1, <2>2
<1>2. CASE ConnectsSway
  <2>1. /\ injector' \in Injectors /\ injector'.tag = injector.tag
        /\ injector'.sway = servedDisplay /\ injector'.state # "made"
    BY <1>2 DEF ConnectsSway, Injectors
  <2> QED
    BY <1>2, <2>1 DEF ConnectsSway, InputStep, displayVars, TagIsOld, TagIsFresh, MadeInOneGeneration
<1>3. CASE ConnectsDevices
  <2>1. CASE injector.state = "failed" \/ ~Alive(servedDisplay)
    <3>1. /\ injector' \in Injectors /\ injector'.tag = injector.tag
          /\ injector'.state = "failed"
      BY <1>3, <2>1 DEF ConnectsDevices, Injectors
    <3> QED
      BY <1>3, <3>1 DEF ConnectsDevices, InputStep, displayVars, TagIsOld, TagIsFresh, MadeInOneGeneration
  <2>2. CASE ~(injector.state = "failed" \/ ~Alive(servedDisplay))
    <3>0. TagsAsRead(injector) \in Injectors
      BY DEF TagsAsRead, Injectors
    <3>1. /\ injector' \in Injectors /\ injector'.tag = injector.tag /\ injector'.sway = injector.sway
          /\ injector'.devices = servedDisplay /\ injector'.state = "made"
      BY <1>3, <2>2, <3>0 DEF ConnectsDevices, Injectors, TagsAsRead
    <3> QED
      BY <1>3, <2>2, <3>1
      DEF ConnectsDevices, InputStep, displayVars, TagIsOld, TagIsFresh, MadeInOneGeneration
  <2> QED
    BY <2>1, <2>2
<1>4. CASE Injects
  BY <1>4 DEF Injects, InputStep, displayVars, TagIsOld, TagIsFresh, MadeInOneGeneration
<1> QED
  BY <1>1, <1>2, <1>3, <1>4

LEMMA PrivateInitial == PrivateInit => PrivateIInv
BY DEF PrivateInit, PrivateIInv, PrivateTypes, TagIsOld, TagIsFresh, MadeInOneGeneration, NoSway,
   NoInjector, Seat, Injectors

LEMMA PrivateStep == PrivateIInv /\ [PrivateNext]_privateVars => PrivateIInv'
<1> SUFFICES ASSUME PrivateIInv, [PrivateNext]_privateVars
             PROVE  PrivateIInv'
  OBVIOUS
<1>0. headless \in [number : Nat, running : BOOLEAN] /\ sways \in Nat
  BY DEF PrivateIInv, PrivateTypes
<1>1. ASSUME NEW s \in PrivateSessions, AskStart(s)
      PROVE  PrivateIInv'
  <2>1. UNCHANGED <<injector, typing>> /\ (SetOn \/ UNCHANGED <<headless, on, displayVars, sways>>)
    BY <1>1 DEF AskStart, ClientAsks, inputVarsP
  <2> QED
    BY <1>0, <2>1, SetOnKeeps, ElsewhereKeeps DEF displayVars
<1>2. ASSUME NEW s \in PrivateSessions, AskEnd(s)
      PROVE  PrivateIInv'
  BY <1>2, SetOffKeeps DEF AskEnd, ClientAsks, inputVarsP
<1>3. ASSUME NEW s \in PrivateSessions, SessionGoes(s)
      PROVE  PrivateIInv'
  BY <1>0, <1>3, ElsewhereKeeps DEF SessionGoes, inputVarsP, displayVars
<1>4. CASE OptionChanges
  BY <1>0, <1>4, ElsewhereKeeps DEF OptionChanges, inputVarsP, displayVars
<1>5. CASE SwayStops
  BY <1>0, <1>5, ElsewhereKeeps DEF SwayStops, inputVarsP, displayVars
<1>6. CASE HostState
  <2>1. /\ UNCHANGED <<injector, typing, sways>> /\ headless' \in [number : Nat, running : BOOLEAN]
        /\ SetDisplay(Seat) \/ UNCHANGED displayVars
    BY <1>6 DEF HostState, inputVarsP, ServeDisplay, NoSway
  <2> QED
    BY <1>0, <2>1, ServeKeeps, ElsewhereKeeps DEF Seat, displayVars
<1>7. CASE EndPrivate
  BY <1>7, SetOffKeeps DEF EndPrivate, inputVarsP
<1>8. CASE InputChecks \/ ConnectsSway \/ ConnectsDevices \/ Injects
  BY <1>8, InputKeeps
<1>9. CASE UNCHANGED privateVars
  BY <1>0, <1>9, ElsewhereKeeps DEF privateVars, displayVars
<1> QED
  BY <1>1, <1>2, <1>3, <1>4, <1>5, <1>6, <1>7, <1>8, <1>9 DEF PrivateNext

\* LinuxSource::input: whatever display::set does while an injector is made or
\* kept, an event goes to the devices and the windows of the one compositor
\* that is served, unless it changed during the event's own turn.
THEOREM InputIsServed == PrivateSpec => []InputGoesToTheServed
<1>1. PrivateIInv => InputGoesToTheServed
  BY DEF PrivateIInv, TagIsFresh, MadeInOneGeneration, InputGoesToTheServed
<1> QED
  BY PrivateInitial, PrivateStep, <1>1, PTL DEF PrivateSpec

-----------------------------------------------------------------------------
(* The events of a Media Foundation transform.  An event is on its way twice *)
(* over: raised, or taken by BeginGetEvent and not looked at; the second     *)
(* place holds one.  Counting them needs to know how a count of places in a  *)
(* sequence changes at its two ends.                                         *)

EventKinds == {"NeedInput", "HaveOutput"}

Places(s, k) == {i \in DOMAIN s : s[i] = k}
CountOf(s, k) == Cardinality(Places(s, k))

LEMMA PlacesAreFinite ==
    ASSUME NEW S, NEW s \in Seq(S), NEW k
    PROVE  IsFiniteSet(Places(s, k)) /\ CountOf(s, k) \in Nat /\ Places(s, k) \in SUBSET (1..Len(s))
<1>1. IsFiniteSet(1..Len(s)) /\ Places(s, k) \in SUBSET (1..Len(s))
  BY FS_Interval DEF Places
<1> QED
  BY <1>1, FS_Subset, FS_CardinalityType DEF CountOf

LEMMA CountOfAppend ==
    ASSUME NEW S, NEW s \in Seq(S), NEW e \in S, NEW k
    PROVE  CountOf(Append(s, e), k) = CountOf(s, k) + (IF e = k THEN 1 ELSE 0)
<1>1. CASE e = k
  <2>1. Places(Append(s, e), k) = Places(s, k) \cup {Len(s) + 1}
    BY <1>1 DEF Places
  <2>2. Len(s) + 1 \notin Places(s, k)
    BY DEF Places
  <2> QED
    BY <1>1, <2>1, <2>2, PlacesAreFinite, FS_AddElement DEF CountOf
<1>2. CASE e # k
  <2>1. Places(Append(s, e), k) = Places(s, k)
    BY <1>2 DEF Places
  <2> QED
    BY <1>2, <2>1, PlacesAreFinite DEF CountOf
<1> QED
  BY <1>1, <1>2

LEMMA CountOfTail ==
    ASSUME NEW S, NEW s \in Seq(S), s # <<>>, NEW k
    PROVE  CountOf(s, k) = CountOf(Tail(s), k) + (IF Head(s) = k THEN 1 ELSE 0)
<1> DEFINE Later == Places(s, k) \ {1}
           Shift == [i \in Later |-> i - 1]
<1>1. Tail(s) \in Seq(S) /\ Len(Tail(s)) = Len(s) - 1 /\ \A i \in 1..Len(Tail(s)) : Tail(s)[i] = s[i + 1]
  BY HeadTailProperties
<1>2. IsFiniteSet(Places(s, k)) /\ IsFiniteSet(Later) /\ IsFiniteSet(Places(Tail(s), k))
      /\ CountOf(s, k) \in Nat /\ CountOf(Tail(s), k) \in Nat
  BY <1>1, PlacesAreFinite, FS_RemoveElement
<1>3. \A i \in Later : i \in 2..Len(s) /\ i - 1 \in Places(Tail(s), k)
  BY <1>1 DEF Places
<1>4. \A j \in Places(Tail(s), k) : j + 1 \in Later
  BY <1>1 DEF Places
<1>5. Shift \in Bijection(Later, Places(Tail(s), k))
  <2>1. Shift \in [Later -> Places(Tail(s), k)]
    BY <1>3
  <2>2. \A a, b \in Later : Shift[a] = Shift[b] => a = b
    BY <1>3
  <2>3. \A j \in Places(Tail(s), k) : j + 1 \in Later /\ Shift[j + 1] = j
    BY <1>1, <1>4 DEF Places
  <2>4. \A j \in Places(Tail(s), k) : \E i \in Later : Shift[i] = j
    BY <2>3
  <2> QED
    BY <2>1, <2>2, <2>4 DEF Bijection, Injection, Surjection, IsInjective
<1>6. Cardinality(Later) = CountOf(Tail(s), k)
  BY <1>2, <1>5, FS_Bijection DEF CountOf, ExistsBijection
<1>7. (1 \in Places(s, k)) <=> Head(s) = k
  BY DEF Places
<1> QED
  BY <1>2, <1>6, <1>7, FS_RemoveElement DEF CountOf

EncoderTypes ==
    /\ raised \in Seq(EventKinds)
    /\ arrived \in Seq(EventKinds) /\ Len(arrived) <= 1
    /\ invited \in Nat /\ need_input \in Nat /\ pictures \in Nat
    /\ inside \in Seq(Nat) /\ ready \in Seq(Nat)
    /\ call \in [on : BOOLEAN, given : BOOLEAN, out : Seq(Nat)]

\* NoEventIsLost, with the one event taken counted for itself.
InHand(k) == IF arrived = <<k>> THEN 1 ELSE 0
EventsAreCounted ==
    /\ invited = need_input + CountOf(raised, "NeedInput") + InHand("NeedInput")
    /\ Len(ready) = CountOf(raised, "HaveOutput") + InHand("HaveOutput")

EncoderIInv == EncoderTypes /\ EventsAreCounted

LEMMA NothingOrOne ==
    ASSUME NEW a \in Seq(EventKinds), Len(a) <= 1
    PROVE  a = <<>> \/ \E e \in EventKinds : a = <<e>>
<1>1. Len(a) \in Nat /\ (a # <<>> => Len(a) # 0)
  BY EmptySeq
<1>2. CASE Len(a) = 0
  BY <1>1, <1>2
<1>3. CASE Len(a) = 1
  <2>1. a[1] \in EventKinds /\ a = <<a[1]>>
    BY <1>3
  <2> QED
    BY <2>1
<1>4. Len(a) = 0 \/ Len(a) = 1
  BY <1>1
<1> QED
  BY <1>2, <1>3, <1>4

LEMMA CountsAdd ==
    ASSUME NEW r \in Seq(EventKinds), NEW a \in Seq(EventKinds), Len(a) <= 1, NEW k \in EventKinds
    PROVE  CountOf(r \o a, k) = CountOf(r, k) + (IF a = <<k>> THEN 1 ELSE 0)
<1>1. CountOf(r, k) \in Nat
  BY PlacesAreFinite
<1>2. CASE a = <<>>
  <2>1. r \o a = r
    BY <1>2, ConcatEmptySeq
  <2> QED
    BY <1>1, <1>2, <2>1
<1>3. ASSUME NEW e \in EventKinds, a = <<e>>
      PROVE  CountOf(r \o a, k) = CountOf(r, k) + (IF a = <<k>> THEN 1 ELSE 0)
  <2>1. r \o a = Append(r, e)
    BY <1>3, AppendIsConcat
  <2>2. a = <<k>> <=> e = k
    BY <1>3
  <2> QED
    BY <2>1, <2>2, CountOfAppend
<1> QED
  BY <1>2, <1>3, NothingOrOne

LEMMA CountedMeansKept == EncoderIInv => NoEventIsLost
<1> SUFFICES ASSUME EncoderIInv PROVE NoEventIsLost
  OBVIOUS
<1>1. \A k \in EventKinds : EventsOf(k) = CountOf(raised \o arrived, k)
  BY DEF EventsOf, CountOf, Places
<1>2. \A k \in EventKinds : EventsOf(k) = CountOf(raised, k) + InHand(k)
  BY <1>1, CountsAdd DEF EncoderIInv, EncoderTypes, InHand
<1>3. CountOf(raised, "NeedInput") \in Nat
  BY PlacesAreFinite DEF EncoderIInv, EncoderTypes
<1> QED
  BY <1>2, <1>3 DEF NoEventIsLost, EventKinds, EncoderIInv, EventsAreCounted, EncoderTypes, InHand

LEMMA EncoderInitial == EncoderInit => EncoderIInv
<1> SUFFICES ASSUME EncoderInit PROVE EncoderIInv
  OBVIOUS
<1>1. EncoderTypes
  <2>1. raised \in Seq(EventKinds) /\ arrived \in Seq(EventKinds) /\ Len(arrived) = 0
    BY EmptySeq DEF EncoderInit
  <2>2. call \in [on : BOOLEAN, given : BOOLEAN, out : Seq(Nat)]
    BY EmptySeq DEF EncoderInit, NoCall
  <2> QED
    BY <2>1, <2>2, EmptySeq DEF EncoderInit, EncoderTypes
<1>2. \A k : Places(raised, k) = {}
  BY DEF EncoderInit, Places
<1>3. \A k : CountOf(raised, k) = 0
  BY <1>2, FS_EmptySet DEF CountOf
<1> QED
  BY <1>1, <1>3 DEF EncoderIInv, EventsAreCounted, EncoderInit, InHand

\* A step that leaves the events, the invitations and the outputs alone.
LEMMA EventsAloneKeeps ==
    ASSUME EncoderIInv, EncoderTypes', UNCHANGED <<raised, arrived, invited, need_input, ready>>
    PROVE  EncoderIInv'
BY DEF EncoderIInv, EventsAreCounted, InHand

LEMMA OpeningKeeps ==
    ASSUME EncoderIInv, NEW from, NEW to, Opening(from, to)
    PROVE  EncoderIInv'
BY EventsAloneKeeps DEF Opening, transform, EncoderIInv, EncoderTypes

\* The transform raises an event with what it is about.
LEMMA WantsInputKeeps ==
    ASSUME EncoderIInv, WantsInput
    PROVE  EncoderIInv'
<1> USE DEF EncoderIInv, EncoderTypes
<1>1. raised' = Append(raised, "NeedInput") /\ invited' = invited + 1
      /\ UNCHANGED <<arrived, need_input, pictures, inside, ready, call>>
  BY DEF WantsInput
<1>2. "NeedInput" \in EventKinds
  BY DEF EventKinds
<1>3. EncoderTypes'
  BY <1>1, <1>2
<1>4. \A k \in EventKinds : CountOf(raised', k) = CountOf(raised, k) + (IF "NeedInput" = k THEN 1 ELSE 0)
  BY <1>1, <1>2, CountOfAppend
<1>5. \A k \in EventKinds : CountOf(raised, k) \in Nat
  BY PlacesAreFinite
<1>7. /\ CountOf(raised', "NeedInput") = CountOf(raised, "NeedInput") + 1
      /\ CountOf(raised', "HaveOutput") = CountOf(raised, "HaveOutput") + 0
  BY <1>4 DEF EventKinds
<1>8. InHand("NeedInput") \in Nat /\ InHand("HaveOutput") \in Nat
      /\ InHand("NeedInput")' = InHand("NeedInput") /\ InHand("HaveOutput")' = InHand("HaveOutput")
  BY <1>1 DEF InHand
<1>9. CountOf(raised, "NeedInput") \in Nat /\ CountOf(raised, "HaveOutput") \in Nat
  BY <1>5 DEF EventKinds
<1>10. invited \in Nat /\ need_input \in Nat /\ Len(ready) \in Nat
  OBVIOUS
<1>11. EventsAreCounted'
  BY <1>1, <1>3, <1>7, <1>8, <1>9, <1>10, SMTT(30) DEF EventsAreCounted
<1> QED
  BY <1>3, <1>11

LEMMA HasOutputKeeps ==
    ASSUME EncoderIInv, HasOutput
    PROVE  EncoderIInv'
<1> USE DEF EncoderIInv, EncoderTypes
<1>1. raised' = Append(raised, "HaveOutput") /\ ready' = Append(ready, Head(inside)) /\ inside' = Tail(inside)
      /\ UNCHANGED <<arrived, need_input, pictures, invited, call>> /\ inside # <<>>
  BY DEF HasOutput
<1>2. "HaveOutput" \in EventKinds
  BY DEF EventKinds
<1>6. Head(inside) \in Nat /\ Tail(inside) \in Seq(Nat)
  BY <1>1, HeadTailProperties
<1>3. EncoderTypes' /\ Len(ready') = Len(ready) + 1
  BY <1>1, <1>2, <1>6
<1>4. \A k \in EventKinds : CountOf(raised', k) = CountOf(raised, k) + (IF "HaveOutput" = k THEN 1 ELSE 0)
  BY <1>1, <1>2, CountOfAppend
<1>5. \A k \in EventKinds : CountOf(raised, k) \in Nat
  BY PlacesAreFinite
<1>7. /\ CountOf(raised', "NeedInput") = CountOf(raised, "NeedInput") + 0
      /\ CountOf(raised', "HaveOutput") = CountOf(raised, "HaveOutput") + 1
  BY <1>4 DEF EventKinds
<1>8. InHand("NeedInput") \in Nat /\ InHand("HaveOutput") \in Nat
      /\ InHand("NeedInput")' = InHand("NeedInput") /\ InHand("HaveOutput")' = InHand("HaveOutput")
  BY <1>1 DEF InHand
<1>9. CountOf(raised, "NeedInput") \in Nat /\ CountOf(raised, "HaveOutput") \in Nat
  BY <1>5 DEF EventKinds
<1>10. invited \in Nat /\ need_input \in Nat /\ Len(ready) \in Nat
  OBVIOUS
<1>11. EventsAreCounted'
  BY <1>1, <1>3, <1>7, <1>8, <1>9, <1>10, SMTT(30) DEF EventsAreCounted
<1> QED
  BY <1>3, <1>11

\* BeginGetEvent is answered with the oldest event: one less raised, one taken.
LEMMA InvokeKeeps ==
    ASSUME EncoderIInv, Invoke
    PROVE  EncoderIInv'
<1> USE DEF EncoderIInv, EncoderTypes
<1>1. raised' = Tail(raised) /\ arrived' = <<Head(raised)>> /\ arrived = <<>> /\ raised # <<>>
      /\ UNCHANGED <<need_input, pictures, invited, inside, ready, call>>
  BY DEF Invoke
<1>2. Head(raised) \in EventKinds /\ Tail(raised) \in Seq(EventKinds)
  BY <1>1, HeadTailProperties
<1>3. EncoderTypes'
  BY <1>1, <1>2
<1>4. \A k \in EventKinds : CountOf(raised, k) = CountOf(raised', k) + (IF Head(raised) = k THEN 1 ELSE 0)
  BY <1>1, CountOfTail
<1>5. \A k \in EventKinds : CountOf(raised', k) \in Nat
  BY <1>1, <1>2, PlacesAreFinite
<1>6. \A k \in EventKinds : arrived # <<k>> /\ (arrived' = <<k>> <=> Head(raised) = k)
  BY <1>1
<1> QED
  BY <1>1, <1>3, <1>4, <1>5, <1>6 DEF EventsAreCounted, EventKinds, InHand

\* encode_sync: no events at all.
LEMMA EncodeSyncKeeps ==
    ASSUME EncoderIInv, EncodeSync
    PROVE  EncoderIInv'
<1> USE DEF EncoderIInv, EncoderTypes
<1>1. PICK n \in 0..Len(Append(inside, pictures')) :
        inside' = SubSeq(Append(inside, pictures'), n + 1, Len(Append(inside, pictures')))
  BY DEF EncodeSync
<1>2. pictures' \in Nat /\ UNCHANGED <<raised, arrived, invited, need_input, ready, call>>
  BY DEF EncodeSync
<1>3. Append(inside, pictures') \in Seq(Nat)
  BY <1>2, AppendProperties
<1>4. inside' \in Seq(Nat)
  <2> DEFINE all == Append(inside, pictures')
  <2>1. \A i \in n + 1 .. Len(all) : all[i] \in Nat
    BY <1>3
  <2>2. n + 1 \in Int /\ Len(all) \in Int
    BY <1>1, <1>3
  <2> HIDE DEF all
  <2> QED
    BY <1>1, <2>1, <2>2, SubSeqProperties DEF all
<1>5. EncoderTypes'
  BY <1>2, <1>4
<1> QED
  BY <1>2, <1>5, EventsAloneKeeps

Calls == [on : BOOLEAN, given : BOOLEAN, out : Seq(Nat)]

\* An input invited is one that need_input remembers, or one announced.
LEMMA BeginEncodeKeeps ==
    ASSUME EncoderIInv, BeginEncode
    PROVE  EncoderIInv'
<1> USE DEF EncoderIInv, EncoderTypes
<1>1. /\ pictures' = pictures + 1 /\ UNCHANGED <<raised, arrived, ready>>
      /\ call' = [on |-> TRUE, given |-> need_input > 0, out |-> <<>>]
  BY DEF BeginEncode
<1>2. call' \in Calls
  BY <1>1, EmptySeq DEF Calls
<1>3. CountOf(raised, "NeedInput") \in Nat /\ InHand("NeedInput") \in Nat
  BY PlacesAreFinite DEF InHand
<1>4. CASE need_input > 0
  <2>1. need_input' = need_input - 1 /\ invited' = invited - 1 /\ inside' = Append(inside, pictures')
    BY <1>4 DEF BeginEncode, ProcessInput
  <2>2. inside' \in Seq(Nat)
    BY <1>1, <2>1, AppendProperties
  <2>3. need_input' \in Nat /\ invited' \in Nat
    <3>1. PICK n, h : n = CountOf(raised, "NeedInput") /\ h = InHand("NeedInput")
      OBVIOUS
    <3>2. invited = need_input + n + h /\ n \in Nat /\ h \in Nat /\ need_input \in Nat
      BY <1>3, <3>1 DEF EventsAreCounted
    <3>. QED
      BY <1>4, <2>1, <3>2
  <2>4. EncoderTypes'
    BY <1>1, <1>2, <2>2, <2>3 DEF Calls
  <2>5. InHand("NeedInput")' = InHand("NeedInput") /\ InHand("HaveOutput")' = InHand("HaveOutput")
    BY <1>1 DEF InHand
  <2>6. invited \in Nat /\ need_input \in Nat
    OBVIOUS
  <2>7. EventsAreCounted'
    <3>1. PICK n, h : n = CountOf(raised, "NeedInput") /\ h = InHand("NeedInput")
      OBVIOUS
    <3>2. invited = need_input + n + h /\ n \in Nat /\ h \in Nat
      BY <1>3, <3>1 DEF EventsAreCounted
    <3>3. invited' = need_input' + n + h
      BY <2>1, <2>6, <3>2
    <3>4. invited' = need_input' + CountOf(raised', "NeedInput") + InHand("NeedInput")'
      BY <1>1, <2>5, <3>1, <3>3
    <3>5. Len(ready') = CountOf(raised', "HaveOutput") + InHand("HaveOutput")'
      BY <1>1, <2>5 DEF EventsAreCounted
    <3>. QED
      BY <3>4, <3>5 DEF EventsAreCounted
  <2> QED
    BY <2>4, <2>7
<1>5. CASE ~(need_input > 0)
  <2>1. UNCHANGED <<need_input, invited, inside>>
    BY <1>5 DEF BeginEncode
  <2> QED
    BY <1>1, <1>2, <2>1, EventsAloneKeeps DEF Calls
<1> QED
  BY <1>4, <1>5

LEMMA AskForEventKeeps ==
    ASSUME EncoderIInv, AskForEvent \/ NoEventInTime
    PROVE  EncoderIInv'
<1> USE DEF EncoderIInv, EncoderTypes
<1>1. CASE AskForEvent
  BY <1>1, EventsAloneKeeps DEF AskForEvent, transform
<1>2. CASE NoEventInTime
  <2>1. call' = [on |-> FALSE, given |-> FALSE, out |-> <<>>]
        /\ UNCHANGED <<raised, arrived, invited, need_input, ready, inside, pictures>>
    BY <1>2 DEF NoEventInTime, Returns, NoCall, transform
  <2>2. call' \in Calls
    BY <2>1, EmptySeq DEF Calls
  <2> QED
    BY <2>1, <2>2, EventsAloneKeeps DEF Calls
<1> QED
  BY <1>1, <1>2

\* The event taken is looked at, and what it announced is used or remembered.
LEMMA OnNeedInputKeeps ==
    ASSUME EncoderIInv, OnNeedInput
    PROVE  EncoderIInv'
<1> USE DEF EncoderIInv, EncoderTypes
<1>1. /\ arrived = <<"NeedInput">> /\ arrived' = <<>> /\ UNCHANGED <<raised, ready, pictures>>
      /\ InHand("NeedInput") = 1 /\ InHand("HaveOutput") = 0
      /\ InHand("NeedInput")' = 0 /\ InHand("HaveOutput")' = 0
  BY DEF OnNeedInput, TakesEvent, InHand
<1>2. CountOf(raised, "NeedInput") \in Nat /\ CountOf(raised, "HaveOutput") \in Nat /\ Len(ready) \in Nat
  BY PlacesAreFinite
<1>3. arrived' \in Seq(EventKinds) /\ Len(arrived') <= 1
  BY <1>1, EmptySeq
<1>4. CASE call.given
  <2>1. need_input' = need_input + 1 /\ UNCHANGED <<call, invited, inside>>
    BY <1>4 DEF OnNeedInput, EventRemembered
  <2>2. EncoderTypes'
    BY <1>1, <1>3, <2>1
  <2>3. EventsAreCounted'
    BY <1>1, <1>2, <2>1 DEF EventsAreCounted
  <2> QED
    BY <2>2, <2>3
<1>5. CASE ~call.given
  <2>1. need_input' = need_input /\ invited' = invited - 1 /\ inside' = Append(inside, pictures)
        /\ call' = [call EXCEPT !.given = TRUE]
    BY <1>5 DEF OnNeedInput, ProcessInput
  <2>2. call' \in Calls
    BY <2>1 DEF Calls
  <2>3. inside' \in Seq(Nat)
    BY <2>1, AppendProperties
  <2>4. invited' \in Nat
    BY <1>1, <1>2, <2>1 DEF EventsAreCounted
  <2>5. EncoderTypes'
    BY <1>1, <1>3, <2>1, <2>2, <2>3, <2>4 DEF Calls
  <2>6. EventsAreCounted'
    BY <1>1, <1>2, <2>1 DEF EventsAreCounted
  <2> QED
    BY <2>5, <2>6
<1> QED
  BY <1>4, <1>5

\* An output that announces a change of type is announced once more.
LEMMA OnHaveOutputKeeps ==
    ASSUME EncoderIInv, OnHaveOutput
    PROVE  EncoderIInv'
<1> USE DEF EncoderIInv, EncoderTypes
<1>1. /\ arrived = <<"HaveOutput">> /\ arrived' = <<>>
      /\ UNCHANGED <<invited, inside, need_input, pictures>>
      /\ InHand("NeedInput") = 0 /\ InHand("HaveOutput") = 1
      /\ InHand("NeedInput")' = 0 /\ InHand("HaveOutput")' = 0
  BY DEF OnHaveOutput, TakesEvent, InHand
<1>2. CountOf(raised, "NeedInput") \in Nat /\ CountOf(raised, "HaveOutput") \in Nat /\ Len(ready) \in Nat
  BY PlacesAreFinite
<1>3. arrived' \in Seq(EventKinds) /\ Len(arrived') <= 1
  BY <1>1, EmptySeq
<1>4. ready # <<>> /\ Head(ready) \in Nat /\ Tail(ready) \in Seq(Nat) /\ Len(Tail(ready)) = Len(ready) - 1
  <2>1. Len(ready) # 0
    BY <1>1, <1>2 DEF EventsAreCounted
  <2>2. ready # <<>>
    BY <2>1, EmptySeq
  <2> QED
    BY <2>2, HeadTailProperties
<1>5. call \in Calls
  BY DEF Calls
<1>6. NoCall \in Calls /\ \A o \in Seq(Nat) : [call EXCEPT !.out = o] \in Calls
  BY <1>5, EmptySeq DEF Calls, NoCall
<1>7. CASE ready' = Tail(ready) /\ UNCHANGED raised
  <2>1. call' \in Calls
    <3>1. call' = NoCall \/ call' = [call EXCEPT !.out = Append(call.out, Head(ready))] \/ call' = call
      BY DEF OnHaveOutput, Returns
    <3>2. Append(call.out, Head(ready)) \in Seq(Nat)
      BY <1>4, <1>5, AppendProperties DEF Calls
    <3> QED
      BY <1>5, <1>6, <3>1, <3>2
  <2>2. EncoderTypes'
    BY <1>1, <1>3, <1>4, <1>7, <2>1 DEF Calls
  <2>3. EventsAreCounted'
    BY <1>1, <1>2, <1>4, <1>7 DEF EventsAreCounted
  <2> QED
    BY <2>2, <2>3
<1>8. CASE raised' = Append(raised, "HaveOutput") /\ UNCHANGED ready /\ (call' = NoCall \/ call' = call)
  <2>1. "HaveOutput" \in EventKinds /\ "NeedInput" \in EventKinds
    BY DEF EventKinds
  <2>2. EncoderTypes'
    BY <1>1, <1>3, <1>5, <1>6, <1>8, <2>1 DEF Calls
  <2>3. /\ CountOf(raised', "NeedInput") = CountOf(raised, "NeedInput") + 0
        /\ CountOf(raised', "HaveOutput") = CountOf(raised, "HaveOutput") + 1
    <3>1. \A k \in EventKinds : CountOf(raised', k) = CountOf(raised, k) + (IF "HaveOutput" = k THEN 1 ELSE 0)
      BY <1>8, <2>1, CountOfAppend
    <3> QED
      BY <3>1 DEF EventKinds
  <2>4. EventsAreCounted'
    BY <1>1, <1>2, <1>8, <2>3 DEF EventsAreCounted
  <2> QED
    BY <2>2, <2>4
<1> QED
  BY <1>7, <1>8 DEF OnHaveOutput, Returns

LEMMA EncoderStep == EncoderIInv /\ [EncoderNext]_encoderVars => EncoderIInv'
<1> SUFFICES ASSUME EncoderIInv, [EncoderNext]_encoderVars
             PROVE  EncoderIInv'
  OBVIOUS
<1>1. CASE CandidateFails \/ Activates \/ TakesDevice \/ TakesTypes \/ StartsStreaming
  BY <1>1, OpeningKeeps DEF CandidateFails, Activates, TakesDevice, TakesTypes, StartsStreaming
<1>2. CASE UNCHANGED encoderVars
  BY <1>2, EventsAloneKeeps DEF encoderVars, EncoderIInv, EncoderTypes
<1> QED
  BY <1>1, <1>2, WantsInputKeeps, HasOutputKeeps, InvokeKeeps, EncodeSyncKeeps, BeginEncodeKeeps,
     AskForEventKeeps, OnNeedInputKeeps, OnHaveOutputKeeps DEF EncoderNext

\* AsyncEvents: no order of events, calls and time-outs loses one.
THEOREM EventsAreKept == EncoderSpec => []NoEventIsLost
BY EncoderInitial, EncoderStep, CountedMeansKept, PTL DEF EncoderSpec

-----------------------------------------------------------------------------
(* The frames of a window on Windows.  What the track carried last, what is  *)
(* to be announced, what waits in `pending` and what the encoder holds all   *)
(* belong to one size; a size still to be announced has a keyframe first.    *)

Units == [size : Nat, key : BOOLEAN]
Settings == [fps : Nat, bitrate : Nat]
Streams == [size : Nat, generation : Nat, settings : Settings, pending : Seq(Units), announce : Nat,
            quality : [half : BOOLEAN, fps : Nat, bitrate : Nat],
            ended : {"no", "capture", "window", "failed", "encoding"}]
Encoders == [kind : {"none", "mf", "openh264"}, textures : BOOLEAN, size : Nat, force : BOOLEAN,
             held : Seq(Units)]
Captures == [kind : {"window", "desktop"}, pool : Nat, converter : BOOLEAN, output : BOOLEAN,
             texture : Nat, nv12 : Nat, pixels : Nat]
OptionStates == [o : WinOptions, generation : Nat]
Turns == [at : {"idle", "top", "poll", "encode"}, key : BOOLEAN, options : OptionStates, changed : BOOLEAN]
Sents == [size : Nat, units : Nat, unit : Units, announced : BOOLEAN]

MachineTypes ==
    /\ streamKind \in {"window", "desktop", "secure", "pictures"}
    /\ theWindow \in [open : BOOLEAN, size : WinSizes, resized : Nat]
    /\ winOptions \in OptionStates
    /\ pool \in [frames : Seq(Nat), arrived : Nat]
    /\ cap \in Captures \cup {NoCapture}
    /\ winTurn.at = "poll" => cap \in Captures
    /\ winTurn.at = "encode" /\ streamKind # "secure" => cap \in Captures

StreamTypes ==
    /\ winStream \in Streams /\ winEncoder \in Encoders /\ winTurn \in Turns /\ winSent \in Sents

\* The size the track has, once what is to be announced has been.
SizeNow(s, last) == IF s.announce = 0 THEN last ELSE s.announce

OneSize(s, e, last) ==
    /\ \A i \in 1..Len(s.pending) : s.pending[i].size = SizeNow(s, last)
    /\ \A i \in 1..Len(e.held) : e.held[i].size = SizeNow(s, last)
    /\ s.size # 0 => e.size = SizeNow(s, last)
    /\ e.kind = "openh264" => e.held = <<>>

KeyComesFirst(s, e) ==
    s.announce # 0 => /\ s.pending = <<>>
                      /\ e.held = <<>> => e.force
                      /\ e.held # <<>> => e.held[1].key

WinCapIInv ==
    /\ MachineTypes /\ StreamTypes
    /\ OneSize(winStream, winEncoder, winSent.size) /\ KeyComesFirst(winStream, winEncoder)
    /\ UnitsFitTheAnnouncement

LEMMA SizesAreNumbers ==
    ASSUME NEW n \in Nat, NEW half \in BOOLEAN
    PROVE  ScaledSize(n, half) \in Nat /\ EvenSize(n) \in Nat
BY DEF ScaledSize, EvenSize

LEMMA IdleTurnTyped == IdleTurn \in Turns
<1>1. (CHOOSE o \in WinOptions : TRUE) \in WinOptions
  BY WinCapAssumption
<1> QED
  BY <1>1 DEF IdleTurn, Turns, OptionStates

LEMMA SettingsTyped ==
    ASSUME NEW o \in WinOptions, NEW q \in [half : BOOLEAN, fps : Nat, bitrate : Nat]
    PROVE  StreamSettings(o, q) \in Settings
BY WinCapAssumption DEF StreamSettings, Settings, Capped

LEMMA NewCaptureTyped ==
    ASSUME MachineTypes, NEW secure
    PROVE  CapturesFor(secure) \subseteq Captures
<1>1. theWindow.size \in Nat
  BY WinCapAssumption DEF MachineTypes
<1>2. \A k \in {"window", "desktop"}, c \in BOOLEAN : NewCapture(k, c) \in Captures
  BY <1>1 DEF NewCapture, Captures
<1> SUFFICES ASSUME NEW x \in CapturesFor(secure) PROVE x \in Captures
  OBVIOUS
<1>3. \E k \in {"window", "desktop"}, c \in BOOLEAN : x = NewCapture(k, c)
  <2> DEFINE Kinds == IF secure THEN {"desktop"} ELSE {"window", "desktop"}
             Converters == IF streamKind = "pictures" THEN {FALSE} ELSE BOOLEAN
  <2>1. CapturesFor(secure) = {NewCapture(k, c) : k \in Kinds, c \in Converters}
    BY DEF CapturesFor
  <2>2. Kinds \subseteq {"window", "desktop"} /\ Converters \subseteq BOOLEAN
    OBVIOUS
  <2> HIDE DEF Kinds, Converters
  <2>3. \E k \in Kinds, c \in Converters : x = NewCapture(k, c)
    BY <2>1
  <2> QED
    BY <2>2, <2>3
<1> QED
  BY <1>2, <1>3

LEMMA AfterPictureTyped ==
    ASSUME MachineTypes, StreamTypes, NEW c \in Captures, NEW n \in Nat
    PROVE  AfterPicture(c, n) \subseteq Captures
<1>1. theWindow.size \in Nat /\ winStream.quality.half \in BOOLEAN
  BY WinCapAssumption DEF MachineTypes, StreamTypes, Streams
<1>2. \A cut1 \in Cuts(c, n) : cut1 \in Nat
  BY <1>1 DEF Cuts
<1>3. \A m \in Nat : ScaledSize(m, winStream.quality.half) \in Nat
  BY <1>1, SizesAreNumbers
<1>4. [c EXCEPT !.converter = FALSE, !.nv12 = 0, !.output = FALSE, !.texture = 0, !.pixels = n] \in Captures
  BY DEF Captures
<1>5. [c EXCEPT !.pixels = n] \in Captures
  BY DEF Captures
<1>6. \A m \in Nat : [c EXCEPT !.output = FALSE, !.texture = 0, !.nv12 = m] \in Captures
  BY DEF Captures
<1>7. \A m \in Nat : [c EXCEPT !.texture = m] \in Captures
  BY DEF Captures
<1> DEFINE half == winStream.quality.half
           back == [c EXCEPT !.converter = FALSE, !.nv12 = 0, !.output = FALSE, !.texture = 0, !.pixels = n]
           Converted(m) == IF m < 2 THEN {c}
                           ELSE {back, [c EXCEPT !.output = FALSE, !.texture = 0, !.nv12 = ScaledSize(m, half)]}
                                \cup (IF c.output THEN {[c EXCEPT !.texture = ScaledSize(m, half)]} ELSE {})
<1>8. AfterPicture(c, n) = IF ~c.converter THEN {[c EXCEPT !.pixels = n]}
                           ELSE UNION {Converted(m) : m \in Cuts(c, n)}
  BY Zenon DEF AfterPicture
<1>9. ASSUME NEW m \in Nat PROVE Converted(m) \subseteq Captures
  BY <1>3, <1>4, <1>6, <1>7
<1> HIDE DEF Converted
<1>10. \A m \in Cuts(c, n) : Converted(m) \subseteq Captures
  BY <1>2, <1>9
<1>11. UNION {Converted(m) : m \in Cuts(c, n)} \subseteq Captures
  BY <1>10
<1> QED
  BY <1>5, <1>8, <1>11

LEMMA PictureSizes ==
    ASSUME MachineTypes, StreamTypes, winTurn.at = "encode", NEW p \in TurnPictures
    PROVE  TurnSize(p) \in Nat
<1>1. theWindow.size \in Nat /\ winStream.quality.half \in BOOLEAN
  BY WinCapAssumption DEF MachineTypes, StreamTypes, Streams
<1>2. p.size \in Nat
  <2>1. CASE streamKind = "secure"
    BY <1>1, <2>1 DEF TurnPictures
  <2>2. CASE streamKind # "secure"
    <3>1. cap \in Captures /\ p \in PicturesOf(cap)
      BY <2>2 DEF MachineTypes, TurnPictures
    <3>2. cap.texture \in Nat /\ cap.nv12 \in Nat /\ cap.pixels \in Nat
      BY <3>1 DEF Captures
    <3>3. \A n \in Cuts(cap, cap.pixels) : n \in Nat
      BY <1>1, <3>2 DEF Cuts
    <3> QED
      BY <3>1, <3>2, <3>3 DEF PicturesOf, NoPicture
  <2> QED
    BY <2>1, <2>2
<1> QED
  BY <1>1, <1>2, SizesAreNumbers DEF TurnSize, Fitted

\* What an encoder that holds units back gives, and keeps, of a sequence.
LEMMA PartsOf ==
    ASSUME NEW all \in Seq(Units), NEW n \in 0..Len(all)
    PROVE  /\ SubSeq(all, 1, n) \in Seq(Units) /\ SubSeq(all, n + 1, Len(all)) \in Seq(Units)
           /\ \A i \in 1..Len(SubSeq(all, 1, n)) : \E j \in 1..Len(all) : SubSeq(all, 1, n)[i] = all[j]
           /\ \A i \in 1..Len(SubSeq(all, n + 1, Len(all))) :
                \E j \in 1..Len(all) : SubSeq(all, n + 1, Len(all))[i] = all[j]
           /\ SubSeq(all, 1, n) # <<>> => SubSeq(all, 1, n)[1] = all[1]
           /\ SubSeq(all, 1, n) = <<>> => SubSeq(all, n + 1, Len(all)) = all
<1>1. n \in Nat /\ Len(all) \in Nat /\ n <= Len(all)
  OBVIOUS
<1>2. /\ SubSeq(all, 1, n) \in Seq(Units) /\ Len(SubSeq(all, 1, n)) = n
      /\ \A i \in 1..n : SubSeq(all, 1, n)[i] = all[i]
  BY <1>1, SubSeqProperties
<1>3. /\ SubSeq(all, n + 1, Len(all)) \in Seq(Units) /\ Len(SubSeq(all, n + 1, Len(all))) = Len(all) - n
      /\ \A i \in 1..Len(all) - n : SubSeq(all, n + 1, Len(all))[i] = all[n + i]
  BY <1>1, SubSeqProperties
<1>4. \A i \in 1..Len(SubSeq(all, 1, n)) : \E j \in 1..Len(all) : SubSeq(all, 1, n)[i] = all[j]
  BY <1>1, <1>2
<1>5. \A i \in 1..Len(SubSeq(all, n + 1, Len(all))) :
         \E j \in 1..Len(all) : SubSeq(all, n + 1, Len(all))[i] = all[j]
  <2>1. \A i \in 1..Len(all) - n : n + i \in 1..Len(all)
    BY <1>1
  <2> QED
    BY <1>3, <2>1
<1>6. SubSeq(all, 1, n) # <<>> => n # 0
  BY <1>2, EmptySeq, SubSeqEmpty
<1>7. SubSeq(all, 1, n) = <<>> => n = 0
  BY <1>1, <1>2, EmptySeq
<1>8. SubSeq(all, 1, Len(all)) = all
  BY SubSeqFull
<1>9. SubSeq(all, 1, n) # <<>> => SubSeq(all, 1, n)[1] = all[1]
  BY <1>1, <1>2, <1>6
<1>10. SubSeq(all, 1, n) = <<>> => SubSeq(all, n + 1, Len(all)) = all
  BY <1>7, <1>8
<1> QED
  BY <1>2, <1>3, <1>4, <1>5, <1>9, <1>10

ResultFits(e, asked, r) ==
    /\ r.units \in Seq(Units) /\ r.encoder \in Encoders /\ r.encoder.size = e.size
    /\ \A i \in 1..Len(r.units) : r.units[i].size = e.size
    /\ \A i \in 1..Len(r.encoder.held) : r.encoder.held[i].size = e.size
    /\ r.encoder.kind = "openh264" => r.encoder.held = <<>>
    /\ (e.held = <<>> => e.force \/ asked) /\ (e.held # <<>> => e.held[1].key) =>
         /\ r.units # <<>> => r.units[1].key
         /\ r.units = <<>> /\ r.encoder.held = <<>> => r.encoder.force
         /\ r.units = <<>> /\ r.encoder.held # <<>> => r.encoder.held[1].key

Part(e, all, n, after) ==
    [units |-> SubSeq(all, 1, n),
     encoder |-> [e EXCEPT !.held = SubSeq(all, n + 1, Len(all)), !.force = after]]

LEMMA PartFits ==
    ASSUME NEW e \in Encoders, NEW asked \in BOOLEAN, e.kind # "openh264",
           NEW all \in Seq(Units), NEW n \in 0..Len(all), NEW after \in BOOLEAN,
           \A i \in 1..Len(all) : all[i].size = e.size,
           (e.held = <<>> => e.force \/ asked) /\ (e.held # <<>> => e.held[1].key) =>
               (all = <<>> => after) /\ (all # <<>> => all[1].key)
    PROVE  ResultFits(e, asked, Part(e, all, n, after))
<1> DEFINE units == SubSeq(all, 1, n)
           held == SubSeq(all, n + 1, Len(all))
           later == [e EXCEPT !.held = held, !.force = after]
           r == [units |-> units, encoder |-> later]
<1>1. /\ units \in Seq(Units) /\ held \in Seq(Units)
      /\ \A i \in 1..Len(units) : \E j \in 1..Len(all) : units[i] = all[j]
      /\ \A i \in 1..Len(held) : \E j \in 1..Len(all) : held[i] = all[j]
      /\ units # <<>> => units[1] = all[1]
      /\ units = <<>> => held = all
  BY PartsOf
<1>2. units # <<>> => all # <<>>
  <2>1. units # <<>> => Len(units) # 0 /\ Len(units) \in Nat
    BY <1>1, EmptySeq
  <2>2. units # <<>> => \E j \in 1..Len(all) : units[1] = all[j]
    BY <1>1, <2>1
  <2> QED
    BY <2>2
<1>3. Part(e, all, n, after) = r
  BY DEF Part
<1> HIDE DEF units, held
<1>4. later \in Encoders /\ later.held = held /\ later.force = after /\ later.size = e.size
      /\ later.kind = e.kind
  BY <1>1 DEF Encoders
<1> HIDE DEF later
<1>5. r.units = units /\ r.encoder = later
  OBVIOUS
<1> HIDE DEF r
<1>6. ResultFits(e, asked, r)
  <2>1. \A i \in 1..Len(units) : units[i].size = e.size
    BY <1>1
  <2>2. \A i \in 1..Len(held) : held[i].size = e.size
    BY <1>1
  <2>3. (e.held = <<>> => e.force \/ asked) /\ (e.held # <<>> => e.held[1].key) =>
          /\ units # <<>> => units[1].key
          /\ units = <<>> /\ held = <<>> => after
          /\ units = <<>> /\ held # <<>> => held[1].key
    BY <1>1, <1>2
  <2> QED
    BY <1>1, <1>4, <1>5, <2>1, <2>2, <2>3 DEF ResultFits
<1> QED
  BY <1>3, <1>6

\* Encoding gives units of the encoder's size, the oldest first; the keyframe
\* due comes first of all, or is still due.
LEMMA EncodingFits ==
    ASSUME NEW e \in Encoders, NEW asked \in BOOLEAN,
           \A i \in 1..Len(e.held) : e.held[i].size = e.size,
           e.kind = "openh264" => e.held = <<>>,
           NEW r \in EncodedAs(e, asked)
    PROVE  ResultFits(e, asked, r)
<1> DEFINE force == e.force \/ asked
           unit == [size |-> e.size, key |-> force]
           with == Append(e.held, unit)
<1>1. e.held \in Seq(Units) /\ e.size \in Nat /\ force \in BOOLEAN /\ unit \in Units
  BY DEF Encoders, Units
<1>2. /\ with \in Seq(Units) /\ with # <<>> /\ Len(with) = Len(e.held) + 1
      /\ \A i \in 1..Len(e.held) : with[i] = e.held[i]
      /\ with[Len(e.held) + 1] = unit
  BY <1>1, AppendProperties
<1>3. /\ \A i \in 1..Len(with) : with[i].size = e.size
      /\ e.held = <<>> => with[1].key = force
      /\ e.held # <<>> => with[1] = e.held[1]
  <2>1. unit.size = e.size /\ unit.key = force
    OBVIOUS
  <2>2. \A i \in 1..Len(with) : with[i].size = e.size
    BY <1>1, <1>2, <2>1
  <2>3. Len(e.held) \in Nat /\ (e.held # <<>> => Len(e.held) # 0) /\ (e.held = <<>> => Len(e.held) = 0)
    BY <1>1, EmptySeq
  <2> HIDE DEF with, unit
  <2>4. e.held = <<>> => with[1] = unit
    BY <1>2, <2>3
  <2>5. e.held # <<>> => with[1] = e.held[1]
    BY <1>2, <2>3
  <2> QED
    BY <2>1, <2>2, <2>4, <2>5
<1>4. \/ e.kind = "openh264" /\ r = [units |-> with, encoder |-> [e EXCEPT !.force = FALSE]]
      \/ e.kind = "openh264" /\ ~force /\ r = [units |-> <<>>, encoder |-> e]
      \/ e.kind # "openh264" /\ \E n \in 0..Len(with) : r = Part(e, with, n, FALSE)
      \/ e.kind # "openh264" /\ \E n \in 0..Len(e.held) : r = Part(e, e.held, n, force)
  BY DEF EncodedAs, Part
<1> HIDE DEF with, unit
<1>5. CASE e.kind = "openh264" /\ r = [units |-> with, encoder |-> [e EXCEPT !.force = FALSE]]
  <2> DEFINE later == [e EXCEPT !.force = FALSE]
  <2>1. later \in Encoders /\ later.held = e.held /\ later.size = e.size
    BY DEF Encoders
  <2> HIDE DEF later
  <2>2. r.units = with /\ r.encoder = later
    BY <1>5 DEF later
  <2> QED
    BY <1>2, <1>3, <1>5, <2>1, <2>2 DEF ResultFits
<1>6. CASE e.kind = "openh264" /\ ~force /\ r = [units |-> <<>>, encoder |-> e]
  <2>1. r.units = <<>> /\ r.encoder = e
    BY <1>6
  <2> QED
    BY <1>6, <2>1, EmptySeq DEF ResultFits
<1>7. CASE e.kind # "openh264" /\ \E n \in 0..Len(with) : r = Part(e, with, n, FALSE)
  BY <1>2, <1>3, <1>7, PartFits
<1>8. CASE e.kind # "openh264" /\ \E n \in 0..Len(e.held) : r = Part(e, e.held, n, force)
  BY <1>1, <1>8, PartFits
<1> QED
  BY <1>4, <1>5, <1>6, <1>7, <1>8

\* take_pending: the first unit goes, and what was to be announced with it.
LEMMA GivingKeeps ==
    ASSUME WinCapIInv, NEW s \in Streams, NEW e \in Encoders, GiveUnit(s), winEncoder' = e,
           s.pending # <<>>, OneSize(s, e, winSent.size), s.announce # 0 => s.pending[1].key,
           MachineTypes'
    PROVE  WinCapIInv'
<1> DEFINE now == SizeNow(s, winSent.size)
           left == [s EXCEPT !.pending = Tail(@), !.announce = 0]
           gone == [size |-> IF s.announce = 0 THEN winSent.size ELSE s.announce, units |-> winSent.units + 1,
                    unit |-> Head(s.pending), announced |-> s.announce # 0]
<1>1. winStream' = left /\ winSent' = gone /\ winTurn' = IdleTurn
  BY DEF GiveUnit
<1>2. s.pending \in Seq(Units) /\ s.announce \in Nat /\ winSent.size \in Nat /\ winSent.units \in Nat
  BY DEF Streams, Sents, WinCapIInv, StreamTypes
<1>3. /\ Head(s.pending) \in Units /\ Head(s.pending) = s.pending[1] /\ Tail(s.pending) \in Seq(Units)
      /\ Len(Tail(s.pending)) = Len(s.pending) - 1
      /\ \A i \in 1..Len(Tail(s.pending)) : Tail(s.pending)[i] = s.pending[i + 1]
  BY <1>2, HeadTailProperties
<1>4. left \in Streams /\ left.pending = Tail(s.pending) /\ left.announce = 0 /\ left.size = s.size
  BY <1>3 DEF Streams
<1>5. now \in Nat /\ gone \in Sents /\ gone.size = now /\ gone.unit = s.pending[1]
      /\ gone.announced = (s.announce # 0)
  BY <1>2, <1>3 DEF Sents, SizeNow
<1> HIDE DEF left, gone
<1>6. Len(s.pending) \in Nat /\ Len(s.pending) # 0
  BY <1>2, EmptySeq
<1>7. s.pending[1].size = now /\ \A i \in 1..Len(Tail(s.pending)) : Tail(s.pending)[i].size = now
  <2>1. \A i \in 1..Len(s.pending) : s.pending[i].size = now
    BY DEF OneSize
  <2>2. 1 \in 1..Len(s.pending) /\ \A i \in 1..Len(Tail(s.pending)) : i + 1 \in 1..Len(s.pending)
    BY <1>3, <1>6
  <2> HIDE DEF now
  <2> QED
    BY <1>3, <2>1, <2>2
<1>8. SizeNow(left, gone.size) = now
  BY <1>4, <1>5 DEF SizeNow
<1>9. OneSize(left, e, gone.size)
  BY <1>4, <1>7, <1>8 DEF OneSize
<1>10. KeyComesFirst(left, e)
  BY <1>4 DEF KeyComesFirst
<1>11. StreamTypes'
  BY <1>1, <1>4, <1>5, IdleTurnTyped DEF StreamTypes
<1>12. UnitsFitTheAnnouncement'
  BY <1>1, <1>5, <1>7 DEF UnitsFitTheAnnouncement
<1> QED
  BY <1>1, <1>9, <1>10, <1>11, <1>12 DEF WinCapIInv

LEMMA BeyondTheFirst ==
    ASSUME NEW a \in Nat, NEW b \in Nat, NEW i \in 1..a + b, ~(i <= a)
    PROVE  i - a \in 1..b
OBVIOUS

\* A turn that is over, or back at the top, says nothing of the capture.
LEMMA TurnIsOver ==
    ASSUME MachineTypes, UNCHANGED <<streamKind, theWindow, winOptions, pool>>,
           cap' \in Captures \cup {NoCapture}, winTurn'.at \in {"idle", "top"}
    PROVE  MachineTypes'
BY DEF MachineTypes

\* Encoding with an encoder of the size that is or will be the track's.
LEMMA EncodeWithKeeps ==
    ASSUME WinCapIInv, NEW s \in Streams, NEW e \in Encoders, NEW p, NEW asked \in BOOLEAN,
           NEW c \in Captures \cup {NoCapture}, e.size = SizeNow(s, winSent.size),
           OneSize(s, e, winSent.size), KeyComesFirst(s, e), EncodeWith(s, e, p, asked, c),
           UNCHANGED <<streamKind, theWindow, winOptions, pool>>
    PROVE  WinCapIInv'
<1>1. IdleTurn.at = "idle"
  BY DEF IdleTurn
<1>2. CASE ~Takes(e, p.form)
  <2> DEFINE after == [s EXCEPT !.ended = "encoding"]
  <2>1. after \in Streams /\ after.size = s.size /\ after.pending = s.pending /\ after.announce = s.announce
    BY DEF Streams
  <2>2. winStream' = after /\ winTurn' = IdleTurn /\ winEncoder' = e /\ cap' = c /\ winSent' = winSent
    BY <1>2 DEF EncodeWith
  <2> HIDE DEF after
  <2>3. MachineTypes'
    BY <1>1, <2>2, TurnIsOver DEF WinCapIInv
  <2>4. StreamTypes'
    BY <2>1, <2>2, IdleTurnTyped DEF WinCapIInv, StreamTypes
  <2>5. OneSize(after, e, winSent.size) /\ KeyComesFirst(after, e)
    BY <2>1 DEF OneSize, KeyComesFirst, SizeNow
  <2>6. UnitsFitTheAnnouncement'
    BY <2>2 DEF WinCapIInv, UnitsFitTheAnnouncement
  <2> QED
    BY <2>2, <2>3, <2>4, <2>5, <2>6 DEF WinCapIInv
<1>3. CASE Takes(e, p.form)
  <2> DEFINE now == SizeNow(s, winSent.size)
  <2>1. PICK r \in EncodedAs(e, asked) :
          LET after == [s EXCEPT !.pending = @ \o r.units]
          IN  /\ winEncoder' = r.encoder
              /\ cap' = c
              /\ IF after.pending # <<>>
                 THEN GiveUnit(after)
                 ELSE /\ winStream' = after
                      /\ winTurn' = [winTurn EXCEPT !.at = "top", !.key = asked]
                      /\ UNCHANGED winSent
    BY <1>3 DEF EncodeWith
  <2> DEFINE after == [s EXCEPT !.pending = @ \o r.units]
  <2>2. ResultFits(e, asked, r)
    BY EncodingFits DEF OneSize
  <2>3. s.pending \in Seq(Units) /\ r.units \in Seq(Units) /\ r.encoder \in Encoders /\ r.encoder.size = now
    BY <2>2 DEF ResultFits, Streams
  <2>4. /\ s.pending \o r.units \in Seq(Units) /\ Len(s.pending \o r.units) = Len(s.pending) + Len(r.units)
        /\ \A i \in 1..Len(s.pending) + Len(r.units) :
             (s.pending \o r.units)[i] = IF i <= Len(s.pending) THEN s.pending[i] ELSE r.units[i - Len(s.pending)]
    BY <2>3, ConcatProperties
  <2>5. after \in Streams /\ after.pending = s.pending \o r.units /\ after.announce = s.announce
        /\ after.size = s.size
    BY <2>4 DEF Streams
  <2>6. SizeNow(after, winSent.size) = now
    BY <2>5 DEF SizeNow
  <2>7. \A i \in 1..Len(after.pending) : after.pending[i].size = now
    <3>1. \A i \in 1..Len(s.pending) : s.pending[i].size = now
      BY DEF OneSize
    <3>2. \A i \in 1..Len(r.units) : r.units[i].size = now
      BY <2>2 DEF ResultFits
    <3>3. Len(s.pending) \in Nat /\ Len(r.units) \in Nat
      BY <2>3
    <3> HIDE DEF now, after
    <3> SUFFICES ASSUME NEW i \in 1..Len(s.pending) + Len(r.units)
                 PROVE  (s.pending \o r.units)[i].size = now
      BY <2>4, <2>5
    <3>4. CASE i <= Len(s.pending)
      <4>1. (s.pending \o r.units)[i] = s.pending[i] /\ i \in 1..Len(s.pending)
        BY <2>4, <3>3, <3>4
      <4> QED
        BY <3>1, <4>1
    <3>5. CASE ~(i <= Len(s.pending))
      <4>1. i - Len(s.pending) \in 1..Len(r.units)
        BY <3>3, <3>5, BeyondTheFirst
      <4>2. (s.pending \o r.units)[i] = r.units[i - Len(s.pending)]
        BY <2>4, <3>5
      <4> QED
        BY <3>2, <4>1, <4>2
    <3> QED
      BY <3>4, <3>5
  <2>8. OneSize(after, r.encoder, winSent.size)
    BY <2>2, <2>3, <2>5, <2>6, <2>7 DEF OneSize, ResultFits
  <2>9. s.announce # 0 => /\ after.pending = r.units
                          /\ r.units # <<>> => r.units[1].key
                          /\ r.units = <<>> /\ r.encoder.held = <<>> => r.encoder.force
                          /\ r.units = <<>> /\ r.encoder.held # <<>> => r.encoder.held[1].key
    BY <2>2, <2>3, <2>5, ConcatEmptySeq DEF KeyComesFirst, ResultFits
  <2>10. MachineTypes /\ StreamTypes
    BY DEF WinCapIInv
  <2> HIDE DEF after
  <2>11. CASE after.pending # <<>>
    <3>1. GiveUnit(after) /\ winEncoder' = r.encoder /\ cap' = c
      BY <2>1, <2>11 DEF after
    <3>2. winTurn'.at = "idle"
      BY <1>1, <3>1 DEF GiveUnit
    <3>3. MachineTypes'
      BY <2>10, <3>1, <3>2, TurnIsOver
    <3> QED
      BY <2>3, <2>5, <2>8, <2>9, <2>11, <3>1, <3>3, GivingKeeps
  <2>12. CASE after.pending = <<>>
    <3>1. winStream' = after /\ winTurn' = [winTurn EXCEPT !.at = "top", !.key = asked] /\ winSent' = winSent
          /\ winEncoder' = r.encoder /\ cap' = c
      BY <2>1, <2>12 DEF after
    <3>2. winTurn' \in Turns /\ winTurn'.at = "top"
      BY <2>10, <3>1 DEF StreamTypes, Turns
    <3>3. MachineTypes'
      BY <2>10, <3>1, <3>2, TurnIsOver
    <3>4. StreamTypes'
      BY <2>3, <2>5, <2>10, <3>1, <3>2 DEF StreamTypes
    <3>5. KeyComesFirst(after, r.encoder)
      BY <2>5, <2>9, <2>12 DEF KeyComesFirst
    <3>6. UnitsFitTheAnnouncement'
      BY <3>1 DEF WinCapIInv, UnitsFitTheAnnouncement
    <3> QED
      BY <2>8, <3>1, <3>3, <3>4, <3>5, <3>6 DEF WinCapIInv
  <2> QED
    BY <2>11, <2>12
<1> QED
  BY <1>2, <1>3

LEMMA WinCapInitial == WinCapInit => WinCapIInv
<1> SUFFICES ASSUME WinCapInit PROVE WinCapIInv
  OBVIOUS
<1>1. (CHOOSE w \in WinSizes : TRUE) \in WinSizes
  BY WinCapAssumption
<1>2. MachineTypes
  <2>1. theWindow \in [open : BOOLEAN, size : WinSizes, resized : Nat]
    BY <1>1 DEF WinCapInit
  <2>2. pool \in [frames : Seq(Nat), arrived : Nat]
    BY EmptySeq DEF WinCapInit
  <2>3. winOptions \in OptionStates
    BY DEF WinCapInit, OptionStates
  <2>4. winTurn.at = "idle"
    BY DEF WinCapInit, IdleTurn
  <2> QED
    BY <2>1, <2>2, <2>3, <2>4 DEF WinCapInit, MachineTypes
<1>3. StreamTypes
  <2>1. NewWinStream \in Streams
    BY EmptySeq DEF NewWinStream, Streams, Settings
  <2>2. NoEncoderYet \in Encoders
    BY EmptySeq DEF NoEncoderYet, Encoders
  <2>3. winSent \in Sents
    BY DEF WinCapInit, Sents, Units
  <2> QED
    BY <2>1, <2>2, <2>3, IdleTurnTyped DEF WinCapInit, StreamTypes
<1>4. NewWinStream.pending = <<>> /\ NewWinStream.announce = 0 /\ NewWinStream.size = 0 /\ NoEncoderYet.held = <<>>
  BY DEF NewWinStream, NoEncoderYet
<1>5. OneSize(winStream, winEncoder, winSent.size) /\ KeyComesFirst(winStream, winEncoder)
  <2>1. winStream = NewWinStream /\ winEncoder = NoEncoderYet
    BY DEF WinCapInit
  <2> QED
    BY <1>4, <2>1 DEF OneSize, KeyComesFirst
<1>6. winSent.units = 0
  BY DEF WinCapInit
<1> QED
  BY <1>2, <1>3, <1>5, <1>6 DEF WinCapIInv, UnitsFitTheAnnouncement

\* What leaves the stream, its encoder and the track alone.
LEMMA AroundKeeps ==
    ASSUME WinCapIInv, UNCHANGED <<streamKind, winStream, winEncoder, winSent>>, winTurn' \in Turns, MachineTypes'
    PROVE  WinCapIInv'
BY DEF WinCapIInv, StreamTypes, UnitsFitTheAnnouncement

\* A stream that ends, or is changed where no size is kept.
LEMMA StreamKeeps ==
    ASSUME WinCapIInv, NEW s \in Streams, s.pending = winStream.pending, s.announce = winStream.announce,
           s.size \in {0, winStream.size}, winStream' = s, UNCHANGED <<streamKind, winEncoder, winSent>>,
           winTurn' \in Turns, MachineTypes'
    PROVE  WinCapIInv'
<1>1. OneSize(s, winEncoder, winSent.size) /\ KeyComesFirst(s, winEncoder)
  BY DEF WinCapIInv, OneSize, KeyComesFirst, SizeNow
<1> QED
  BY <1>1 DEF WinCapIInv, StreamTypes, UnitsFitTheAnnouncement

LEMMA EndingKeeps ==
    ASSUME WinCapIInv, NEW why \in {"capture", "window", "failed"}, EndStream(why),
           UNCHANGED <<streamKind, theWindow, winOptions, pool, cap, winEncoder, winSent>>
    PROVE  WinCapIInv'
<1> DEFINE s == [winStream EXCEPT !.ended = why]
<1>1. winStream \in Streams /\ MachineTypes /\ cap \in Captures \cup {NoCapture}
  BY DEF WinCapIInv, StreamTypes, MachineTypes
<1>2. s \in Streams /\ s.pending = winStream.pending /\ s.announce = winStream.announce /\ s.size = winStream.size
  BY <1>1 DEF Streams
<1>3. winStream' = s /\ winTurn' = IdleTurn
  BY DEF EndStream
<1> HIDE DEF s
<1>4. IdleTurn.at = "idle"
  BY DEF IdleTurn
<1>5. MachineTypes'
  BY <1>1, <1>3, <1>4, TurnIsOver
<1> QED
  BY <1>2, <1>3, <1>5, IdleTurnTyped, StreamKeeps

\* The machine's own steps.
LEMMA MachineKeeps ==
    ASSUME WinCapIInv, WindowResizes \/ WindowCloses \/ ScreenLocks \/ FrameArrives \/ SetWinOptions
    PROVE  WinCapIInv'
<1>0. MachineTypes /\ StreamTypes /\ theWindow.size \in Nat /\ theWindow.size \in WinSizes
  BY WinCapAssumption DEF WinCapIInv, MachineTypes
<1>1. ASSUME UNCHANGED <<streamKind, winStream, winEncoder, winSent, winTurn, cap>>,
             theWindow' \in [open : BOOLEAN, size : WinSizes, resized : Nat],
             winOptions' \in OptionStates, pool' \in [frames : Seq(Nat), arrived : Nat]
      PROVE  WinCapIInv'
  <2>1. MachineTypes'
    BY <1>0, <1>1 DEF MachineTypes
  <2>2. winTurn' \in Turns
    BY <1>0, <1>1 DEF StreamTypes
  <2> QED
    BY <1>1, <2>1, <2>2, AroundKeeps
<1>2. theWindow \in [open : BOOLEAN, size : WinSizes, resized : Nat] /\ winOptions \in OptionStates
      /\ pool \in [frames : Seq(Nat), arrived : Nat]
  BY <1>0 DEF MachineTypes
<1>3. CASE WindowResizes
  <2>1. PICK n \in WinSizes \ {theWindow.size} : theWindow' = [theWindow EXCEPT !.size = n, !.resized = @ + 1]
    BY <1>3 DEF WindowResizes
  <2>2. n \in WinSizes /\ theWindow.resized + 1 \in Nat
    BY <1>2, <2>1
  <2>3. theWindow' = [[theWindow EXCEPT !.size = n] EXCEPT !.resized = theWindow.resized + 1]
    BY <1>2, <2>1
  <2>4. theWindow' \in [open : BOOLEAN, size : WinSizes, resized : Nat]
    BY <1>2, <2>2, <2>3
  <2> QED
    BY <1>1, <1>2, <1>3, <2>4 DEF WindowResizes
<1>4. CASE WindowCloses
  <2>1. theWindow' \in [open : BOOLEAN, size : WinSizes, resized : Nat]
    BY <1>2, <1>4 DEF WindowCloses
  <2> QED
    BY <1>1, <1>2, <1>4, <2>1 DEF WindowCloses
<1>5. CASE ScreenLocks
  <2>1. theWindow' \in [open : BOOLEAN, size : WinSizes, resized : Nat]
    BY <1>2, <1>5 DEF ScreenLocks
  <2> QED
    BY <1>1, <1>2, <1>5, <2>1 DEF ScreenLocks
<1>6. CASE FrameArrives
  <2>1. pool' = [frames |-> Append(pool.frames, theWindow.size), arrived |-> pool.arrived + 1]
    BY <1>6 DEF FrameArrives
  <2>2. Append(pool.frames, theWindow.size) \in Seq(Nat)
    BY <1>0, <1>2, AppendProperties
  <2>3. pool' \in [frames : Seq(Nat), arrived : Nat]
    BY <1>2, <2>1, <2>2
  <2> QED
    BY <1>1, <1>2, <1>6, <2>3 DEF FrameArrives
<1>7. CASE SetWinOptions
  <2>1. PICK o \in WinOptions : winOptions' = [o |-> o, generation |-> winOptions.generation + 1]
    BY <1>7 DEF SetWinOptions
  <2>2. winOptions' \in OptionStates
    BY <1>2, <2>1 DEF OptionStates
  <2> QED
    BY <1>1, <1>2, <1>7, <2>2 DEF SetWinOptions
<1> QED
  BY <1>3, <1>4, <1>5, <1>6, <1>7

\* A turn of the thread that goes on, the capture it has being one.
LEMMA TurnGoesOn ==
    ASSUME WinCapIInv, NEW t \in Turns, winTurn' = t, cap' \in Captures \cup {NoCapture},
           t.at = "poll" => cap' \in Captures,
           t.at = "encode" /\ streamKind # "secure" => cap' \in Captures,
           pool' \in [frames : Seq(Nat), arrived : Nat],
           UNCHANGED <<streamKind, theWindow, winOptions, winStream, winEncoder, winSent>>
    PROVE  WinCapIInv'
<1>1. MachineTypes'
  BY DEF WinCapIInv, MachineTypes
<1> QED
  BY <1>1, AroundKeeps

LEMMA PoolOfNoFrames ==
    ASSUME MachineTypes
    PROVE  [pool EXCEPT !.frames = <<>>] \in [frames : Seq(Nat), arrived : Nat]
BY EmptySeq DEF MachineTypes

LEMMA AsksKeep ==
    ASSUME WinCapIInv, NextFrame \/ NextPictureAsked \/ SetQuality
    PROVE  WinCapIInv'
<1>0. MachineTypes /\ StreamTypes
  BY DEF WinCapIInv
<1>1. IdleTurn \in Turns /\ cap \in Captures \cup {NoCapture} /\ pool \in [frames : Seq(Nat), arrived : Nat]
  BY <1>0, IdleTurnTyped DEF MachineTypes
<1>2. ASSUME NEW k \in BOOLEAN
      PROVE  /\ [IdleTurn EXCEPT !.at = "top", !.key = k] \in Turns
             /\ [IdleTurn EXCEPT !.at = "top", !.key = k].at = "top"
  BY <1>1 DEF Turns
<1>3. CASE NextFrame
  <2>1. PICK k \in BOOLEAN : IF ~k /\ winStream.pending # <<>>
                             THEN GiveUnit(winStream)
                             ELSE /\ winTurn' = [IdleTurn EXCEPT !.at = "top", !.key = k]
                                  /\ UNCHANGED <<winStream, winSent>>
    BY <1>3 DEF NextFrame
  <2>2. UNCHANGED <<streamKind, theWindow, winOptions, pool, cap, winEncoder>>
    BY <1>3 DEF NextFrame
  <2>3. CASE ~k /\ winStream.pending # <<>>
    <3>1. GiveUnit(winStream) /\ winTurn'.at = "idle"
      BY <2>1, <2>3 DEF GiveUnit, IdleTurn
    <3>2. MachineTypes'
      BY <1>0, <1>1, <2>2, <3>1, TurnIsOver
    <3>3. winStream \in Streams /\ winEncoder \in Encoders /\ OneSize(winStream, winEncoder, winSent.size)
          /\ winStream.announce = 0 /\ winEncoder' = winEncoder
      BY <1>0, <2>2, <2>3 DEF WinCapIInv, StreamTypes, KeyComesFirst
    <3> QED
      BY <2>3, <3>1, <3>2, <3>3, GivingKeeps
  <2>4. CASE ~(~k /\ winStream.pending # <<>>)
    BY <1>1, <1>2, <2>1, <2>2, <2>4, TurnGoesOn
  <2> QED
    BY <2>3, <2>4
<1>4. CASE NextPictureAsked
  <2>1. [IdleTurn EXCEPT !.at = "top"] \in Turns /\ [IdleTurn EXCEPT !.at = "top"].at = "top"
    BY <1>1 DEF Turns
  <2> QED
    BY <1>1, <1>4, <2>1, TurnGoesOn DEF NextPictureAsked
<1>5. CASE SetQuality
  <2>1. PICK q \in Qualities : winStream' = [winStream EXCEPT !.quality = q]
    BY <1>0, <1>5 DEF SetQuality
  <2>2. q \in [half : BOOLEAN, fps : Nat, bitrate : Nat] /\ winStream \in Streams
    BY <1>0, WinCapAssumption DEF StreamTypes
  <2>3. winStream' \in Streams /\ winStream'.pending = winStream.pending
        /\ winStream'.announce = winStream.announce /\ winStream'.size = winStream.size
    BY <2>1, <2>2 DEF Streams
  <2>4. MachineTypes' /\ winTurn' \in Turns
    BY <1>0, <1>5 DEF SetQuality, MachineTypes, StreamTypes
  <2> QED
    BY <1>5, <2>3, <2>4, StreamKeeps DEF SetQuality
<1> QED
  BY <1>3, <1>4, <1>5

\* The capture is opened, changed, or given up with its stream.
LEMMA CaptureKeeps ==
    ASSUME WinCapIInv, OpenCapture \/ WindowIsGone \/ LockCheck \/ ReadOptions
    PROVE  WinCapIInv'
<1>0. MachineTypes /\ StreamTypes
  BY DEF WinCapIInv
<1>1. cap \in Captures \cup {NoCapture} /\ pool \in [frames : Seq(Nat), arrived : Nat]
      /\ winTurn \in Turns /\ winStream \in Streams /\ winOptions \in OptionStates
      /\ [pool EXCEPT !.frames = <<>>] \in [frames : Seq(Nat), arrived : Nat]
  BY <1>0, PoolOfNoFrames DEF MachineTypes, StreamTypes
<1>2. CASE OpenCapture
  <2>1. CASE EndStream("capture") /\ UNCHANGED <<cap, pool>>
    BY <1>2, <2>1, EndingKeeps DEF OpenCapture
  <2>2. CASE \E c \in CapturesFor(streamKind = "desktop" /\ reachable) :
               cap' = c /\ pool' = [pool EXCEPT !.frames = <<>>] /\ UNCHANGED <<winStream, winTurn>>
    <3>1. cap' \in Captures
      BY <1>0, <2>2, NewCaptureTyped
    <3>2. winTurn' = winTurn /\ winTurn.at = "top" /\ pool' = [pool EXCEPT !.frames = <<>>]
          /\ UNCHANGED <<streamKind, theWindow, winOptions, winStream, winEncoder, winSent>>
      BY <1>2, <2>2 DEF OpenCapture
    <3> QED
      BY <1>1, <3>1, <3>2, TurnGoesOn
  <2> QED
    BY <1>2, <2>1, <2>2 DEF OpenCapture
<1>3. CASE WindowIsGone
  BY <1>3, EndingKeeps DEF WindowIsGone
<1>4. CASE LockCheck
  <2> DEFINE s == [winStream EXCEPT !.size = 0]
             t == [winTurn EXCEPT !.at = "poll", !.options = winOptions]
  <2>1. s \in Streams /\ s.pending = winStream.pending /\ s.announce = winStream.announce /\ s.size = 0
    BY <1>1 DEF Streams
  <2>2. t \in Turns /\ t.at = "poll"
    BY <1>1 DEF Turns
  <2>3. winStream' = s /\ winTurn' = t /\ pool' = [pool EXCEPT !.frames = <<>>]
        /\ UNCHANGED <<streamKind, theWindow, winOptions, winEncoder, winSent>>
    BY <1>4 DEF LockCheck
  <2>4. cap' \in Captures
    BY <1>0, <1>4, NewCaptureTyped DEF LockCheck
  <2> HIDE DEF s, t
  <2>5. MachineTypes'
    BY <1>0, <1>1, <2>2, <2>3, <2>4 DEF MachineTypes
  <2> QED
    BY <2>1, <2>2, <2>3, <2>5, StreamKeeps
<1>5. CASE ReadOptions
  <2> DEFINE to == IF streamKind = "secure" THEN "encode" ELSE "poll"
             t == [winTurn EXCEPT !.at = to, !.options = winOptions]
  <2>1. t \in Turns /\ t.at = to
    BY <1>1 DEF Turns
  <2>2. winTurn' = t /\ UNCHANGED <<pool, cap, streamKind, theWindow, winOptions, winStream, winEncoder, winSent>>
        /\ (streamKind # "secure" => cap # NoCapture)
    BY <1>5 DEF ReadOptions
  <2> HIDE DEF t
  <2> QED
    BY <1>1, <2>1, <2>2, TurnGoesOn
<1> QED
  BY <1>2, <1>3, <1>4, <1>5

LEMMA PollKeeps ==
    ASSUME WinCapIInv, PoolIsMadeAgain \/ PollTakes \/ PollTimesOut \/ NothingToSend
    PROVE  WinCapIInv'
<1>0. MachineTypes /\ StreamTypes
  BY DEF WinCapIInv
<1>1. cap \in Captures \cup {NoCapture} /\ pool \in [frames : Seq(Nat), arrived : Nat] /\ winTurn \in Turns
      /\ [pool EXCEPT !.frames = <<>>] \in [frames : Seq(Nat), arrived : Nat]
      /\ (winTurn.at = "poll" => cap \in Captures)
  BY <1>0, PoolOfNoFrames DEF MachineTypes, StreamTypes
<1>2. CASE PoolIsMadeAgain
  <2>1. Head(pool.frames) \in Nat /\ cap \in Captures /\ winTurn.at = "poll"
    BY <1>1, <1>2, HeadTailProperties DEF PoolIsMadeAgain
  <2>2. cap' \in Captures
    BY <1>2, <2>1 DEF PoolIsMadeAgain, Captures
  <2> QED
    BY <1>1, <1>2, <2>1, <2>2, TurnGoesOn DEF PoolIsMadeAgain
<1>3. CASE PollTakes
  <2>1. Head(pool.frames) \in Nat /\ Tail(pool.frames) \in Seq(Nat) /\ cap \in Captures
    BY <1>1, <1>3, HeadTailProperties DEF PollTakes
  <2>2. cap' \in Captures
    BY <1>0, <1>3, <2>1, AfterPictureTyped DEF PollTakes
  <2>3. pool' \in [frames : Seq(Nat), arrived : Nat]
    BY <1>1, <1>3, <2>1 DEF PollTakes
  <2>4. winTurn' \in Turns /\ winTurn'.at = "encode"
    BY <1>1, <1>3 DEF PollTakes, Turns
  <2> QED
    BY <1>3, <2>2, <2>3, <2>4, TurnGoesOn DEF PollTakes
<1>4. CASE PollTimesOut
  <2>1. CASE EndStream("capture")
    BY <1>4, <2>1, EndingKeeps DEF PollTimesOut
  <2>2. CASE winTurn' = [winTurn EXCEPT !.at = "encode", !.changed = FALSE] /\ UNCHANGED winStream
    <3>1. winTurn' \in Turns /\ winTurn'.at = "encode"
      BY <1>1, <2>2 DEF Turns
    <3>2. UNCHANGED <<pool, cap, streamKind, theWindow, winOptions, winStream, winEncoder, winSent>>
          /\ cap \in Captures
      BY <1>1, <1>4, <2>2 DEF PollTimesOut
    <3> QED
      BY <1>1, <3>1, <3>2, TurnGoesOn
  <2> QED
    BY <1>4, <2>1, <2>2 DEF PollTimesOut
<1>5. CASE NothingToSend
  <2>1. winTurn' \in Turns /\ winTurn'.at = "top"
    BY <1>1, <1>5 DEF NothingToSend, Turns
  <2> QED
    BY <1>1, <1>5, <2>1, TurnGoesOn DEF NothingToSend
<1> QED
  BY <1>2, <1>3, <1>4, <1>5

LEMMA NewEncoders ==
    ASSUME NEW size \in Nat, NEW converter, NEW e \in EncodersFor(size, converter)
    PROVE  e \in Encoders /\ e.size = size /\ e.held = <<>> /\ e.force
<1>1. \/ \E t \in BOOLEAN : e = [kind |-> "mf", textures |-> t, size |-> size, force |-> TRUE, held |-> <<>>]
      \/ e = [kind |-> "openh264", textures |-> FALSE, size |-> size, force |-> TRUE, held |-> <<>>]
  BY DEF EncodersFor
<1>2. CASE e = [kind |-> "openh264", textures |-> FALSE, size |-> size, force |-> TRUE, held |-> <<>>]
  BY <1>2, EmptySeq DEF Encoders
<1>3. ASSUME NEW t \in BOOLEAN, e = [kind |-> "mf", textures |-> t, size |-> size, force |-> TRUE, held |-> <<>>]
      PROVE  e \in Encoders /\ e.size = size /\ e.held = <<>> /\ e.force
  BY <1>3, EmptySeq DEF Encoders
<1> QED
  BY <1>1, <1>2, <1>3

\* The encoder runs, or another one is opened.
LEMMA EncodingKeeps ==
    ASSUME WinCapIInv, EncodeRunning \/ EncodeReopening \/ StreamFails \/ GivePicture
    PROVE  WinCapIInv'
<1>0. MachineTypes /\ StreamTypes /\ OneSize(winStream, winEncoder, winSent.size)
      /\ KeyComesFirst(winStream, winEncoder)
  BY DEF WinCapIInv
<1>1. /\ winStream \in Streams /\ winEncoder \in Encoders /\ winTurn \in Turns /\ winSent \in Sents
      /\ winTurn.options \in OptionStates /\ winTurn.options.o \in WinOptions /\ winTurn.options.generation \in Nat
      /\ winTurn.key \in BOOLEAN /\ cap \in Captures \cup {NoCapture}
      /\ winStream.quality \in [half : BOOLEAN, fps : Nat, bitrate : Nat]
  BY <1>0 DEF StreamTypes, MachineTypes, Turns, OptionStates, Streams
<1> DEFINE sought == StreamSettings(winTurn.options.o, winStream.quality)
<1>2. sought \in Settings
  BY <1>1, SettingsTyped
<1>3. CASE EncodeRunning
  <2>1. PICK p \in TurnPictures :
          /\ TurnSize(p) >= 2 /\ ~Reopens(TurnSize(p), sought)
          /\ EncodeWith([winStream EXCEPT !.settings = sought], winEncoder, p, winTurn.key, cap)
    BY <1>3 DEF EncodeRunning
  <2> DEFINE s == [winStream EXCEPT !.settings = sought]
  <2>2. s \in Streams /\ s.pending = winStream.pending /\ s.announce = winStream.announce /\ s.size = winStream.size
    BY <1>1, <1>2 DEF Streams
  <2>3. winStream.size # 0
    BY <2>1 DEF Reopens
  <2>4. UNCHANGED <<streamKind, theWindow, winOptions, pool>>
    BY <1>3 DEF EncodeRunning
  <2>5. EncodeWith(s, winEncoder, p, winTurn.key, cap)
    BY <2>1
  <2> HIDE DEF s
  <2>6. OneSize(s, winEncoder, winSent.size) /\ KeyComesFirst(s, winEncoder)
        /\ winEncoder.size = SizeNow(s, winSent.size)
    BY <1>0, <2>2, <2>3 DEF OneSize, KeyComesFirst, SizeNow
  <2> QED
    BY <1>1, <2>2, <2>4, <2>5, <2>6, EncodeWithKeeps
<1>4. CASE EncodeReopening
  <2>1. PICK p \in TurnPictures :
          /\ TurnSize(p) >= 2
          /\ \E e \in EncodersFor(TurnSize(p), streamKind # "secure" /\ cap.converter) :
               EncodeWith(Reopened(winStream, TurnSize(p), sought), e, p, TRUE,
                          IF streamKind = "secure" THEN cap ELSE WithOutput(cap, e.textures))
    BY <1>4 DEF EncodeReopening
  <2> DEFINE size == TurnSize(p)
             s == Reopened(winStream, size, sought)
  <2>2. winTurn.at = "encode" /\ UNCHANGED <<streamKind, theWindow, winOptions, pool>>
    BY <1>4 DEF EncodeReopening
  <2>3. size \in Nat /\ size # 0
    BY <1>0, <2>1, <2>2, PictureSizes
  <2> HIDE DEF size, sought
  <2>4. s \in Streams /\ s.pending = <<>> /\ s.announce = size /\ s.size = size
    BY <1>1, <1>2, <2>3, EmptySeq DEF Streams, Reopened
  <2>5. PICK e \in EncodersFor(size, streamKind # "secure" /\ cap.converter) :
          EncodeWith(s, e, p, TRUE, IF streamKind = "secure" THEN cap ELSE WithOutput(cap, e.textures))
    BY <2>1 DEF size, sought
  <2>6. /\ e \in Encoders /\ e.size = size /\ e.held = <<>> /\ e.force
    BY <2>3, NewEncoders
  <2> DEFINE c == IF streamKind = "secure" THEN cap ELSE WithOutput(cap, e.textures)
  <2>7. c \in Captures \cup {NoCapture}
    <3>1. CASE streamKind = "secure"
      BY <1>1, <3>1
    <3>2. CASE streamKind # "secure"
      <4>1. cap \in Captures /\ e.textures \in BOOLEAN
        BY <1>0, <2>2, <2>6, <3>2 DEF MachineTypes, Encoders
      <4>2. WithOutput(cap, e.textures) \in Captures
        BY <4>1 DEF WithOutput, Captures
      <4> QED
        BY <3>2, <4>2
    <3> QED
      BY <3>1, <3>2
  <2> HIDE DEF s, c
  <2>8. OneSize(s, e, winSent.size) /\ KeyComesFirst(s, e) /\ e.size = SizeNow(s, winSent.size)
    BY <2>3, <2>4, <2>6 DEF OneSize, KeyComesFirst, SizeNow
  <2>9. EncodeWith(s, e, p, TRUE, c)
    BY <2>5 DEF c
  <2> QED
    BY <2>2, <2>4, <2>6, <2>7, <2>8, <2>9, EncodeWithKeeps
<1>5. CASE StreamFails
  BY <1>5, EndingKeeps DEF StreamFails
<1>6. CASE GivePicture
  <2>1. winSent' = [winSent EXCEPT !.units = @ + 1] /\ winTurn' = IdleTurn /\ streamKind = "pictures"
        /\ UNCHANGED <<streamKind, theWindow, winOptions, pool, cap, winStream, winEncoder>>
    BY <1>6 DEF GivePicture
  <2>2. winSent' \in Sents /\ winSent'.size = winSent.size
    BY <1>1, <2>1 DEF Sents
  <2>3. MachineTypes'
    <3>1. IdleTurn.at = "idle"
      BY DEF IdleTurn
    <3> QED
      BY <1>0, <1>1, <2>1, <3>1, TurnIsOver
  <2> QED
    BY <1>0, <1>1, <2>1, <2>2, <2>3, IdleTurnTyped DEF WinCapIInv, StreamTypes, UnitsFitTheAnnouncement
<1> QED
  BY <1>3, <1>4, <1>5, <1>6

LEMMA WinCapStep == WinCapIInv /\ [WinCapNext]_winCapVars => WinCapIInv'
<1> SUFFICES ASSUME WinCapIInv, [WinCapNext]_winCapVars
             PROVE  WinCapIInv'
  OBVIOUS
<1>1. CASE UNCHANGED winCapVars
  BY <1>1 DEF winCapVars, WinCapIInv, MachineTypes, StreamTypes, UnitsFitTheAnnouncement
<1>2. CASE WindowResizes \/ WindowCloses \/ ScreenLocks \/ FrameArrives \/ SetWinOptions
  BY <1>2, MachineKeeps
<1>3. CASE NextFrame \/ NextPictureAsked \/ SetQuality
  BY <1>3, AsksKeep
<1>4. CASE OpenCapture \/ WindowIsGone \/ LockCheck \/ ReadOptions
  BY <1>4, CaptureKeeps
<1>5. CASE PoolIsMadeAgain \/ PollTakes \/ PollTimesOut \/ NothingToSend
  BY <1>5, PollKeeps
<1>6. CASE EncodeRunning \/ EncodeReopening \/ StreamFails \/ GivePicture
  BY <1>6, EncodingKeeps
<1> QED
  BY <1>1, <1>2, <1>3, <1>4, <1>5, <1>6 DEF WinCapNext

\* next_frame: every unit has the size last announced, the first of a size is
\* a keyframe, and the stream, its capture and its encoder keep their types.
THEOREM UnitsFit == WinCapSpec => []WinCapIInv
BY WinCapInitial, WinCapStep, PTL DEF WinCapSpec

\* The Windows host's stream of a window and the events of the encoder that
\* runs it, each in any order of its own steps.
THEOREM EncodingStaysInStep == WinCapSpec /\ EncoderSpec => []EncodingInStep
<1>1. WinCapIInv /\ NoEventIsLost => EncodingInStep
  BY DEF WinCapIInv, EncodingInStep
<1> QED
  BY UnitsFit, EventsAreKept, <1>1, PTL

-----------------------------------------------------------------------------
(* The secure-screen helper.                                                  *)

Phases == {"none", "starting", "listening", "serving", "running"}

BrokerStates == [phase : Phases, sid : Sids \cup {NoUser}, of : Sids \cup {NoUser},
                 op : Ops \cup {NoOp}]

ScreenTypes ==
    /\ broker \in [Brokers -> BrokerStates]
    /\ pipe \in [client : ScreenClients \cup {NoClient, Gone}, request : Ops \cup {NoOp},
                 answer : Ops \cup {NoOp, "refused"}]
    /\ asking \in [ScreenClients -> [handle : BOOLEAN, phase : {"idle", "sending", "reading"},
                                     op : Ops \cup {NoOp}, attempt : {0, 1}]]
    /\ machine \in [installed : BOOLEAN, task : BOOLEAN, grant : Sids \cup {NoUser},
                   doing : {NoOp, "registers", "unregisters", "uninstalls", "removes"}]
    /\ console \in [of : Sids \cup {NoUser}, desktop : {"Default", "Winlogon"}]

HoldsPipe(b) == broker[b].phase \in {"listening", "serving", "running"}
Runs(b) == broker[b].phase = "running"

\* The pipe has one instance, and one process has it.
OneServer == \A a, b \in Brokers : HoldsPipe(a) /\ HoldsPipe(b) => a = b

\* With no client there, nothing is asked, answered or under way; a client
\* that went leaves nothing to read behind.
QuietWithoutAClient ==
    /\ pipe.client \in {NoClient, Gone} => pipe.request = NoOp /\ pipe.answer = NoOp
    /\ pipe.client = NoClient => \A b \in Brokers : broker[b].phase \notin {"serving", "running"}

\* A client that is connected has the handle, and what is in the pipe and
\* under way is the one thing it asked: as its request, as the operation of
\* the process that serves it, or as the answer.
OneQuestion ==
    \A c \in ScreenClients :
        /\ asking[c].phase # "idle" => asking[c].op \in Ops
        /\ pipe.client = c =>
             /\ asking[c].handle
             /\ asking[c].phase # "reading" =>
                  pipe.request = NoOp /\ pipe.answer = NoOp /\ \A b \in Brokers : ~Runs(b)
             /\ pipe.request # NoOp =>
                  /\ pipe.request = asking[c].op /\ pipe.answer = NoOp
                  /\ \A b \in Brokers : ~Runs(b)
             /\ \A b \in Brokers : Runs(b) => broker[b].op = asking[c].op /\ pipe.answer = NoOp
             /\ pipe.answer # NoOp => pipe.answer \in {asking[c].op, "refused"}

ScreenIInv == ScreenTypes /\ OneServer /\ QuietWithoutAClient /\ OneQuestion

LEMMA ScreenInitial == ScreenInit => ScreenIInv
<1> SUFFICES ASSUME ScreenInit PROVE ScreenIInv
  OBVIOUS
<1>1. ScreenTypes
  BY DEF ScreenInit, ScreenTypes, BrokerStates, NoBroker, Unconnected, NotAsking, Phases
<1>2. OneServer /\ QuietWithoutAClient /\ OneQuestion
  BY ScreenAssumption DEF ScreenInit, OneServer, QuietWithoutAClient, OneQuestion, HoldsPipe, Runs,
     NoBroker, Unconnected, NotAsking
<1> QED
  BY <1>1, <1>2 DEF ScreenIInv

\* A process that ends takes its pipe with it, and no other had it.
LEMMA EndsKeeps ==
    ASSUME ScreenIInv, NEW b \in Brokers, ~Serves(b, {"none"}), Ends(b),
           UNCHANGED <<machine, console, asking>>
    PROVE  ScreenIInv'
<1> USE DEF ScreenIInv
<1>1. ScreenTypes'
  BY DEF Ends, ScreenTypes, BrokerStates, NoBroker, Unconnected, Phases
<1>2. \A a \in Brokers : broker'[a] = IF a = b THEN NoBroker ELSE broker[a]
  BY DEF Ends, ScreenTypes
<1>3. OneServer'
  BY <1>2 DEF OneServer, HoldsPipe, NoBroker
<1>4. CASE Serves(b, {"starting"})
  <2>1. pipe' = pipe
    BY <1>4 DEF Ends
  <2> QED
    BY <1>1, <1>2, <1>3, <2>1 DEF QuietWithoutAClient, OneQuestion, Runs, NoBroker
<1>5. CASE ~Serves(b, {"starting"})
  <2>1. pipe' = Unconnected
    BY <1>5 DEF Ends
  <2>2. \A a \in Brokers : ~HoldsPipe(a)'
    BY <1>2, <1>5 DEF OneServer, HoldsPipe, Serves, NoBroker, ScreenTypes, BrokerStates, Phases
  <2> QED
    BY <1>1, <1>3, <2>1, <2>2, ScreenAssumption
    DEF QuietWithoutAClient, OneQuestion, HoldsPipe, Runs, Unconnected
<1> QED
  BY <1>4, <1>5

\* A connection that is given up is empty afterwards; nobody else served it.
LEMMA DisconnectsKeeps ==
    ASSUME ScreenIInv, NEW b \in Brokers, HoldsPipe(b), Disconnects(b),
           UNCHANGED <<machine, console, asking>>
    PROVE  ScreenIInv'
<1> USE DEF ScreenIInv
<1>1. ScreenTypes'
  <2>0. broker[b] \in BrokerStates
    BY DEF ScreenTypes
  <2>1. [broker[b] EXCEPT !.phase = "listening", !.op = NoOp] \in BrokerStates
    BY <2>0 DEF BrokerStates, Phases
  <2>3. broker' \in [Brokers -> BrokerStates]
    BY <2>1 DEF Disconnects, ScreenTypes
  <2>2. pipe' \in [client : ScreenClients \cup {NoClient, Gone}, request : Ops \cup {NoOp},
                 answer : Ops \cup {NoOp, "refused"}]
    BY DEF Disconnects, Unconnected
  <2> QED
    BY <2>2, <2>3 DEF ScreenTypes
<1>2. \A a \in Brokers : broker'[a] = IF a = b THEN [broker[b] EXCEPT !.phase = "listening", !.op = NoOp]
                                       ELSE broker[a]
  BY DEF Disconnects, ScreenTypes
<1>3. broker'[b].phase = "listening"
  <2>1. broker[b] \in BrokerStates
    BY DEF ScreenTypes
  <2> QED
    BY <1>2, <2>1 DEF BrokerStates
<1>4. \A a \in Brokers : HoldsPipe(a)' => a = b
  BY <1>2 DEF OneServer, HoldsPipe
<1>5. \A a \in Brokers : broker'[a].phase \notin {"serving", "running"}
  BY <1>3, <1>4 DEF HoldsPipe
<1> QED
  BY <1>1, <1>4, <1>5, ScreenAssumption
  DEF Disconnects, OneServer, QuietWithoutAClient, OneQuestion, Runs, Unconnected

\* What the elevated commands and Task Scheduler do leaves the helper alone.
LEMMA LifecycleKeeps ==
    ASSUME ScreenIInv, \/ Install \/ Registers \/ Unregisters \/ Removes
                       \/ \E sid \in Sids : Enable(sid)
                       \/ \E goesOn \in BOOLEAN : Disable(goesOn)
    PROVE  ScreenIInv'
<1> USE DEF Administers, ScreenTypes, ScreenIInv
<1>1. UNCHANGED <<console, broker, pipe, asking>> /\ ScreenTypes'
  <2>1. CASE Install
    BY <2>1 DEF Install
  <2>2. CASE Registers
    BY <2>2 DEF Registers
  <2>3. CASE Unregisters
    BY <2>3 DEF Unregisters
  <2>4. CASE Removes
    BY <2>4 DEF Removes
  <2>5. ASSUME NEW sid \in Sids, Enable(sid)
        PROVE  UNCHANGED <<console, broker, pipe, asking>> /\ ScreenTypes'
    BY <2>5 DEF Enable
  <2>6. ASSUME NEW goesOn \in BOOLEAN, Disable(goesOn)
        PROVE  UNCHANGED <<console, broker, pipe, asking>> /\ ScreenTypes'
    BY <2>6 DEF Disable
  <2> QED
    BY <2>1, <2>2, <2>3, <2>4, <2>5, <2>6
<1> QED
  BY <1>1 DEF OneServer, QuietWithoutAClient, OneQuestion, HoldsPipe, Runs

\* A process that starts has no part of the pipe yet.
LEMMA ConsoleKeeps ==
    ASSUME ScreenIInv, NEW of \in Sids \cup {NoUser}, NEW desktop \in {"Default", "Winlogon"},
           ConsoleChanges(of, desktop)
    PROVE  ScreenIInv'
<1> USE DEF ScreenIInv
<1>1. UNCHANGED <<pipe, asking, machine>> /\ console' = [of |-> of, desktop |-> desktop]
  BY DEF ConsoleChanges
<1>2. \/ UNCHANGED broker
      \/ \E b \in Brokers : broker[b] = NoBroker /\ broker' = [broker EXCEPT ![b] = Starting(of)]
  BY DEF ConsoleChanges, Triggered
<1>3. CASE UNCHANGED broker
  BY <1>1, <1>3 DEF ScreenTypes, OneServer, QuietWithoutAClient, OneQuestion, HoldsPipe, Runs
<1>4. ASSUME NEW b \in Brokers, broker' = [broker EXCEPT ![b] = Starting(of)], broker[b] = NoBroker
      PROVE  ScreenIInv'
  <2>1. Starting(of) = [phase |-> "starting", sid |-> NoUser, of |-> of, op |-> NoOp]
    BY DEF Starting
  <2>2. ScreenTypes'
    BY <1>1, <1>4, <2>1 DEF ScreenTypes, BrokerStates, Phases
  <2>3. \A a \in Brokers : broker'[a].phase = "starting" \/ broker'[a] = broker[a]
    BY <1>4, <2>1 DEF ScreenTypes
  <2> QED
    BY <1>1, <2>2, <2>3 DEF OneServer, QuietWithoutAClient, OneQuestion, HoldsPipe, Runs
<1> QED
  BY <1>2, <1>3, <1>4

\* run: a process serves only when no other does.
LEMMA BrokerStartsKeeps ==
    ASSUME ScreenIInv, NEW b \in Brokers, BrokerStarts(b)
    PROVE  ScreenIInv'
<1> USE DEF ScreenIInv
<1>1. UNCHANGED <<machine, console, asking>> /\ broker[b].phase = "starting"
  BY DEF BrokerStarts, Serves
<1>2. CASE Ends(b)
  BY <1>1, <1>2, EndsKeeps DEF Serves
<1>3. CASE broker' = [broker EXCEPT ![b] = Starting(console.of)] /\ UNCHANGED pipe
  <2>1. Starting(console.of) = [phase |-> "starting", sid |-> NoUser, of |-> console.of, op |-> NoOp]
    BY DEF Starting
  <2>2. ScreenTypes'
    BY <1>1, <1>3, <2>1 DEF ScreenTypes, BrokerStates, Phases
  <2>3. \A a \in Brokers : broker'[a].phase = "starting" \/ broker'[a] = broker[a]
    BY <1>3, <2>1 DEF ScreenTypes
  <2> QED
    BY <1>1, <1>3, <2>2, <2>3 DEF OneServer, QuietWithoutAClient, OneQuestion, HoldsPipe, Runs
<1>4. CASE /\ ~PipeTaken /\ UNCHANGED pipe
           /\ broker' = [broker EXCEPT ![b].phase = "listening", ![b].sid = Granted]
  <2>5. broker[b] \in BrokerStates /\ Granted \in Sids \cup {NoUser}
    BY DEF ScreenTypes, Granted
  <2>0. [broker[b] EXCEPT !.phase = "listening", !.sid = Granted] \in BrokerStates
    BY <2>5 DEF BrokerStates, Phases
  <2>1. ScreenTypes'
    BY <1>1, <1>4, <2>0 DEF ScreenTypes
  <2>2. \A a \in Brokers : IF a = b THEN broker'[a].phase = "listening" ELSE broker'[a] = broker[a]
    BY <1>4 DEF ScreenTypes
  <2>3. \A a \in Brokers : ~HoldsPipe(a)
    BY <1>4 DEF PipeTaken, Serves, HoldsPipe
  <2>4. \A a \in Brokers : /\ HoldsPipe(a)' => a = b
                           /\ broker'[a].phase \notin {"serving", "running"}
    BY <2>2, <2>3 DEF HoldsPipe
  <2> QED
    BY <1>1, <1>4, <2>1, <2>4 DEF OneServer, QuietWithoutAClient, OneQuestion, Runs
<1> QED
  BY <1>2, <1>3, <1>4 DEF BrokerStarts

\* Waiting, a process that may no longer serve ends; so does one that finds
\* an error, and a connection that is let go is cut.
LEMMA PollsAndLetsGoKeep ==
    ASSUME ScreenIInv, NEW b \in Brokers, Polls(b) \/ LetsGo(b)
    PROVE  ScreenIInv'
<1>1. CASE Polls(b)
  <2>1. ~Serves(b, {"none"}) /\ Ends(b) /\ UNCHANGED <<machine, console, asking>>
    BY <1>1 DEF Polls, Serves
  <2> QED
    BY <2>1, EndsKeeps
<1>2. CASE LetsGo(b)
  <2>1. HoldsPipe(b) /\ Disconnects(b) /\ UNCHANGED <<machine, console, asking>>
    BY <1>2 DEF LetsGo, Serves, HoldsPipe
  <2> QED
    BY <2>1, DisconnectsKeeps
<1> QED
  BY <1>1, <1>2

\* A process goes on to another phase and the pipe stays: as long as it does
\* not begin to run anything, nothing is under way.
LEMMA AcceptsKeeps ==
    ASSUME ScreenIInv, NEW b \in Brokers, Accepts(b)
    PROVE  ScreenIInv'
<1>1. UNCHANGED <<machine, console, asking>> /\ broker[b].phase = "listening" /\ pipe.client # NoClient
  BY DEF Accepts, Serves, Arrived
<1>2. CASE Ends(b)
  BY <1>1, <1>2, EndsKeeps DEF Serves
<1>3. CASE Disconnects(b)
  BY <1>1, <1>3, DisconnectsKeeps DEF HoldsPipe
<1>4. CASE broker' = [broker EXCEPT ![b].phase = "serving"] /\ UNCHANGED pipe
  <2> USE DEF ScreenIInv
  <2>1. broker[b] \in BrokerStates
    BY DEF ScreenTypes
  <2>2. [broker[b] EXCEPT !.phase = "serving"] \in BrokerStates
    BY <2>1 DEF BrokerStates, Phases
  <2>3. ScreenTypes'
    BY <1>1, <1>4, <2>2 DEF ScreenTypes
  <2>4. \A a \in Brokers : /\ HoldsPipe(a)' = HoldsPipe(a)
                           /\ Runs(a)' = Runs(a)
                           /\ Runs(a) => broker'[a] = broker[a]
    BY <1>1, <1>4, <2>1 DEF HoldsPipe, Runs, ScreenTypes, BrokerStates
  <2> QED
    BY <1>1, <1>4, <2>3, <2>4 DEF OneServer, QuietWithoutAClient, OneQuestion
<1> QED
  BY <1>2, <1>3, <1>4 DEF Accepts

\* The request becomes the operation under way ...
LEMMA ReadsRequestKeeps ==
    ASSUME ScreenIInv, NEW b \in Brokers, ReadsRequest(b)
    PROVE  ScreenIInv'
<1>1. /\ UNCHANGED <<machine, console, asking>> /\ broker[b].phase = "serving" /\ pipe.request # NoOp
      /\ broker[b] \in BrokerStates
  BY DEF ReadsRequest, Serves, ScreenIInv, ScreenTypes
<1>2. CASE Ends(b)
  BY <1>1, <1>2, EndsKeeps DEF Serves
<1>3. CASE /\ broker' = [broker EXCEPT ![b].phase = "running", ![b].op = pipe.request]
           /\ pipe' = [pipe EXCEPT !.request = NoOp]
  <2> USE DEF ScreenIInv
  <2>1. pipe.request \in Ops
    BY <1>1 DEF ScreenTypes
  <2>2. [broker[b] EXCEPT !.phase = "running", !.op = pipe.request] \in BrokerStates
    BY <1>1, <2>1 DEF BrokerStates, Phases
  <2>3. ScreenTypes'
    BY <1>1, <1>3, <2>2 DEF ScreenTypes
  <2>4. \A a \in Brokers : HoldsPipe(a)' => a = b
    BY <1>1, <1>3 DEF OneServer, HoldsPipe, ScreenTypes, BrokerStates
  <2>5. \A a \in Brokers : Runs(a)' => a = b
    BY <2>4 DEF Runs, HoldsPipe
  <2>6. broker'[b].op = pipe.request
    BY <1>1, <1>3 DEF ScreenTypes, BrokerStates
  <2>7. pipe'.client = pipe.client /\ pipe'.request = NoOp /\ pipe'.answer = pipe.answer
    BY <1>3 DEF ScreenTypes
  <2>8. pipe.client \notin {NoClient, Gone}
    BY <1>1 DEF QuietWithoutAClient
  <2> QED
    BY <1>1, <2>3, <2>4, <2>5, <2>6, <2>7, <2>8 DEF OneServer, QuietWithoutAClient, OneQuestion
<1> QED
  BY <1>2, <1>3 DEF ReadsRequest

\* ... and the operation the answer.
LEMMA ExecutesKeeps ==
    ASSUME ScreenIInv, NEW b \in Brokers, Executes(b)
    PROVE  ScreenIInv'
<1>1. /\ UNCHANGED <<machine, console, asking>> /\ broker[b].phase = "running"
      /\ broker[b] \in BrokerStates
  BY DEF Executes, Serves, ScreenIInv, ScreenTypes
<1>2. CASE Ends(b)
  BY <1>1, <1>2, EndsKeeps DEF Serves
<1>3. ASSUME pipe.client # Gone, NEW answer \in AnswersTo(broker[b].op),
             pipe' = [pipe EXCEPT !.answer = answer],
             broker' = [broker EXCEPT ![b].phase = "serving", ![b].op = NoOp]
      PROVE  ScreenIInv'
  <2> USE DEF ScreenIInv
  <2>1. answer \in Ops \cup {"refused"}
    BY DEF AnswersTo, CaptureAnswers, InputAnswers, Ops
  <2>2. [broker[b] EXCEPT !.phase = "serving", !.op = NoOp] \in BrokerStates
    BY <1>1 DEF BrokerStates, Phases
  <2>3. ScreenTypes'
    BY <1>1, <1>3, <2>1, <2>2 DEF ScreenTypes
  <2>4. \A a \in Brokers : HoldsPipe(a)' => a = b
    BY <1>1, <1>3 DEF OneServer, HoldsPipe, ScreenTypes, BrokerStates
  <2>5. \A a \in Brokers : ~Runs(a)'
    <3>1. broker'[b].phase = "serving"
      BY <1>1, <1>3 DEF ScreenTypes, BrokerStates
    <3> QED
      BY <2>4, <3>1 DEF Runs, HoldsPipe
  <2>6. pipe'.client = pipe.client /\ pipe'.request = pipe.request /\ pipe'.answer = answer
    BY <1>3 DEF ScreenTypes
  <2>7. pipe.client \in ScreenClients /\ Runs(b)
    BY <1>1, <1>3 DEF QuietWithoutAClient, ScreenTypes, Runs
  <2>8. LET c == pipe.client IN /\ broker[b].op = asking[c].op /\ asking[c].op \in Ops
                                /\ asking[c].phase = "reading" /\ pipe.request = NoOp
    BY <2>7 DEF OneQuestion, ScreenTypes
  <2>9. answer \in {broker[b].op, "refused"}
    BY <2>8 DEF AnswersTo, CaptureAnswers, InputAnswers, Ops
  <2> QED
    BY <1>1, <2>3, <2>4, <2>5, <2>6, <2>7, <2>8, <2>9, ScreenAssumption
    DEF OneServer, QuietWithoutAClient, OneQuestion
<1> QED
  BY <1>2, <1>3 DEF Executes

AskingStates == [handle : BOOLEAN, phase : {"idle", "sending", "reading"},
                 op : Ops \cup {NoOp}, attempt : {0, 1}]

\* A client that is not connected may do with its own state what it likes.
LEMMA OwnStepKeeps ==
    ASSUME ScreenIInv, NEW c \in ScreenClients, pipe.client # c,
           UNCHANGED <<machine, console, broker, pipe>>,
           NEW to \in AskingStates, asking' = [asking EXCEPT ![c] = to],
           to.phase # "idle" => to.op \in Ops
    PROVE  ScreenIInv'
<1> USE DEF ScreenIInv
<1>1. ScreenTypes'
  BY DEF ScreenTypes, AskingStates
<1>2. \A d \in ScreenClients : asking'[d] = IF d = c THEN to ELSE asking[d]
  BY DEF ScreenTypes
<1> QED
  BY <1>1, <1>2 DEF OneServer, QuietWithoutAClient, OneQuestion, HoldsPipe, Runs

\* One more try, or none: with a new handle either way.
LEMMA TriesAgainKeeps ==
    ASSUME ScreenIInv, NEW c \in ScreenClients, asking[c].phase # "idle", pipe.client # c, TriesAgain(c),
           UNCHANGED <<machine, console, broker, pipe>>
    PROVE  ScreenIInv'
<1>1. asking[c] \in AskingStates /\ asking[c].op \in Ops
  BY DEF ScreenIInv, ScreenTypes, AskingStates, OneQuestion
<1>2. CASE asking[c].attempt = 0
  <2> DEFINE to == [asking[c] EXCEPT !.handle = FALSE, !.attempt = 1, !.phase = "sending"]
  <2>1. to \in AskingStates /\ to.op \in Ops
    BY <1>1 DEF AskingStates
  <2>2. asking' = [asking EXCEPT ![c] = to]
    BY <1>2 DEF TriesAgain
  <2> HIDE DEF to
  <2> QED
    BY <2>1, <2>2, OwnStepKeeps
<1>3. CASE GivesUp(c)
  <2> DEFINE to == [NotAsking EXCEPT !.handle = FALSE]
  <2>1. to \in AskingStates /\ to.phase = "idle"
    BY DEF AskingStates, NotAsking
  <2>2. asking' = [asking EXCEPT ![c] = to]
    BY <1>3 DEF GivesUp
  <2> HIDE DEF to
  <2> QED
    BY <2>1, <2>2, OwnStepKeeps
<1> QED
  BY <1>2, <1>3 DEF TriesAgain

\* What a client starts to ask, it asks with nothing of its own in the pipe.
LEMMA AsksKeeps ==
    ASSUME ScreenIInv, NEW c \in ScreenClients, NEW op \in Ops, Asks(c, op)
    PROVE  ScreenIInv'
<1> USE DEF ScreenIInv
<1>1. UNCHANGED <<machine, console, broker, pipe>> /\ asking[c].phase = "idle"
      /\ asking[c] \in AskingStates
  BY DEF Asks, ScreenTypes, AskingStates
<1> DEFINE to == [asking[c] EXCEPT !.phase = "sending", !.op = op, !.attempt = 0]
<1>2. to \in AskingStates /\ to.phase = "sending" /\ to.op = op /\ to.handle = asking[c].handle
  BY <1>1 DEF AskingStates
<1>3. asking' = [asking EXCEPT ![c] = to]
  BY DEF Asks
<1> HIDE DEF to
<1>4. ScreenTypes'
  BY <1>1, <1>2, <1>3 DEF ScreenTypes, AskingStates
<1>5. \A d \in ScreenClients : asking'[d] = IF d = c THEN to ELSE asking[d]
  BY <1>3 DEF ScreenTypes
<1> QED
  BY <1>1, <1>2, <1>4, <1>5 DEF OneServer, QuietWithoutAClient, OneQuestion, HoldsPipe, Runs

\* The instance of the pipe that is free is empty, and the client that finds
\* it has the handle.
LEMMA ConnectsKeeps ==
    ASSUME ScreenIInv, NEW c \in ScreenClients, Connects(c)
    PROVE  ScreenIInv'
<1>1. /\ UNCHANGED <<machine, console, broker>> /\ asking[c].phase = "sending" /\ ~asking[c].handle
      /\ asking[c] \in AskingStates /\ asking[c].op \in Ops
  BY DEF Connects, ScreenIInv, ScreenTypes, AskingStates, OneQuestion
<1>2. CASE /\ pipe.client = NoClient /\ pipe' = [pipe EXCEPT !.client = c]
           /\ asking' = [asking EXCEPT ![c].handle = TRUE]
  <2> USE DEF ScreenIInv
  <2>1. [asking[c] EXCEPT !.handle = TRUE] \in AskingStates
    BY <1>1 DEF AskingStates
  <2>2. ScreenTypes'
    BY <1>1, <1>2, <2>1 DEF ScreenTypes, AskingStates
  <2>3. /\ asking'[c].handle /\ asking'[c].phase = "sending" /\ asking'[c].op \in Ops
        /\ \A d \in ScreenClients : d # c => asking'[d] = asking[d]
    BY <1>1, <1>2 DEF ScreenTypes
  <2>4. /\ pipe'.client = c /\ pipe'.request = NoOp /\ pipe'.answer = NoOp
        /\ \A a \in Brokers : ~Runs(a)
    BY <1>2 DEF ScreenTypes, QuietWithoutAClient, Runs
  <2> QED
    BY <1>1, <2>2, <2>3, <2>4, ScreenAssumption
    DEF OneServer, QuietWithoutAClient, OneQuestion, HoldsPipe, Runs
<1>3. CASE GivesUp(c) /\ UNCHANGED pipe
  <2>1. pipe.client # c
    BY <1>1 DEF ScreenIInv, OneQuestion
  <2> DEFINE to == [NotAsking EXCEPT !.handle = FALSE]
  <2>2. to \in AskingStates /\ to.phase = "idle"
    BY DEF AskingStates, NotAsking
  <2>3. asking' = [asking EXCEPT ![c] = to]
    BY <1>3 DEF GivesUp
  <2> HIDE DEF to
  <2> QED
    BY <1>1, <1>3, <2>1, <2>2, <2>3, OwnStepKeeps
<1> QED
  BY <1>2, <1>3 DEF Connects

\* The request is written into a pipe that holds nothing else.
LEMMA WritesKeeps ==
    ASSUME ScreenIInv, NEW c \in ScreenClients, Writes(c)
    PROVE  ScreenIInv'
<1>1. /\ UNCHANGED <<machine, console, broker>> /\ asking[c].phase = "sending" /\ asking[c].handle
      /\ asking[c] \in AskingStates /\ asking[c].op \in Ops
  BY DEF Writes, ScreenIInv, ScreenTypes, AskingStates, OneQuestion
<1>2. CASE /\ pipe.client = c /\ pipe' = [pipe EXCEPT !.request = asking[c].op]
           /\ asking' = [asking EXCEPT ![c].phase = "reading"]
  <2> USE DEF ScreenIInv
  <2>1. [asking[c] EXCEPT !.phase = "reading"] \in AskingStates
    BY <1>1 DEF AskingStates
  <2>2. ScreenTypes'
    BY <1>1, <1>2, <2>1 DEF ScreenTypes, AskingStates
  <2>3. /\ asking'[c].handle /\ asking'[c].phase = "reading" /\ asking'[c].op = asking[c].op
        /\ \A d \in ScreenClients : d # c => asking'[d] = asking[d]
    BY <1>1, <1>2 DEF ScreenTypes, AskingStates
  <2>4. /\ pipe'.client = c /\ pipe'.request = asking[c].op /\ pipe'.answer = NoOp
        /\ \A a \in Brokers : ~Runs(a)
    BY <1>1, <1>2 DEF ScreenTypes, OneQuestion
  <2> QED
    BY <1>1, <2>2, <2>3, <2>4, ScreenAssumption
    DEF OneServer, QuietWithoutAClient, OneQuestion, HoldsPipe, Runs
<1>3. CASE pipe.client # c /\ TriesAgain(c) /\ UNCHANGED pipe
  BY <1>1, <1>3, TriesAgainKeeps
<1> QED
  BY <1>2, <1>3 DEF Writes

\* An answer that is read is the last of its conversation.
LEMMA ReadsKeeps ==
    ASSUME ScreenIInv, NEW c \in ScreenClients, Reads(c)
    PROVE  ScreenIInv'
<1>1. /\ UNCHANGED <<machine, console, broker>> /\ asking[c].phase = "reading"
      /\ asking[c] \in AskingStates
  BY DEF Reads, ScreenIInv, ScreenTypes, AskingStates
<1>2. CASE /\ pipe.client = c /\ pipe.answer # NoOp /\ pipe' = [pipe EXCEPT !.answer = NoOp]
           /\ asking' = [asking EXCEPT ![c] = [NotAsking EXCEPT !.handle = TRUE]]
  <2> USE DEF ScreenIInv
  <2> DEFINE to == [NotAsking EXCEPT !.handle = TRUE]
  <2>1. to \in AskingStates /\ to.phase = "idle" /\ to.handle
    BY DEF AskingStates, NotAsking
  <2>2. asking' = [asking EXCEPT ![c] = to]
    BY <1>2
  <2> HIDE DEF to
  <2>6. asking' \in [ScreenClients -> AskingStates]
    BY <2>1, <2>2 DEF ScreenTypes, AskingStates
  <2>7. pipe' \in [client : ScreenClients \cup {NoClient, Gone}, request : Ops \cup {NoOp},
                 answer : Ops \cup {NoOp, "refused"}]
    BY <1>2 DEF ScreenTypes
  <2>3. ScreenTypes'
    BY <1>1, <2>6, <2>7 DEF ScreenTypes, AskingStates
  <2>4. \A d \in ScreenClients : asking'[d] = IF d = c THEN to ELSE asking[d]
    BY <2>2 DEF ScreenTypes
  <2>5. /\ pipe'.client = c /\ pipe'.request = NoOp /\ pipe'.answer = NoOp
        /\ \A a \in Brokers : ~Runs(a)
    BY <1>1, <1>2 DEF ScreenTypes, OneQuestion
  <2> QED
    BY <1>1, <2>1, <2>3, <2>4, <2>5, ScreenAssumption
    DEF OneServer, QuietWithoutAClient, OneQuestion, HoldsPipe, Runs
<1>3. CASE pipe.client # c /\ TriesAgain(c) /\ UNCHANGED pipe
  BY <1>1, <1>3, TriesAgainKeeps
<1> QED
  BY <1>2, <1>3 DEF Reads

\* The host's process ends, whatever it is doing: nothing of what it asked
\* can be read by the one that is started again.
LEMMA ClientExitsKeeps ==
    ASSUME ScreenIInv, NEW c \in ScreenClients, ClientExits(c)
    PROVE  ScreenIInv'
<1> USE DEF ScreenIInv
<1>1. UNCHANGED <<machine, console, broker>> /\ asking' = [asking EXCEPT ![c] = NotAsking]
  BY DEF ClientExits
<1>2. NotAsking \in AskingStates /\ NotAsking.phase = "idle"
  BY DEF NotAsking, AskingStates
<1>3. CASE pipe.client # c
  BY <1>1, <1>2, <1>3, OwnStepKeeps DEF ClientExits
<1>4. CASE pipe.client = c
  <2>1. pipe' = [Unconnected EXCEPT !.client = Gone]
    BY <1>4 DEF ClientExits
  <2>2. /\ pipe' \in [client : {Gone}, request : {NoOp}, answer : {NoOp}]
    BY <2>1 DEF Unconnected
  <2>3. ScreenTypes'
    BY <1>1, <1>2, <2>2 DEF ScreenTypes, AskingStates
  <2>4. \A d \in ScreenClients : asking'[d] = IF d = c THEN NotAsking ELSE asking[d]
    BY <1>1 DEF ScreenTypes
  <2>5. /\ pipe'.client = Gone /\ pipe'.request = NoOp /\ pipe'.answer = NoOp
        /\ Gone # NoClient
    BY <2>2 DEF Gone, NoClient
  <2> QED
    BY <1>1, <1>2, <2>3, <2>4, <2>5, ScreenAssumption
    DEF OneServer, QuietWithoutAClient, OneQuestion, HoldsPipe, Runs
<1> QED
  BY <1>3, <1>4

LEMMA ScreenInductive == ScreenIInv /\ [ScreenNext]_screenVars => ScreenIInv'
<1> SUFFICES ASSUME ScreenIInv, [ScreenNext]_screenVars PROVE ScreenIInv'
  OBVIOUS
<1>1. CASE \/ Install \/ Registers \/ Unregisters \/ Removes
           \/ \E sid \in Sids : Enable(sid)
           \/ \E goesOn \in BOOLEAN : Disable(goesOn)
  BY <1>1, LifecycleKeeps
<1>2. ASSUME NEW of \in Sids \cup {NoUser}, NEW desktop \in {"Default", "Winlogon"},
             ConsoleChanges(of, desktop)
      PROVE  ScreenIInv'
  BY <1>2, ConsoleKeeps
<1>3. ASSUME NEW b \in Brokers, BrokerSteps(b) PROVE ScreenIInv'
  BY <1>3, BrokerStartsKeeps, PollsAndLetsGoKeep, AcceptsKeeps, ReadsRequestKeeps, ExecutesKeeps
  DEF BrokerSteps
<1>4. ASSUME NEW c \in ScreenClients, ClientSteps(c) PROVE ScreenIInv'
  BY <1>4, ConnectsKeeps, WritesKeeps, ReadsKeeps DEF ClientSteps
<1>5. ASSUME NEW c \in ScreenClients, ClientExits(c) PROVE ScreenIInv'
  BY <1>5, ClientExitsKeeps
<1>6. ASSUME NEW c \in ScreenClients, NEW op \in Ops, Asks(c, op) PROVE ScreenIInv'
  BY <1>6, AsksKeeps
<1>7. ASSUME NEW c \in ScreenClients, OpensSecure(c) PROVE ScreenIInv'
  BY <1>7 DEF OpensSecure, ScreenIInv, ScreenTypes, OneServer, QuietWithoutAClient, OneQuestion, HoldsPipe, Runs
<1>8. CASE UNCHANGED screenVars
  BY <1>8 DEF screenVars, ScreenIInv, ScreenTypes, OneServer, QuietWithoutAClient, OneQuestion, HoldsPipe, Runs
<1> QED
  BY <1>1, <1>2, <1>3, <1>4, <1>5, <1>6, <1>7, <1>8 DEF ScreenNext

\* One process of the helper at most has the pipe, however many the task and
\* the console's switches start (main.rs run, PipeTaken).
THEOREM OneServerAtATime == ScreenSpec => []OneServer
<1>1. ScreenIInv => OneServer
  BY DEF ScreenIInv
<1> QED
  BY <1>1, ScreenInitial, ScreenInductive, PTL DEF ScreenSpec

\* What a client reads from the pipe answers what it asked there, wherever
\* the connection was cut and whoever came in between (client.rs request,
\* main.rs serve).
THEOREM AnswersFit == ScreenSpec => []AnswersFitTheQuestion
<1>1. ScreenIInv => AnswersFitTheQuestion
  BY DEF ScreenIInv, OneQuestion, AnswersFitTheQuestion
<1> QED
  BY <1>1, ScreenInitial, ScreenInductive, PTL DEF ScreenSpec

-----------------------------------------------------------------------------
(* The size announced.  An encoder opened for a stream has the size          *)
(* announced for it, before the first unit both are none.                    *)

EncoderAnnounced == kind = "frames" => encoder.size = announced

AnnouncedIInv == UnitsHaveTheAnnouncedSize /\ EncoderAnnounced

LEMMA AnnouncedInitial == CaptureInit => AnnouncedIInv
<1> SUFFICES ASSUME CaptureInit PROVE AnnouncedIInv
  OBVIOUS
<1>1. encoder.size = NoSize /\ out.size = NoSize /\ announced = NoSize
  BY DEF CaptureInit
<1> QED
  BY <1>1 DEF AnnouncedIInv, UnitsHaveTheAnnouncedSize, EncoderAnnounced

LEMMA AnnouncedInductive == AnnouncedIInv /\ [CaptureNext]_captureVars => AnnouncedIInv'
<1> SUFFICES ASSUME AnnouncedIInv, [CaptureNext]_captureVars PROVE AnnouncedIInv'
  OBVIOUS
<1> USE DEF AnnouncedIInv, UnitsHaveTheAnnouncedSize, EncoderAnnounced
<1>1. CASE UNCHANGED <<kind, encoder, out, announced>>
  BY <1>1
<1>2. CASE NextPicture
  BY <1>2 DEF NextPicture, windowSide
<1>3. CASE NextCapturedFrame
  <2>1. encoder'.size = UnitSize /\ out'.size = UnitSize
    BY <1>3 DEF NextCapturedFrame, EncodedUnit
  <2>2. announced' = UnitSize
    BY <1>3 DEF NextCapturedFrame, CaptureReopens
  <2> QED
    BY <2>1, <2>2
<1>4. CASE EncoderSkips
  <2>1. encoder.size = UnitSize
    BY <1>4 DEF EncoderSkips, Keyed, CaptureReopens
  <2>2. encoder'.size = encoder.size /\ UNCHANGED <<kind, out, announced>>
    BY <1>4 DEF EncoderSkips, windowSide
  <2> QED
    BY <2>2
<1>5. CASE CompositorStep
  <2>1. UNCHANGED kind
    BY <1>5 DEF CompositorStep, Draw, CompletesCapture, CapturedWindowCloses, SendConstraints,
                FailsCapture, windowSide
  <2> QED
    BY <1>1, <1>5, <2>1 DEF CompositorStep, streamVars
<1>6. CASE Poll
  BY <1>1, <1>6 DEF Poll, PollStopped, PollReady, PollFailed, CompositorPollTimesOut, windowSide, streamVars
<1>7. CASE StartsCapture \/ WaitForConstraints \/ PollsOn \/ EncoderFails \/ KeyframeIsAsked \/ RefreshPasses
  BY <1>1, <1>7 DEF StartsCapture, WaitForConstraints, PollsOn, EncoderFails, KeyframeIsAsked,
                    RefreshPasses, windowSide, streamVars
<1>8. CASE UNCHANGED captureVars
  BY <1>1, <1>8 DEF captureVars
<1> QED
  BY <1>2, <1>3, <1>4, <1>5, <1>6, <1>7, <1>8 DEF CaptureNext, StreamStep, StreamMay

\* Every unit has the size announced last, whatever resizes, refused captures
\* and changes of the quality came between (agent-linux source.rs, next_frame).
THEOREM UnitsHaveTheirSize == CaptureSpec => []UnitsHaveTheAnnouncedSize
<1>1. AnnouncedIInv => UnitsHaveTheAnnouncedSize
  BY DEF AnnouncedIInv
<1> QED
  BY <1>1, AnnouncedInitial, AnnouncedInductive, PTL DEF CaptureSpec
===============================================================================
