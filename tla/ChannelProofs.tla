----------------------------- MODULE ChannelProofs -----------------------------
(***************************************************************************)
(* Proofs about what comes over the channels of a session: the input of the *)
(* clients, for any number of sessions, windows, keys and fingers and any   *)
(* number of events, on each platform, and files, for any number of         *)
(* channels, calls and kills of the host and files of any size.             *)
(***************************************************************************)
EXTENDS SessionViews, Files, FiniteSetTheorems, TLAPS

-----------------------------------------------------------------------------
(* What is held, and what is down. *)

Focuses == InputWindows \cup {NoWindow}
HoldingEvents == {e \in ClientEvents : e.kind \in {"key", "button", "touch"}}
HeldRecords == {HeldAs(e, f) : e \in HoldingEvents, f \in Focuses}

\* A key, a button in a window, a finger in a window: what a release names.
Thing(x) == <<x.kind, x.window, x.what>>
ThingsHeld == UNION {{Thing(x) : x \in held[s]} : s \in InputSessions}

KeyHeld(things, k) == <<"key", NoWindow, k>> \in things
ButtonHeld(things, w) == <<"button", w, Left>> \in things
TouchHeld(things, t) == \E w \in InputWindows : <<"touch", w, t>> \in things

Injectors ==
    [primary : TouchIds \cup {NoTouch}, postedTouch : TouchIds \cup {NoTouch},
     pointer : Focuses, postedDown : SUBSET (Keycodes \cup {Left}), focused : Focuses,
     fingers : SUBSET (InputWindows \X TouchIds)]

Screens ==
    [down : SUBSET (({"screen"} \cup InputWindows) \X (Keycodes \cup {Left})),
     front : InputWindows \cup {Elsewhere}]

InputTypes ==
    /\ platform \in {"windows", "linux", "android"}
    /\ streamed \in [InputSessions -> SUBSET InputWindows]
    /\ focus \in [InputSessions -> Focuses]
    /\ inputs \in [InputSessions -> Seq(ClientEvents \X Focuses)]
    /\ delivering \in [InputSessions -> {"on", "closing", "over"}]
    /\ held \in [InputSessions -> SUBSET HeldRecords]
    /\ pads \in [InputSessions -> SUBSET {"pad"}]
    /\ injector \in Injectors
    /\ screen \in Screens
    /\ reachable \in BOOLEAN

\* What is down at the system is held by some session, or was left there by a release
\* that did not reach it.
PrimaryHolds == injector.primary # NoTouch /\ ~ strayed.primary
PostedHolds == injector.postedTouch # NoTouch /\ ~ strayed.posted
DownWindows(things) ==
    /\ \A d \in screen.down :
         /\ d[1] = "screen"
         /\ \/ d \in strayed.down
            \/ KeyHeld(things, d[2])
            \/ d[2] = Left /\ ((\E w \in InputWindows : ButtonHeld(things, w)) \/ PrimaryHolds)
    /\ PrimaryHolds => TouchHeld(things, injector.primary)
    /\ PostedHolds => TouchHeld(things, injector.postedTouch)
    /\ strayed.primary => injector.primary # NoTouch
    /\ injector.fingers = {}

DownLinux(things) ==
    /\ \A d \in screen.down :
         /\ d[1] = "screen"
         /\ \/ KeyHeld(things, d[2])
            \/ d[2] = Left /\ \E w \in InputWindows : ButtonHeld(things, w)
                                                    \/ \E t \in TouchIds : <<"touch", w, t>> \in things
    /\ injector.primary = NoTouch /\ injector.postedTouch = NoTouch /\ injector.fingers = {}

DownAndroid(things) ==
    /\ \A d \in screen.down :
         /\ d[1] # NoWindow
         /\ d \in strayed.down \/ KeyHeld(things, d[2]) \/ (d[2] = Left /\ ButtonHeld(things, d[1]))
    /\ \A x \in injector.fingers : <<"touch", x[1], x[2]>> \in things
    /\ injector.primary = NoTouch /\ injector.postedTouch = NoTouch

DownHeld(things) ==
    /\ platform = "windows" => DownWindows(things)
    /\ platform = "linux" => DownLinux(things)
    /\ platform = "android" => DownAndroid(things)

DownIsHeld == DownHeld(ThingsHeld)

OverHoldsNothing == \A s \in InputSessions : delivering[s] = "over" => held[s] = {}

InputInv == InputTypes /\ DownIsHeld /\ OverHoldsNothing

\* What an event is.
LEMMA EventKinds ==
    ASSUME NEW e \in ClientEvents
    PROVE  /\ e.kind \in {"key", "text", "move", "button", "touch", "pad", "gone"}
           /\ e.kind = "key" => e.window = NoWindow /\ e.what \in Keycodes /\ e.phase \in {"Start", "End"}
           /\ e.kind = "text" => e.window = NoWindow /\ e.what \in Keycodes /\ e.phase = "Start"
           /\ e.kind = "move" => e.window \in InputWindows /\ e.phase = "Move"
           /\ e.kind = "button" => e.window \in InputWindows /\ e.what = Left /\ e.phase \in {"Start", "End"}
           /\ e.kind = "touch" => /\ e.window \in InputWindows /\ e.what \in TouchIds
                                  /\ e.phase \in {"Start", "Move", "End", "Cancel"}
  BY DEF ClientEvents

\* What a session holds before an event, and after it.
HoldsAfter(things, after, e) ==
    /\ things \subseteq after \cup (IF e.phase \in {"End", "Cancel"} THEN {Thing(e)} ELSE {})
    /\ e.kind \in {"key", "button", "touch"} /\ e.phase \in {"Start", "Move"} => Thing(e) \in after

LEMMA PressedOnly ==
    ASSUME NEW S, NEW x, NEW phase
    PROVE  /\ \A y \in Pressed(S, x, phase) : y \in S \/ (y = x /\ phase = "Start")
           /\ phase \in {"End", "Cancel"} => x \notin Pressed(S, x, phase)
  BY DEF Pressed

\* What is held goes on being held, or ends with this event.
LEMMA StillHeld ==
    ASSUME NEW things, NEW after, NEW e \in ClientEvents, HoldsAfter(things, after, e), NEW t \in things
    PROVE  \/ t \in after
           \/ /\ e.phase \in {"End", "Cancel"} /\ t = Thing(e)
              /\ t[1] = e.kind /\ t[2] = e.window /\ t[3] = e.what
  BY DEF HoldsAfter, Thing

-----------------------------------------------------------------------------
(* Windows. *)

LEMMA TouchStaysHeld ==
    ASSUME NEW things, NEW after, NEW e \in ClientEvents, HoldsAfter(things, after, e),
           NEW t, TouchHeld(things, t)
    PROVE  TouchHeld(after, t) \/ (e.kind = "touch" /\ e.what = t /\ e.phase \in {"End", "Cancel"})
<1>1. PICK w \in InputWindows : <<"touch", w, t>> \in things
  BY DEF TouchHeld
<1>2. \/ <<"touch", w, t>> \in after
      \/ e.phase \in {"End", "Cancel"} /\ "touch" = e.kind /\ t = e.what
  BY <1>1, StillHeld
<1>. QED
  BY <1>2 DEF TouchHeld

LEMMA TouchTaken ==
    ASSUME NEW things, NEW after, NEW e \in ClientEvents, HoldsAfter(things, after, e),
           e.kind = "touch", e.phase \in {"Start", "Move"}
    PROVE  TouchHeld(after, e.what) /\ e.what \in TouchIds
  BY EventKinds DEF HoldsAfter, Thing, TouchHeld

LEMMA KeyStaysHeld ==
    ASSUME NEW things, NEW after, NEW e \in ClientEvents, HoldsAfter(things, after, e),
           NEW k, KeyHeld(things, k)
    PROVE  KeyHeld(after, k) \/ (e.kind = "key" /\ e.what = k /\ e.phase \in {"End", "Cancel"})
<1>1. \/ <<"key", NoWindow, k>> \in after
      \/ e.phase \in {"End", "Cancel"} /\ "key" = e.kind /\ k = e.what
  BY StillHeld DEF KeyHeld
<1>. QED
  BY <1>1 DEF KeyHeld

LEMMA ButtonStaysHeld ==
    ASSUME NEW things, NEW after, NEW e \in ClientEvents, HoldsAfter(things, after, e),
           NEW w, ButtonHeld(things, w)
    PROVE  ButtonHeld(after, w) \/ (e.kind = "button" /\ e.window = w /\ e.phase \in {"End", "Cancel"})
<1>1. \/ <<"button", w, Left>> \in after
      \/ e.phase \in {"End", "Cancel"} /\ "button" = e.kind /\ w = e.window
  BY StillHeld DEF ButtonHeld
<1>. QED
  BY <1>1 DEF ButtonHeld

\* What strays stays strayed as long as it is there, and what is marked is what the
\* release missed.
LEMMA StrayedStays ==
    ASSUME NEW e \in ClientEvents, NEW f \in Focuses, NEW answers \in BOOLEAN,
           strayed' = StrayedAfter(e, f, answers)
    PROVE  /\ \A d \in screen'.down :
                d \in strayed.down \/ (e.phase \in {"End", "Cancel"} /\ d \in Misses(e, f, answers))
                  => d \in strayed'.down
           /\ PrimaryHolds' => injector'.primary # NoTouch /\ ~ strayed.primary
           /\ PostedHolds' => injector'.postedTouch # NoTouch /\ ~ strayed.posted
  BY DEF StrayedAfter, PrimaryHolds, PostedHolds

\* The finger that drives the pointer goes on being held, or its end is taken or marked.
LEMMA PrimaryKeeps ==
    ASSUME InputTypes, NEW e \in ClientEvents, NEW f \in Focuses, NEW answers \in BOOLEAN,
           NEW things, NEW after, HoldsAfter(things, after, e), DownWindows(things),
           platform = "windows", InjectWindows(e, f, answers), strayed' = StrayedAfter(e, f, answers),
           PrimaryHolds'
    PROVE  TouchHeld(after, injector'.primary)
<1>1. injector'.primary # NoTouch /\ ~ strayed.primary
  BY StrayedStays
<1>2. CASE injector'.primary = injector.primary
  <2>1. TouchHeld(things, injector.primary)
    BY <1>1, <1>2 DEF DownWindows, PrimaryHolds
  <2>2. SUFFICES ASSUME e.kind = "touch", e.what = injector.primary, e.phase \in {"End", "Cancel"}
                 PROVE  FALSE
    BY <1>2, <2>1, TouchStaysHeld
  <2>3. ~ ByMessage(e, f, answers)
    BY <1>2, <2>2 DEF StrayedAfter, PrimaryHolds
  <2>4. TouchWindows(e, answers)
    BY <2>2, <2>3 DEF InjectWindows, ByMessage
  <2>5. injector'.primary = NoTouch
    BY <2>2, <2>4 DEF TouchWindows, InputTypes, Injectors
  <2>. QED
    BY <1>1, <2>5
<1>3. CASE injector'.primary # injector.primary
  <2>1. ~ ByMessage(e, f, answers) /\ e.kind = "touch" /\ reachable
    BY <1>3 DEF InjectWindows, Posted, InputTypes, Injectors, ByMessage
  <2>2. TouchWindows(e, answers)
    BY <2>1 DEF InjectWindows
  <2>3. e.phase = "Start" /\ injector'.primary = e.what
    BY <1>1, <1>3, <2>2 DEF TouchWindows, InputTypes, Injectors
  <2>. QED
    BY <2>1, <2>3, TouchTaken
<1>. QED
  BY <1>2, <1>3

\* And so does the finger whose messages are posted.
LEMMA PostedTouchKeeps ==
    ASSUME InputTypes, NEW e \in ClientEvents, NEW f \in Focuses, NEW answers \in BOOLEAN,
           NEW things, NEW after, HoldsAfter(things, after, e), DownWindows(things),
           platform = "windows", InjectWindows(e, f, answers), strayed' = StrayedAfter(e, f, answers),
           PostedHolds'
    PROVE  TouchHeld(after, injector'.postedTouch)
<1>1. injector'.postedTouch # NoTouch /\ ~ strayed.posted
  BY StrayedStays
<1>2. CASE injector'.postedTouch = injector.postedTouch
  <2>1. TouchHeld(things, injector.postedTouch)
    BY <1>1, <1>2 DEF DownWindows, PostedHolds
  <2>2. SUFFICES ASSUME e.kind = "touch", e.what = injector.postedTouch, e.phase \in {"End", "Cancel"}
                 PROVE  FALSE
    BY <1>2, <2>1, TouchStaysHeld
  <2>3. ~ reachable
    BY <1>2, <2>2 DEF StrayedAfter, PostedHolds
  <2>4. Posted(e, f)
    BY <2>3 DEF InjectWindows, ByMessage
  <2>5. injector'.postedTouch = NoTouch
    BY <2>2, <2>4 DEF Posted, InputTypes, Injectors
  <2>. QED
    BY <1>1, <2>5
<1>3. CASE injector'.postedTouch # injector.postedTouch
  <2>1. Posted(e, f)
    BY <1>3 DEF InjectWindows, TouchWindows, InputTypes, Injectors
  <2>2. e.kind = "touch" /\ e.phase = "Start" /\ injector'.postedTouch = e.what
    BY <1>1, <1>3, <2>1 DEF Posted, InputTypes, Injectors
  <2>. QED
    BY <2>2, TouchTaken
<1>. QED
  BY <1>2, <1>3

\* What an event does to what is down: a message does nothing, and what is injected
\* presses or releases one thing.
LEMMA WindowsPresses ==
    ASSUME InputTypes, NEW e \in ClientEvents, NEW f \in Focuses, NEW answers \in BOOLEAN,
           InjectWindows(e, f, answers)
    PROVE  \/ ByMessage(e, f, answers) /\ screen' = screen /\ injector'.primary = injector.primary
           \/ /\ ~ ByMessage(e, f, answers)
              /\ \/ /\ e.kind = "key" /\ screen'.down = Pressed(screen.down, <<"screen", e.what>>, e.phase)
                    /\ injector'.primary = injector.primary
                 \/ /\ e.kind = "button" /\ screen'.down = Pressed(screen.down, <<"screen", Left>>, e.phase)
                    /\ injector'.primary = injector.primary
                 \/ e.kind = "touch" /\ TouchWindows(e, answers)
                 \/ /\ e.kind \notin {"key", "button", "touch"}
                    /\ screen'.down = screen.down /\ injector'.primary = injector.primary
<1>1. CASE ByMessage(e, f, answers)
  <2>1. Posted(e, f)
    BY <1>1 DEF InjectWindows, ByMessage
  <2>. QED
    BY <1>1, <2>1 DEF Posted, InputTypes, Injectors
<1>2. CASE ~ ByMessage(e, f, answers) /\ e.kind \in {"key", "text"}
  BY <1>2 DEF InjectWindows
<1>3. CASE ~ ByMessage(e, f, answers) /\ e.kind \in {"button", "touch"}
  BY <1>3 DEF InjectWindows, ByMessage
<1>4. CASE ~ ByMessage(e, f, answers) /\ e.kind \notin {"key", "text", "button", "touch"}
  BY <1>4 DEF InjectWindows, ByMessage, InputTypes, Injectors
<1>. QED
  BY <1>1, <1>2, <1>3, <1>4

\* What was down before goes on being accounted for, unless it is what the event released.
LEMMA StaysAccountedFor ==
    ASSUME InputTypes, NEW e \in ClientEvents, NEW f \in Focuses, NEW answers \in BOOLEAN,
           NEW things, NEW after, HoldsAfter(things, after, e), DownWindows(things),
           platform = "windows", InjectWindows(e, f, answers), strayed' = StrayedAfter(e, f, answers),
           NEW d \in screen'.down, d \in screen.down
    PROVE  /\ d[1] = "screen"
           /\ \/ d \in strayed'.down
              \/ KeyHeld(after, d[2])
              \/ d[2] = Left /\ ((\E w \in InputWindows : ButtonHeld(after, w)) \/ PrimaryHolds')
<1>. DEFINE released == e.phase \in {"End", "Cancel"}
<1>1. d[1] = "screen" /\ d = <<d[1], d[2]>>
  BY DEF DownWindows, InputTypes, Screens
<1>2. \/ ByMessage(e, f, answers) /\ screen' = screen /\ injector'.primary = injector.primary
      \/ /\ ~ ByMessage(e, f, answers)
         /\ \/ /\ e.kind = "key" /\ screen'.down = Pressed(screen.down, <<"screen", e.what>>, e.phase)
               /\ injector'.primary = injector.primary
            \/ /\ e.kind = "button" /\ screen'.down = Pressed(screen.down, <<"screen", Left>>, e.phase)
               /\ injector'.primary = injector.primary
            \/ e.kind = "touch" /\ TouchWindows(e, answers)
            \/ /\ e.kind \notin {"key", "button", "touch"}
               /\ screen'.down = screen.down /\ injector'.primary = injector.primary
  BY WindowsPresses
<1>3. CASE d \in strayed.down
  BY <1>1, <1>3, StrayedStays
<1>4. CASE KeyHeld(things, d[2])
  <2>1. SUFFICES ASSUME e.kind = "key", e.what = d[2], released PROVE d \in strayed'.down
    BY <1>1, <1>4, KeyStaysHeld
  <2>2. ByMessage(e, f, answers)
    BY <1>1, <1>2, <2>1, PressedOnly
  <2>3. d \in Misses(e, f, answers)
    BY <2>1, <2>2 DEF Misses
  <2>. QED
    BY <2>1, <2>3, StrayedStays
<1>5. ASSUME d[2] = Left, NEW w \in InputWindows, ButtonHeld(things, w)
      PROVE  d \in strayed'.down \/ ButtonHeld(after, w)
  <2>1. SUFFICES ASSUME e.kind = "button", released PROVE d \in strayed'.down
    BY <1>5, ButtonStaysHeld
  <2>2. ByMessage(e, f, answers)
    BY <1>1, <1>2, <1>5, <2>1, PressedOnly
  <2>3. d \in Misses(e, f, answers)
    BY <1>5, <2>1, <2>2 DEF Misses
  <2>. QED
    BY <2>1, <2>3, StrayedStays
<1>6. CASE d[2] = Left /\ PrimaryHolds
  <2>1. CASE released /\ e.kind = "touch" /\ injector.primary = e.what
    <3>1. CASE ByMessage(e, f, answers)
      <4>1. d \in Misses(e, f, answers)
        BY <1>6, <2>1, <3>1 DEF Misses
      <4>. QED
        BY <1>1, <2>1, <4>1, StrayedStays
    <3>2. CASE ~ ByMessage(e, f, answers)
      <4>1. TouchWindows(e, answers)
        BY <1>2, <2>1, <3>2
      <4>2. screen'.down = Pressed(screen.down, <<"screen", Left>>, e.phase)
        BY <2>1, <4>1 DEF TouchWindows
      <4>3. <<"screen", Left>> \notin screen'.down
        BY <2>1, <4>2, PressedOnly
      <4>. QED
        BY <1>1, <1>6, <4>3
    <3>. QED
      BY <3>1, <3>2
  <2>2. CASE ~ (released /\ e.kind = "touch" /\ injector.primary = e.what)
    <3>1. e.kind = "touch" => e.phase \in {"Start", "Move", "End", "Cancel"}
      BY EventKinds
    <3>2. injector'.primary = injector.primary
      <4>1. CASE e.kind = "touch" /\ TouchWindows(e, answers)
        BY <1>6, <2>2, <3>1, <4>1 DEF TouchWindows, PrimaryHolds, InputTypes, Injectors
      <4>. QED
        BY <1>2, <4>1
    <3>3. PrimaryHolds'
      BY <1>6, <2>2, <3>2 DEF PrimaryHolds, StrayedAfter
    <3>. QED
      BY <1>1, <1>6, <3>3
  <2>. QED
    BY <2>1, <2>2
<1>7. \/ d \in strayed.down \/ KeyHeld(things, d[2])
      \/ d[2] = Left /\ ((\E w \in InputWindows : ButtonHeld(things, w)) \/ PrimaryHolds)
  BY DEF DownWindows
<1>. QED
  BY <1>1, <1>3, <1>4, <1>5, <1>6, <1>7

\* What is down now and was not is held.
LEMMA NewIsHeld ==
    ASSUME InputTypes, NEW e \in ClientEvents, NEW f \in Focuses, NEW answers \in BOOLEAN,
           NEW things, NEW after, HoldsAfter(things, after, e), DownWindows(things),
           platform = "windows", InjectWindows(e, f, answers), strayed' = StrayedAfter(e, f, answers),
           NEW d \in screen'.down, d \notin screen.down
    PROVE  /\ d[1] = "screen"
           /\ \/ KeyHeld(after, d[2])
              \/ d[2] = Left /\ ((\E w \in InputWindows : ButtonHeld(after, w)) \/ PrimaryHolds')
<1>1. \/ e.kind = "key" /\ screen'.down = Pressed(screen.down, <<"screen", e.what>>, e.phase)
      \/ e.kind = "button" /\ screen'.down = Pressed(screen.down, <<"screen", Left>>, e.phase)
      \/ e.kind = "touch" /\ TouchWindows(e, answers) /\ ~ ByMessage(e, f, answers)
  BY WindowsPresses
<1>2. CASE e.kind = "key" /\ screen'.down = Pressed(screen.down, <<"screen", e.what>>, e.phase)
  <2>1. d = <<"screen", e.what>> /\ e.phase = "Start"
    BY <1>2, PressedOnly
  <2>2. Thing(e) \in after /\ Thing(e) = <<"key", NoWindow, e.what>>
    BY <1>2, <2>1, EventKinds DEF HoldsAfter, Thing
  <2>. QED
    BY <2>1, <2>2 DEF KeyHeld
<1>3. CASE e.kind = "button" /\ screen'.down = Pressed(screen.down, <<"screen", Left>>, e.phase)
  <2>1. d = <<"screen", Left>> /\ e.phase = "Start"
    BY <1>3, PressedOnly
  <2>2. Thing(e) \in after /\ e.window \in InputWindows /\ Thing(e) = <<"button", e.window, Left>>
    BY <1>3, <2>1, EventKinds DEF HoldsAfter, Thing
  <2>. QED
    BY <2>1, <2>2 DEF ButtonHeld
<1>4. CASE e.kind = "touch" /\ TouchWindows(e, answers)
  <2>1. screen'.down = Pressed(screen.down, <<"screen", Left>>, e.phase) \/ screen'.down = screen.down
    BY <1>4 DEF TouchWindows
  <2>2. d = <<"screen", Left>> /\ e.phase = "Start" /\ screen'.down # screen.down
    BY <2>1, PressedOnly
  <2>3. injector.primary = NoTouch /\ injector'.primary = e.what
    BY <1>4, <2>2 DEF TouchWindows, InputTypes, Injectors
  <2>4. e.what # NoTouch
    BY <1>4, EventKinds, InputAssumption DEF NoTouch
  <2>5. CASE ~ strayed'.primary
    BY <2>2, <2>3, <2>4, <2>5 DEF PrimaryHolds
  <2>6. CASE strayed'.primary
    <3>1. strayed.primary
      BY <2>2, <2>6 DEF StrayedAfter
    <3>. QED
      BY <2>3, <3>1 DEF DownWindows
  <2>. QED
    BY <2>5, <2>6
<1>. QED
  BY <1>1, <1>2, <1>3, <1>4

LEMMA WindowsKeeps ==
    ASSUME InputTypes, NEW e \in ClientEvents, NEW f \in Focuses, NEW answers \in BOOLEAN,
           NEW things, NEW after, HoldsAfter(things, after, e), DownWindows(things),
           platform = "windows", InjectWindows(e, f, answers), strayed' = StrayedAfter(e, f, answers)
    PROVE  DownWindows(after)'
<1>1. injector'.fingers = {}
  <2>1. injector \in Injectors /\ injector.fingers = {}
    BY DEF DownWindows, InputTypes
  <2>2. CASE Posted(e, f)
    BY <2>1, <2>2 DEF Posted, Injectors
  <2>3. CASE TouchWindows(e, answers)
    BY <2>1, <2>3 DEF TouchWindows, Injectors
  <2>4. CASE injector' = injector
    BY <2>1, <2>4
  <2>5. CASE injector' = [injector EXCEPT !.pointer = IF e.kind = "move" THEN e.window ELSE @]
    BY <2>1, <2>5 DEF Injectors
  <2> QED
    BY <2>2, <2>3, <2>4, <2>5 DEF InjectWindows
<1>2. PrimaryHolds' => TouchHeld(after, injector'.primary)
  BY PrimaryKeeps
<1>3. PostedHolds' => TouchHeld(after, injector'.postedTouch)
  BY PostedTouchKeeps
<1>4. ASSUME NEW d \in screen'.down
      PROVE  /\ d[1] = "screen"
             /\ \/ d \in strayed'.down
                \/ KeyHeld(after, d[2])
                \/ d[2] = Left /\ ((\E w \in InputWindows : ButtonHeld(after, w)) \/ PrimaryHolds')
  BY StaysAccountedFor, NewIsHeld
<1>5. strayed'.primary => injector'.primary # NoTouch
  BY DEF StrayedAfter
<1>. QED
  BY <1>1, <1>2, <1>3, <1>4, <1>5 DEF DownWindows, TouchHeld, KeyHeld, ButtonHeld, PrimaryHolds, PostedHolds

-----------------------------------------------------------------------------
(* Linux and Android. *)

LEMMA FingerStaysHeld ==
    ASSUME NEW things, NEW after, NEW e \in ClientEvents, HoldsAfter(things, after, e),
           NEW w, NEW t, <<"touch", w, t>> \in things
    PROVE  \/ <<"touch", w, t>> \in after
           \/ e.kind = "touch" /\ e.window = w /\ e.what = t /\ e.phase \in {"End", "Cancel"}
<1>1. \/ <<"touch", w, t>> \in after
      \/ e.phase \in {"End", "Cancel"} /\ "touch" = e.kind /\ w = e.window /\ t = e.what
  BY StillHeld
<1>. QED
  BY <1>1

LEMMA LinuxKeeps ==
    ASSUME InputTypes, NEW e \in ClientEvents, NEW f \in Focuses, NEW answers \in BOOLEAN,
           NEW things, NEW after, HoldsAfter(things, after, e), DownLinux(things),
           InjectLinux(e, f, answers)
    PROVE  DownLinux(after)'
<1>. DEFINE key == <<"screen", e.what>>
            left == <<"screen", Left>>
<1>1. /\ injector'.primary = NoTouch /\ injector'.postedTouch = NoTouch /\ injector'.fingers = {}
  BY DEF InjectLinux, DownLinux, InputTypes, Injectors
<1>2. screen'.down = CASE e.kind = "key" -> Pressed(screen.down, key, e.phase)
                       [] e.kind = "text" -> screen.down \ {key}
                       [] e.kind \in {"button", "touch"} -> Pressed(screen.down, left, e.phase)
                       [] OTHER -> screen.down
  BY DEF InjectLinux
<1>3. ASSUME NEW d \in screen'.down
      PROVE  \/ /\ d \in screen.down
                /\ e.kind = "key" /\ e.phase \in {"End", "Cancel"} => d # key
                /\ e.kind \in {"button", "touch"} /\ e.phase \in {"End", "Cancel"} => d # left
             \/ e.kind = "key" /\ e.phase = "Start" /\ d = key
             \/ e.kind \in {"button", "touch"} /\ e.phase = "Start" /\ d = left
  <2>1. CASE e.kind = "key"
    BY <1>2, <2>1, PressedOnly
  <2>2. CASE e.kind \in {"button", "touch"}
    BY <1>2, <2>2, PressedOnly
  <2>3. CASE e.kind \notin {"key", "button", "touch"}
    BY <1>2, <2>3
  <2>. QED
    BY <2>1, <2>2, <2>3
<1>4. ASSUME NEW d \in screen'.down
      PROVE  /\ d[1] = "screen"
             /\ \/ KeyHeld(after, d[2])
                \/ d[2] = Left /\ \E w \in InputWindows : ButtonHeld(after, w)
                                                        \/ \E t \in TouchIds : <<"touch", w, t>> \in after
  <2>1. CASE e.kind = "key" /\ e.phase = "Start" /\ d = key
    <3>1. Thing(e) \in after /\ Thing(e) = <<"key", NoWindow, e.what>> /\ d[1] = "screen" /\ d[2] = e.what
      BY <2>1, EventKinds DEF HoldsAfter, Thing
    <3>. QED
      BY <3>1 DEF KeyHeld
  <2>2. CASE e.kind \in {"button", "touch"} /\ e.phase = "Start" /\ d = left
    <3>1. Thing(e) \in after /\ d[1] = "screen" /\ d[2] = Left
      BY <2>2 DEF HoldsAfter
    <3>2. /\ e.window \in InputWindows
          /\ \/ Thing(e) = <<"button", e.window, Left>>
             \/ Thing(e) = <<"touch", e.window, e.what>> /\ e.what \in TouchIds
      BY <2>2, EventKinds DEF Thing
    <3>. QED
      BY <3>1, <3>2 DEF ButtonHeld
  <2>3. CASE /\ d \in screen.down
             /\ e.kind = "key" /\ e.phase \in {"End", "Cancel"} => d # key
             /\ e.kind \in {"button", "touch"} /\ e.phase \in {"End", "Cancel"} => d # left
    <3>1. d[1] = "screen" /\ d = <<d[1], d[2]>>
      BY <2>3 DEF DownLinux, InputTypes, Screens
    <3>2. \/ KeyHeld(things, d[2])
          \/ d[2] = Left /\ \E w \in InputWindows : ButtonHeld(things, w)
                                                  \/ \E t \in TouchIds : <<"touch", w, t>> \in things
      BY <2>3 DEF DownLinux
    <3>3. CASE KeyHeld(things, d[2])
      <4>1. KeyHeld(after, d[2]) \/ (e.kind = "key" /\ e.what = d[2] /\ e.phase \in {"End", "Cancel"})
        BY <3>3, KeyStaysHeld
      <4>. QED
        BY <2>3, <3>1, <4>1
    <3>4. ASSUME d[2] = Left, NEW w \in InputWindows, ButtonHeld(things, w)
          PROVE  ButtonHeld(after, w)
      <4>1. ButtonHeld(after, w) \/ (e.kind = "button" /\ e.phase \in {"End", "Cancel"})
        BY <3>4, ButtonStaysHeld
      <4>. QED
        BY <2>3, <3>1, <3>4, <4>1
    <3>5. ASSUME d[2] = Left, NEW w \in InputWindows, NEW t \in TouchIds, <<"touch", w, t>> \in things
          PROVE  <<"touch", w, t>> \in after
      <4>1. <<"touch", w, t>> \in after \/ (e.kind = "touch" /\ e.phase \in {"End", "Cancel"})
        BY <3>5, FingerStaysHeld
      <4>. QED
        BY <2>3, <3>1, <3>5, <4>1
    <3>. QED
      BY <3>1, <3>2, <3>3, <3>4, <3>5
  <2>. QED
    BY <1>3, <2>1, <2>2, <2>3
<1>. QED
  BY <1>1, <1>4 DEF DownLinux, KeyHeld, ButtonHeld

LEMMA AndroidKeeps ==
    ASSUME InputTypes, NEW e \in ClientEvents, NEW f \in Focuses, NEW answers \in BOOLEAN,
           NEW things, NEW after, HoldsAfter(things, after, e), DownAndroid(things),
           platform = "android", InjectAndroid(e, f), strayed' = StrayedAfter(e, f, answers)
    PROVE  DownAndroid(after)'
<1>1. /\ injector'.primary = NoTouch /\ injector'.postedTouch = NoTouch
      /\ injector'.fingers = IF e.kind = "touch" THEN FingersAfter(e.window, e) ELSE injector.fingers
  BY DEF InjectAndroid, DownAndroid, InputTypes, Injectors
<1>2. ASSUME NEW x \in injector'.fingers PROVE <<"touch", x[1], x[2]>> \in after
  <2>1. CASE e.kind = "touch" /\ e.phase \in {"Start", "Move"}
    <3>1. x \in injector.fingers \/ x = <<e.window, e.what>>
      BY <1>1, <2>1 DEF FingersAfter
    <3>2. Thing(e) \in after /\ things \subseteq after
      BY <2>1 DEF HoldsAfter
    <3>. QED
      BY <2>1, <3>1, <3>2 DEF DownAndroid, Thing
  <2>2. CASE e.kind = "touch" /\ e.phase \in {"End", "Cancel"}
    <3>1. x \in injector.fingers /\ x # <<e.window, e.what>>
      BY <1>1, <2>2 DEF FingersAfter
    <3>2. x = <<x[1], x[2]>>
      BY <3>1 DEF InputTypes, Injectors
    <3>3. <<"touch", x[1], x[2]>> \in things
      BY <3>1 DEF DownAndroid
    <3>. QED
      BY <3>1, <3>2, <3>3, FingerStaysHeld
  <2>3. CASE e.kind # "touch"
    <3>1. <<"touch", x[1], x[2]>> \in things
      BY <1>1, <2>3 DEF DownAndroid
    <3>. QED
      BY <2>3, <3>1, FingerStaysHeld
  <2>. QED
    BY <2>1, <2>2, <2>3, EventKinds
<1>3. ASSUME NEW d \in screen.down,
             ~ (e.kind = "key" /\ e.phase \in {"End", "Cancel"} /\ d[2] = e.what),
             ~ (e.kind = "button" /\ e.phase \in {"End", "Cancel"} /\ d[1] = e.window /\ d[2] = e.what)
      PROVE  /\ d[1] # NoWindow
             /\ d \in strayed.down \/ KeyHeld(after, d[2]) \/ (d[2] = Left /\ ButtonHeld(after, d[1]))
  <2>1. CASE KeyHeld(things, d[2])
    BY <1>3, <2>1, KeyStaysHeld DEF DownAndroid
  <2>2. CASE d[2] = Left /\ ButtonHeld(things, d[1])
    <3>1. ButtonHeld(after, d[1]) \/ (e.kind = "button" /\ e.window = d[1] /\ e.phase \in {"End", "Cancel"})
      BY <2>2, ButtonStaysHeld
    <3>2. e.kind = "button" => e.what = Left
      BY EventKinds
    <3>. QED
      BY <1>3, <2>2, <3>1, <3>2 DEF DownAndroid
  <2>. QED
    BY <1>3, <2>1, <2>2 DEF DownAndroid
<1>4. ASSUME NEW d \in screen'.down
      PROVE  /\ d[1] # NoWindow
             /\ d \in strayed'.down \/ KeyHeld(after, d[2]) \/ (d[2] = Left /\ ButtonHeld(after, d[1]))
  <2>0. d \in strayed.down => d \in strayed'.down
    BY <1>4, StrayedStays
  <2>1. CASE e.kind = "key"
    <3>1. screen'.down = IF f # NoWindow THEN Pressed(screen.down, <<f, e.what>>, e.phase) ELSE screen.down
      BY <2>1 DEF InjectAndroid, InputTypes, Screens
    <3>2. CASE e.phase = "Start"
      <4>1. KeyHeld(after, e.what)
        BY <2>1, <3>2, EventKinds DEF HoldsAfter, Thing, KeyHeld
      <4>2. d \in screen.down \/ (f # NoWindow /\ d = <<f, e.what>>)
        BY <3>1, PressedOnly
      <4>3. d \in screen.down =>
              /\ d[1] # NoWindow
              /\ d \in strayed'.down \/ KeyHeld(after, d[2]) \/ (d[2] = Left /\ ButtonHeld(after, d[1]))
        BY <1>3, <2>0, <2>1, <3>2
      <4>. QED
        BY <4>1, <4>2, <4>3
    <3>3. CASE e.phase = "End"
      <4>1. d \in screen.down /\ (f # NoWindow => d # <<f, e.what>>)
        BY <3>1, <3>3, PressedOnly
      <4>2. d[1] # NoWindow /\ d = <<d[1], d[2]>>
        BY <4>1 DEF DownAndroid, InputTypes, Screens
      <4>3. CASE d[2] # e.what
        BY <1>3, <2>0, <2>1, <4>1, <4>3
      <4>4. CASE d[2] = e.what
        <5>1. d \in Misses(e, f, answers)
          BY <2>1, <4>1, <4>2, <4>4 DEF Misses
        <5>. QED
          BY <3>3, <4>2, <5>1, StrayedStays
      <4>. QED
        BY <4>3, <4>4
    <3>. QED
      BY <2>1, <3>2, <3>3, EventKinds
  <2>2. CASE e.kind = "button"
    <3>1. e.window \in InputWindows /\ e.window # NoWindow /\ e.what = Left /\ e.phase \in {"Start", "End"}
      BY <2>2, EventKinds, InputAssumption DEF NoWindow
    <3>2. screen'.down = Pressed(screen.down, <<e.window, Left>>, e.phase)
      BY <2>2, <3>1 DEF InjectAndroid, InputTypes, Screens
    <3>3. CASE e.phase = "Start"
      <4>1. ButtonHeld(after, e.window)
        BY <2>2, <3>1, <3>3 DEF HoldsAfter, Thing, ButtonHeld
      <4>2. d \in screen.down \/ d = <<e.window, Left>>
        BY <3>2, PressedOnly
      <4>3. d \in screen.down =>
              /\ d[1] # NoWindow
              /\ d \in strayed'.down \/ KeyHeld(after, d[2]) \/ (d[2] = Left /\ ButtonHeld(after, d[1]))
        BY <1>3, <2>0, <2>2, <3>3
      <4>. QED
        BY <3>1, <4>1, <4>2, <4>3
    <3>4. CASE e.phase = "End"
      <4>1. d \in screen.down /\ d # <<e.window, Left>>
        BY <3>2, <3>4, PressedOnly
      <4>2. d = <<d[1], d[2]>>
        BY <4>1 DEF InputTypes, Screens
      <4>. QED
        BY <1>3, <2>0, <2>2, <3>1, <4>1, <4>2
    <3>. QED
      BY <3>1, <3>3, <3>4
  <2>3. CASE e.kind \notin {"key", "button"}
    <3>1. screen'.down = screen.down
      BY <2>3 DEF InjectAndroid, InputTypes, Screens
    <3>. QED
      BY <1>3, <2>0, <2>3, <3>1
  <2>. QED
    BY <2>1, <2>2, <2>3
<1>. QED
  BY <1>1, <1>2, <1>4 DEF DownAndroid, KeyHeld, ButtonHeld

-----------------------------------------------------------------------------
(* All of them. *)

LEMMA DownGrows ==
    ASSUME NEW things, NEW after, things \subseteq after, DownHeld(things),
           screen'.down = screen.down, UNCHANGED <<injector, platform, strayed>>
    PROVE  DownHeld(after)'
<1>1. /\ \A k : KeyHeld(things, k) => KeyHeld(after, k)
      /\ \A w : ButtonHeld(things, w) => ButtonHeld(after, w)
      /\ \A t : TouchHeld(things, t) => TouchHeld(after, t)
  BY DEF KeyHeld, ButtonHeld, TouchHeld
<1>2. CASE platform = "windows"
  <2>1. DownWindows(after)'
    BY <1>1, <1>2 DEF DownHeld, DownWindows, KeyHeld, ButtonHeld, TouchHeld, PrimaryHolds, PostedHolds
  <2>. QED
    BY <1>2, <2>1 DEF DownHeld
<1>3. CASE platform = "linux"
  <2>1. DownLinux(after)'
    BY <1>1, <1>3 DEF DownHeld, DownLinux, KeyHeld, ButtonHeld
  <2>. QED
    BY <1>3, <2>1 DEF DownHeld
<1>4. CASE platform = "android"
  <2>1. DownAndroid(after)'
    BY <1>1, <1>4 DEF DownHeld, DownAndroid, KeyHeld, ButtonHeld
  <2>. QED
    BY <1>4, <2>1 DEF DownHeld
<1>. QED
  BY <1>2, <1>3, <1>4 DEF DownHeld

LEMMA InjectKeeps ==
    ASSUME InputTypes, NEW e \in ClientEvents, NEW f \in Focuses, NEW answers \in BOOLEAN,
           NEW things, NEW after, HoldsAfter(things, after, e), DownHeld(things),
           Inject(e, f, answers), strayed' = StrayedAfter(e, f, answers), UNCHANGED platform
    PROVE  DownHeld(after)'
<1>1. CASE platform = "windows"
  <2>1. InjectWindows(e, f, answers) /\ DownWindows(things)
    BY <1>1 DEF Inject, DownHeld
  <2>2. DownWindows(after)'
    BY <1>1, <2>1, WindowsKeeps
  <2>. QED
    BY <1>1, <2>2 DEF DownHeld
<1>2. CASE platform = "linux"
  <2>1. InjectLinux(e, f, answers) /\ DownLinux(things)
    BY <1>2 DEF Inject, DownHeld
  <2>2. DownLinux(after)'
    BY <2>1, LinuxKeeps
  <2>. QED
    BY <1>2, <2>2 DEF DownHeld
<1>3. CASE platform = "android"
  <2>1. InjectAndroid(e, f) /\ DownAndroid(things)
    BY <1>3 DEF Inject, DownHeld
  <2>2. DownAndroid(after)'
    BY <1>3, <2>1, AndroidKeeps
  <2>. QED
    BY <1>3, <2>2 DEF DownHeld
<1>. QED
  BY <1>1, <1>2, <1>3 DEF InputTypes

LEMMA PressedTypes ==
    ASSUME NEW S, NEW T, S \subseteq T, NEW x \in T, NEW phase
    PROVE  Pressed(S, x, phase) \subseteq T
  BY DEF Pressed

LEMMA PostedTypes ==
    ASSUME InputTypes, NEW e \in ClientEvents, NEW f \in Focuses, Posted(e, f)
    PROVE  injector' \in Injectors /\ screen' \in Screens
<1>1. injector \in Injectors /\ screen \in Screens
  BY DEF InputTypes
<1>2. \A phase, x : x \in Keycodes \cup {Left}
        => Pressed(injector.postedDown, x, phase) \in SUBSET (Keycodes \cup {Left})
  BY <1>1, PressedTypes DEF Injectors
<1>3. e.kind = "key" => e.what \in Keycodes
  BY EventKinds
<1>4. e.kind \in {"touch", "move"} => e.window \in Focuses
  BY EventKinds DEF Focuses
<1>5. e.kind = "touch" => e.what \in TouchIds
  BY EventKinds
<1>6. /\ injector'.pointer \in Focuses
      /\ injector'.postedTouch \in TouchIds \cup {NoTouch}
      /\ injector'.postedDown \in SUBSET (Keycodes \cup {Left})
      /\ injector' = [injector EXCEPT !.pointer = injector'.pointer, !.postedTouch = injector'.postedTouch,
                                      !.postedDown = injector'.postedDown]
  <2>1. injector'.pointer \in Focuses
    BY <1>1, <1>4 DEF Posted, Injectors
  <2>2. injector'.postedTouch \in TouchIds \cup {NoTouch}
    BY <1>1, <1>5 DEF Posted, Injectors
  <2>3. injector'.postedDown \in SUBSET (Keycodes \cup {Left})
    BY <1>1, <1>2, <1>3 DEF Posted, Injectors
  <2>4. injector' = [injector EXCEPT !.pointer = injector'.pointer, !.postedTouch = injector'.postedTouch,
                                     !.postedDown = injector'.postedDown]
    BY <1>1 DEF Posted, Injectors
  <2>. QED
    BY <2>1, <2>2, <2>3, <2>4
<1>. QED
  BY <1>1, <1>6 DEF Posted, Injectors

LEMMA InjectTypes ==
    ASSUME InputTypes, NEW e \in ClientEvents, NEW f \in Focuses, NEW answers \in BOOLEAN,
           Inject(e, f, answers)
    PROVE  injector' \in Injectors /\ screen' \in Screens
<1>1. injector \in Injectors /\ screen \in Screens
  BY DEF InputTypes
<1>2. /\ e.kind = "key" => e.what \in Keycodes
      /\ e.kind \in {"touch", "move", "button"} => e.window \in InputWindows
      /\ e.kind = "touch" => e.what \in TouchIds
      /\ e.kind = "button" => e.what = Left
      /\ f # NoWindow => f \in InputWindows
  BY EventKinds DEF Focuses
<1>3. ASSUME NEW w \in {"screen"} \cup InputWindows, NEW x \in Keycodes \cup {Left}
      PROVE  Pressed(screen.down, <<w, x>>, e.phase) \in SUBSET (({"screen"} \cup InputWindows) \X (Keycodes \cup {Left}))
  <2>1. PICK pairs : pairs = ({"screen"} \cup InputWindows) \X (Keycodes \cup {Left})
    OBVIOUS
  <2>2. screen.down \subseteq pairs /\ <<w, x>> \in pairs
    BY <1>1, <2>1 DEF Screens
  <2>3. Pressed(screen.down, <<w, x>>, e.phase) \subseteq pairs
    BY <2>2, PressedTypes
  <2>. QED
    BY <2>1, <2>3
<1>4. CASE platform = "windows"
  <2>0. InjectWindows(e, f, answers)
    BY <1>4 DEF Inject
  <2>1. CASE Posted(e, f)
    BY <2>1, PostedTypes
  <2>2. CASE ~ ByMessage(e, f, answers) /\ e.kind = "touch"
    <3>1. TouchWindows(e, answers)
      BY <2>0, <2>2 DEF InjectWindows, ByMessage
    <3>2. injector' \in Injectors
      BY <1>1, <1>2, <2>2, <3>1 DEF TouchWindows, Injectors
    <3>3. screen' \in Screens
      BY <1>1, <1>2, <1>3, <2>2, <3>1 DEF TouchWindows, Screens
    <3>. QED
      BY <3>2, <3>3
  <2>3. CASE ~ ByMessage(e, f, answers) /\ e.kind \in {"key", "text"}
    BY <1>1, <1>2, <1>3, <2>0, <2>3 DEF InjectWindows, Screens
  <2>4. CASE ~ ByMessage(e, f, answers) /\ e.kind = "button"
    <3>1. reachable
      BY <2>4 DEF ByMessage
    <3>. QED
      BY <1>1, <1>2, <1>3, <2>0, <2>4, <3>1 DEF InjectWindows, Screens
  <2>5. CASE ~ ByMessage(e, f, answers) /\ e.kind \notin {"key", "text", "button", "touch"}
    BY <1>1, <1>2, <2>0, <2>5 DEF InjectWindows, Injectors, Focuses
  <2>6. ByMessage(e, f, answers) => Posted(e, f)
    BY <2>0 DEF InjectWindows, ByMessage
  <2>. QED
    BY <2>1, <2>2, <2>3, <2>4, <2>5, <2>6
<1>5. CASE platform = "linux"
  <2>0. InjectLinux(e, f, answers)
    BY <1>5 DEF Inject
  <2>1. screen'.down \in SUBSET (({"screen"} \cup InputWindows) \X (Keycodes \cup {Left}))
    <3>1. CASE e.kind = "key"
      BY <1>2, <1>3, <2>0, <3>1 DEF InjectLinux
    <3>2. CASE e.kind = "text"
      BY <1>1, <2>0, <3>2 DEF InjectLinux, Screens
    <3>3. CASE e.kind \in {"button", "touch"}
      BY <1>3, <2>0, <3>3 DEF InjectLinux
    <3>4. CASE e.kind \notin {"key", "text", "button", "touch"}
      BY <1>1, <2>0, <3>4 DEF InjectLinux, Screens
    <3>. QED
      BY <3>1, <3>2, <3>3, <3>4
  <2>2. \E to \in Focuses, focuses \in BOOLEAN :
          /\ focuses => to # NoWindow
          /\ injector' = IF focuses THEN [injector EXCEPT !.focused = to] ELSE injector
          /\ screen' = [down |-> screen'.down, front |-> IF focuses THEN to ELSE screen.front]
    <3>. DEFINE to == CASE e.kind \in {"key", "text"} -> f
                        [] e.kind \in {"button", "touch"} /\ e.phase = "Start" -> e.window
                        [] OTHER -> NoWindow
                focuses == to # NoWindow /\ injector.focused # to /\ answers
    <3>1. to \in Focuses /\ focuses \in BOOLEAN
      BY <1>2 DEF Focuses
    <3>2. /\ focuses => to # NoWindow
          /\ injector' = IF focuses THEN [injector EXCEPT !.focused = to] ELSE injector
          /\ screen' = [down |-> screen'.down, front |-> IF focuses THEN to ELSE screen.front]
      BY <2>0 DEF InjectLinux
    <3>. HIDE DEF to, focuses
    <3>. QED
      BY <3>1, <3>2
  <2>3. PICK to \in Focuses, focuses \in BOOLEAN :
          /\ focuses => to # NoWindow
          /\ injector' = IF focuses THEN [injector EXCEPT !.focused = to] ELSE injector
          /\ screen' = [down |-> screen'.down, front |-> IF focuses THEN to ELSE screen.front]
    BY <2>2
  <2>4. injector' \in Injectors
    BY <1>1, <2>3 DEF Injectors
  <2>5. screen' \in Screens
    BY <1>1, <2>1, <2>3 DEF Screens, Focuses
  <2>. QED
    BY <2>4, <2>5
<1>6. CASE platform = "android"
  <2>0. InjectAndroid(e, f)
    BY <1>6 DEF Inject
  <2>1. injector' \in Injectors
    <3>1. e.kind = "touch" => FingersAfter(e.window, e) \in SUBSET (InputWindows \X TouchIds)
      BY <1>1, <1>2 DEF FingersAfter, Injectors
    <3>. QED
      BY <1>1, <2>0, <3>1 DEF InjectAndroid, Injectors
  <2>2. screen' \in Screens
    <3>1. e.kind = "key" /\ f # NoWindow => Pressed(screen.down, <<f, e.what>>, e.phase) \in SUBSET (({"screen"} \cup InputWindows) \X (Keycodes \cup {Left}))
      BY <1>2, <1>3
    <3>2. e.kind = "button" => Pressed(screen.down, <<e.window, e.what>>, e.phase) \in SUBSET (({"screen"} \cup InputWindows) \X (Keycodes \cup {Left}))
      BY <1>2, <1>3
    <3>. QED
      BY <1>1, <2>0, <3>1, <3>2 DEF InjectAndroid, Screens
  <2>. QED
    BY <2>1, <2>2
<1>. QED
  BY <1>4, <1>5, <1>6 DEF InputTypes

-----------------------------------------------------------------------------
(* What the thread that delivers keeps. *)

LEMMA TrackKeeps ==
    ASSUME NEW e \in ClientEvents, NEW f \in Focuses, NEW h \in SUBSET HeldRecords
    PROVE  /\ Track(h, e, f) \in SUBSET HeldRecords
           /\ \A x \in h : \/ \E y \in Track(h, e, f) : Thing(y) = Thing(x)
                           \/ e.phase \in {"End", "Cancel"} /\ Thing(x) = Thing(e)
           /\ e.kind \in {"key", "button", "touch"} /\ e.phase \in {"Start", "Move"}
                => \E y \in Track(h, e, f) : Thing(y) = Thing(e)
<1>. DEFINE others == {x \in h : Thing(x) # Thing(e)}
<1>1. Track(h, e, f) = IF e.kind \in {"key", "button", "touch"}
                       THEN IF e.phase \in {"Start", "Move"} THEN others \cup {HeldAs(e, f)} ELSE others
                       ELSE h
  BY DEF Track, Thing
<1>2. Thing(HeldAs(e, f)) = Thing(e)
  BY DEF Thing, HeldAs
<1>3. e.kind \in {"key", "button", "touch"} => HeldAs(e, f) \in HeldRecords
  BY DEF HeldRecords, HoldingEvents
<1>4. e.kind \in {"key", "button", "touch"} => e.phase \in {"Start", "Move", "End", "Cancel"}
  BY EventKinds
<1>. HIDE DEF others
<1>5. CASE e.kind \notin {"key", "button", "touch"}
  BY <1>1, <1>5
<1>6. CASE e.kind \in {"key", "button", "touch"} /\ e.phase \in {"Start", "Move"}
  <2>1. Track(h, e, f) = others \cup {HeldAs(e, f)}
    BY <1>1, <1>6
  <2>. QED
    BY <1>2, <1>3, <1>6, <2>1 DEF others
<1>7. CASE e.kind \in {"key", "button", "touch"} /\ e.phase \in {"End", "Cancel"}
  <2>1. Track(h, e, f) = others
    BY <1>1, <1>7
  <2>. QED
    BY <1>7, <2>1 DEF others
<1>. QED
  BY <1>4, <1>5, <1>6, <1>7

LEMMA HeldAreHeld ==
    ASSUME NEW x
    PROVE  x \in ThingsHeld <=> \E s \in InputSessions : \E y \in held[s] : x = Thing(y)
  BY DEF ThingsHeld

LEMMA DeliverHolds ==
    ASSUME InputTypes, NEW s \in InputSessions, NEW e \in ClientEvents, NEW f \in Focuses,
           held' = [held EXCEPT ![s] = Track(@, e, f)]
    PROVE  /\ held' \in [InputSessions -> SUBSET HeldRecords]
           /\ HoldsAfter(ThingsHeld, ThingsHeld', e)
<1>1. held \in [InputSessions -> SUBSET HeldRecords] /\ held[s] \in SUBSET HeldRecords
  BY DEF InputTypes
<1>2. PICK h : h = held[s]
  OBVIOUS
<1>3. PICK now : now = Track(h, e, f)
  OBVIOUS
<1>4. /\ now \in SUBSET HeldRecords
      /\ \A x \in h : \/ \E y \in now : Thing(y) = Thing(x)
                      \/ e.phase \in {"End", "Cancel"} /\ Thing(x) = Thing(e)
      /\ e.kind \in {"key", "button", "touch"} /\ e.phase \in {"Start", "Move"}
           => \E y \in now : Thing(y) = Thing(e)
  BY <1>1, <1>2, <1>3, TrackKeeps
<1>5. held' = [held EXCEPT ![s] = now]
  BY <1>2, <1>3
<1>6. held'[s] = now /\ \A r \in InputSessions : r # s => held'[r] = held[r]
  BY <1>1, <1>5
<1>7. ASSUME NEW r \in InputSessions, NEW y \in held'[r] PROVE Thing(y) \in ThingsHeld'
  BY <1>7 DEF ThingsHeld
<1>8. ASSUME NEW t \in ThingsHeld
      PROVE  t \in ThingsHeld' \/ (e.phase \in {"End", "Cancel"} /\ t = Thing(e))
  <2>1. PICK r \in InputSessions : \E x \in held[r] : t = Thing(x)
    BY HeldAreHeld
  <2>4. PICK x \in held[r] : t = Thing(x)
    BY <2>1
  <2>2. CASE r = s
    <3>1. \/ \E y \in now : Thing(y) = t
          \/ e.phase \in {"End", "Cancel"} /\ t = Thing(e)
      BY <1>2, <1>4, <2>4, <2>2
    <3>. QED
      BY <1>6, <1>7, <3>1
  <2>3. CASE r # s
    <3>1. x \in held'[r]
      BY <1>6, <2>4, <2>3
    <3>. QED
      BY <1>7, <2>4, <3>1
  <2>. QED
    BY <2>2, <2>3
<1>9. e.kind \in {"key", "button", "touch"} /\ e.phase \in {"Start", "Move"} => Thing(e) \in ThingsHeld'
  BY <1>4, <1>6, <1>7
<1>10. held' \in [InputSessions -> SUBSET HeldRecords]
  BY <1>1, <1>4, <1>5
<1>. QED
  BY <1>8, <1>9, <1>10 DEF HoldsAfter

LEMMA Releases ==
    ASSUME NEW x \in HeldRecords
    PROVE  /\ ReleaseOf(x)[1] \in ClientEvents /\ ReleaseOf(x)[2] \in Focuses
           /\ ReleaseOf(x)[1].phase \in {"End", "Cancel"} /\ Thing(ReleaseOf(x)[1]) = Thing(x)
<1>1. PICK e \in ClientEvents, f \in Focuses : e.kind \in {"key", "button", "touch"} /\ x = HeldAs(e, f)
  BY DEF HeldRecords, HoldingEvents
<1>2. /\ x.kind = e.kind /\ x.window = e.window /\ x.what = e.what /\ x.focus \in Focuses
  BY <1>1 DEF HeldAs, Focuses
<1>3. PICK r : r = Event(x.kind, x.window, x.what, IF x.kind = "touch" THEN "Cancel" ELSE "End")
  OBVIOUS
<1>4. r \in ClientEvents
  <2>1. CASE e.kind = "key"
    BY <1>2, <1>3, <2>1, EventKinds DEF ClientEvents, Event
  <2>2. CASE e.kind = "button"
    BY <1>2, <1>3, <2>2, EventKinds DEF ClientEvents, Event
  <2>3. CASE e.kind = "touch"
    BY <1>2, <1>3, <2>3, EventKinds DEF ClientEvents, Event
  <2>. QED
    BY <1>1, <2>1, <2>2, <2>3
<1>5. r.phase \in {"End", "Cancel"} /\ Thing(r) = Thing(x)
  BY <1>3 DEF Event, Thing
<1>6. ReleaseOf(x)[1] = r /\ ReleaseOf(x)[2] = x.focus
  BY <1>3 DEF ReleaseOf
<1>. QED
  BY <1>2, <1>4, <1>5, <1>6

LEMMA ReleaseHolds ==
    ASSUME InputTypes, NEW s \in InputSessions, NEW x \in held[s], NEW e \in ClientEvents,
           Thing(e) = Thing(x), e.phase \in {"End", "Cancel"},
           held' = [held EXCEPT ![s] = @ \ {x}]
    PROVE  /\ held' \in [InputSessions -> SUBSET HeldRecords]
           /\ HoldsAfter(ThingsHeld, ThingsHeld', e)
<1>1. held \in [InputSessions -> SUBSET HeldRecords]
  BY DEF InputTypes
<1>2. held'[s] = held[s] \ {x} /\ \A r \in InputSessions : r # s => held'[r] = held[r]
  BY <1>1
<1>3. ASSUME NEW t \in ThingsHeld PROVE t \in ThingsHeld' \/ t = Thing(e)
  <2>1. PICK r \in InputSessions : \E y \in held[r] : t = Thing(y)
    BY HeldAreHeld
  <2>4. PICK y \in held[r] : t = Thing(y)
    BY <2>1
  <2>2. CASE r = s /\ y = x
    BY <2>4, <2>2
  <2>3. CASE ~ (r = s /\ y = x)
    <3>1. y \in held'[r]
      BY <1>2, <2>4, <2>3
    <3>. QED
      BY <2>4, <3>1 DEF ThingsHeld
  <2>. QED
    BY <2>2, <2>3
<1>. QED
  BY <1>1, <1>3 DEF HoldsAfter

LEMMA InputStarts == InputInit => InputInv
<1>. SUFFICES ASSUME InputInit PROVE InputInv
  OBVIOUS
<1>1. InputTypes
  <2>1. injector \in Injectors
    BY DEF InputInit, Untouched, Injectors, Focuses
  <2>2. screen \in Screens
    BY DEF InputInit, Screens
  <2>3. inputs \in [InputSessions -> Seq(ClientEvents \X Focuses)]
    BY DEF InputInit
  <2>4. focus \in [InputSessions -> Focuses] /\ streamed \in [InputSessions -> SUBSET InputWindows]
    BY DEF InputInit, Focuses
  <2>5. /\ delivering \in [InputSessions -> {"on", "closing", "over"}]
        /\ held \in [InputSessions -> SUBSET HeldRecords]
        /\ pads \in [InputSessions -> SUBSET {"pad"}]
    BY DEF InputInit
  <2>. QED
    BY <2>1, <2>2, <2>3, <2>4, <2>5, InputAssumption DEF InputInit, InputTypes
<1>2. DownIsHeld
  BY DEF InputInit, DownIsHeld, DownHeld, DownWindows, DownLinux, DownAndroid, Untouched,
         PrimaryHolds, PostedHolds
<1>3. OverHoldsNothing
  BY DEF InputInit, OverHoldsNothing
<1>. QED
  BY <1>1, <1>2, <1>3 DEF InputInv

\* An event that is injected, of a client or a release.
LEMMA InjectionKeepsDown ==
    ASSUME InputTypes, DownIsHeld, NEW e \in ClientEvents, NEW f \in Focuses, NEW answers \in BOOLEAN,
           HoldsAfter(ThingsHeld, ThingsHeld', e), Inject(e, f, answers),
           strayed' = StrayedAfter(e, f, answers), UNCHANGED platform
    PROVE  DownIsHeld'
<1>1. PICK things : things = ThingsHeld
  OBVIOUS
<1>2. PICK after : after = ThingsHeld'
  OBVIOUS
<1>3. DownHeld(things) /\ HoldsAfter(things, after, e)
  BY <1>1, <1>2 DEF DownIsHeld
<1>4. DownHeld(after)'
  BY <1>3, InjectKeeps
<1>. QED
  BY <1>2, <1>4 DEF DownIsHeld, DownHeld, DownWindows, DownLinux, DownAndroid

LEMMA QuietKeepsDown ==
    ASSUME DownIsHeld, ThingsHeld \subseteq ThingsHeld', screen'.down = screen.down,
           UNCHANGED <<injector, platform, strayed>>
    PROVE  DownIsHeld'
<1>1. PICK things : things = ThingsHeld
  OBVIOUS
<1>2. PICK after : after = ThingsHeld'
  OBVIOUS
<1>3. DownHeld(things) /\ things \subseteq after
  BY <1>1, <1>2 DEF DownIsHeld
<1>4. DownHeld(after)'
  BY <1>3, DownGrows
<1>. QED
  BY <1>2, <1>4 DEF DownIsHeld, DownHeld, DownWindows, DownLinux, DownAndroid

\* An event for a pad changes nothing that is down.
LEMMA PadKeepsDown ==
    ASSUME DownIsHeld, ThingsHeld \subseteq ThingsHeld', UNCHANGED <<injector, screen, platform>>,
           NEW e \in ClientEvents, NEW f \in Focuses, NEW answers \in BOOLEAN,
           e.phase = "Start", strayed' = StrayedAfter(e, f, answers)
    PROVE  DownIsHeld'
<1>1. PICK things : things = ThingsHeld
  OBVIOUS
<1>2. PICK after : after = ThingsHeld'
  OBVIOUS
<1>3. DownHeld(things) /\ things \subseteq after
  BY <1>1, <1>2 DEF DownIsHeld
<1>4. /\ \A k : KeyHeld(things, k) => KeyHeld(after, k)
      /\ \A w : ButtonHeld(things, w) => ButtonHeld(after, w)
      /\ \A t : TouchHeld(things, t) => TouchHeld(after, t)
  BY <1>3 DEF KeyHeld, ButtonHeld, TouchHeld
<1>5. /\ \A d \in screen'.down : d \in strayed.down => d \in strayed'.down
      /\ PrimaryHolds' <=> PrimaryHolds
      /\ PostedHolds' <=> PostedHolds
      /\ strayed'.primary => injector'.primary # NoTouch
  BY DEF StrayedAfter, PrimaryHolds, PostedHolds
<1>6. platform' = platform /\ screen' = screen /\ injector' = injector
  OBVIOUS
<1>7. ASSUME platform = "windows" PROVE DownHeld(after)'
  <2>1. DownWindows(things)
    BY <1>3, <1>7 DEF DownHeld
  <2>2. DownWindows(after)'
    BY <1>4, <1>5, <1>6, <2>1 DEF DownWindows, KeyHeld, ButtonHeld, TouchHeld
  <2>. QED
    BY <1>6, <1>7, <2>2 DEF DownHeld
<1>8. ASSUME platform = "linux" PROVE DownHeld(after)'
  <2>1. DownLinux(after)'
    BY <1>3, <1>4, <1>6, <1>8 DEF DownHeld, DownLinux, KeyHeld, ButtonHeld
  <2>. QED
    BY <1>6, <1>8, <2>1 DEF DownHeld
<1>9. ASSUME platform = "android" PROVE DownHeld(after)'
  <2>1. DownAndroid(things)
    BY <1>3, <1>9 DEF DownHeld
  <2>2. DownAndroid(after)'
    BY <1>3, <1>4, <1>5, <1>6, <2>1 DEF DownAndroid, KeyHeld, ButtonHeld
  <2>. QED
    BY <1>6, <1>9, <2>2 DEF DownHeld
<1>10. DownHeld(after)'
  BY <1>7, <1>8, <1>9, <1>6 DEF DownHeld
<1>. QED
  BY <1>2, <1>10 DEF DownIsHeld, DownHeld, DownWindows, DownLinux, DownAndroid

LEMMA DeliverKeeps ==
    ASSUME InputInv, NEW s \in InputSessions, NEW answers \in BOOLEAN, Deliver(s, answers)
    PROVE  InputInv'
<1>1. PICK next : next = Head(inputs[s])
  OBVIOUS
<1>2. PICK e, f : e = next[1] /\ f = next[2]
  OBVIOUS
<1>3. InputTypes /\ DownIsHeld /\ OverHoldsNothing
  BY DEF InputInv
<1>4. /\ inputs[s] \in Seq(ClientEvents \X Focuses) /\ inputs[s] # <<>>
      /\ inputs \in [InputSessions -> Seq(ClientEvents \X Focuses)]
  BY <1>3 DEF InputTypes, Deliver
<1>5. next \in ClientEvents \X Focuses /\ Tail(inputs[s]) \in Seq(ClientEvents \X Focuses)
  BY <1>1, <1>4
<1>6. e \in ClientEvents /\ f \in Focuses
  BY <1>2, <1>5
<1>7. /\ held' = [held EXCEPT ![s] = Track(@, e, f)]
      /\ pads' = [pads EXCEPT ![s] = PadsAfter(@, e, answers)]
      /\ e.kind \in {"pad", "gone"} => UNCHANGED <<injector, screen>>
      /\ e.kind \notin {"pad", "gone"} => Inject(e, f, answers)
      /\ strayed' = StrayedAfter(e, f, answers)
      /\ inputs' = [inputs EXCEPT ![s] = Tail(@)]
      /\ UNCHANGED <<platform, streamed, focus, delivering, reachable>>
  BY <1>1, <1>2 DEF Deliver
<1>8. /\ held' \in [InputSessions -> SUBSET HeldRecords]
      /\ HoldsAfter(ThingsHeld, ThingsHeld', e)
  BY <1>3, <1>6, <1>7, DeliverHolds
<1>9. injector' \in Injectors /\ screen' \in Screens
  BY <1>3, <1>6, <1>7, InjectTypes DEF InputTypes
<1>10. pads' \in [InputSessions -> SUBSET {"pad"}]
  <2>1. pads \in [InputSessions -> SUBSET {"pad"}] /\ pads[s] \in SUBSET {"pad"}
    BY <1>3 DEF InputTypes
  <2>2. e.kind = "pad" => e.what = "pad"
    BY <1>6 DEF ClientEvents
  <2>3. PadsAfter(pads[s], e, answers) \in SUBSET {"pad"}
    BY <2>1, <2>2 DEF PadsAfter
  <2>. QED
    BY <1>7, <2>1, <2>3
<1>11. inputs' \in [InputSessions -> Seq(ClientEvents \X Focuses)]
  BY <1>4, <1>5, <1>7
<1>13. InputTypes'
  BY <1>3, <1>7, <1>8, <1>9, <1>10, <1>11 DEF InputTypes
<1>14. DownIsHeld'
  <2>1. CASE e.kind \notin {"pad", "gone"}
    <3>1. Inject(e, f, answers)
      BY <1>7, <2>1
    <3>. QED
      BY <1>3, <1>6, <1>7, <1>8, <3>1, InjectionKeepsDown
  <2>2. CASE e.kind \in {"pad", "gone"}
    <3>1. e.phase = "Start"
      BY <1>6, <2>2 DEF ClientEvents
    <3>2. ThingsHeld \subseteq ThingsHeld'
      BY <1>8, <3>1 DEF HoldsAfter
    <3>. QED
      BY <1>3, <1>6, <1>7, <2>2, <3>1, <3>2, PadKeepsDown
  <2>. QED
    BY <2>1, <2>2
<1>15. OverHoldsNothing'
  <2>1. delivering[s] # "over" /\ held \in [InputSessions -> SUBSET HeldRecords]
    BY <1>3 DEF Deliver, InputTypes
  <2>2. \A r \in InputSessions : r # s => held'[r] = held[r]
    BY <1>7, <2>1
  <2>. QED
    BY <1>3, <1>7, <2>1, <2>2 DEF OverHoldsNothing
<1>. QED
  BY <1>13, <1>14, <1>15 DEF InputInv

LEMMA ReleaseKeeps ==
    ASSUME InputInv, NEW s \in InputSessions, NEW x \in held[s], NEW answers \in BOOLEAN,
           ReleaseHeld(s, x, answers)
    PROVE  InputInv'
<1>1. PICK e, f : e = ReleaseOf(x)[1] /\ f = ReleaseOf(x)[2]
  OBVIOUS
<1>2. InputTypes /\ DownIsHeld /\ OverHoldsNothing
  BY DEF InputInv
<1>3. x \in HeldRecords
  BY <1>2 DEF InputTypes
<1>4. e \in ClientEvents /\ f \in Focuses /\ e.phase \in {"End", "Cancel"} /\ Thing(e) = Thing(x)
  BY <1>1, <1>3, Releases
<1>5. /\ held' = [held EXCEPT ![s] = @ \ {x}] /\ Inject(e, f, answers)
      /\ strayed' = StrayedAfter(e, f, answers)
      /\ UNCHANGED <<platform, streamed, focus, inputs, delivering, pads, reachable>>
  BY <1>1 DEF ReleaseHeld
<1>6. /\ held' \in [InputSessions -> SUBSET HeldRecords]
      /\ HoldsAfter(ThingsHeld, ThingsHeld', e)
  BY <1>2, <1>4, <1>5, ReleaseHolds
<1>7. injector' \in Injectors /\ screen' \in Screens
  BY <1>2, <1>4, <1>5, InjectTypes
<1>9. InputTypes'
  BY <1>2, <1>5, <1>6, <1>7 DEF InputTypes
<1>10. DownIsHeld'
  BY <1>2, <1>4, <1>5, <1>6, InjectionKeepsDown
<1>11. OverHoldsNothing'
  <2>1. delivering[s] # "over" /\ held \in [InputSessions -> SUBSET HeldRecords]
    BY <1>2 DEF ReleaseHeld, InputTypes
  <2>2. \A r \in InputSessions : r # s => held'[r] = held[r]
    BY <1>5, <2>1
  <2>. QED
    BY <1>2, <1>5, <2>1, <2>2 DEF OverHoldsNothing
<1>. QED
  BY <1>9, <1>10, <1>11 DEF InputInv

LEMMA InputKeeps == InputInv /\ [InputNext]_inputVars => InputInv'
<1>. SUFFICES ASSUME InputInv, [InputNext]_inputVars PROVE InputInv'
  OBVIOUS
<1>1. InputTypes /\ DownIsHeld /\ OverHoldsNothing
  BY DEF InputInv
<1>2. CASE LockOrUnlock
  <2>1. InputTypes'
    BY <1>1, <1>2 DEF LockOrUnlock, InputTypes
  <2>2. ThingsHeld' = ThingsHeld
    BY <1>2 DEF LockOrUnlock, ThingsHeld
  <2>3. DownIsHeld'
    BY <1>1, <1>2, <2>2, QuietKeepsDown DEF LockOrUnlock
  <2>. QED
    BY <1>1, <1>2, <2>1, <2>3 DEF LockOrUnlock, InputInv, OverHoldsNothing
<1>3. CASE FocusElsewhere
  <2>1. screen'.down = screen.down /\ screen' \in Screens
    BY <1>1, <1>3 DEF FocusElsewhere, InputTypes, Screens
  <2>2. InputTypes'
    BY <1>1, <1>3, <2>1 DEF FocusElsewhere, InputTypes
  <2>3. ThingsHeld' = ThingsHeld
    BY <1>3 DEF FocusElsewhere, ThingsHeld
  <2>4. DownIsHeld'
    BY <1>1, <1>3, <2>1, <2>3, QuietKeepsDown DEF FocusElsewhere
  <2>. QED
    BY <1>1, <1>3, <2>2, <2>4 DEF FocusElsewhere, InputInv, OverHoldsNothing
<1>4. CASE ServeAnother
  <2>1. injector' \in Injectors /\ screen' \in Screens
    BY <1>4, InputAssumption DEF ServeAnother, Untouched, Injectors, Screens, Focuses
  <2>2. InputTypes'
    BY <1>1, <1>4, <2>1 DEF ServeAnother, InputTypes
  <2>3. DownIsHeld'
    BY <1>4 DEF ServeAnother, Untouched, DownIsHeld, DownHeld, DownLinux
  <2>. QED
    BY <1>1, <1>4, <2>2, <2>3 DEF ServeAnother, InputInv, OverHoldsNothing
<1>5. ASSUME InputTypes', UNCHANGED <<platform, held, injector, screen, reachable, strayed>>,
             \A s \in InputSessions : delivering'[s] = "over" => delivering[s] = "over" \/ held[s] = {}
      PROVE  InputInv'
  <2>1. ThingsHeld' = ThingsHeld
    BY <1>5 DEF ThingsHeld
  <2>2. DownIsHeld'
    BY <1>1, <1>5, <2>1, QuietKeepsDown
  <2>. QED
    BY <1>1, <1>5, <2>2 DEF InputInv, OverHoldsNothing
<1>6. ASSUME NEW s \in InputSessions, EndInput(s) PROVE InputInv'
  <2>1. InputTypes'
    BY <1>1, <1>6 DEF EndInput, InputTypes
  <2>. QED
    BY <1>1, <1>5, <1>6, <2>1 DEF EndInput, InputTypes
<1>7. ASSUME NEW s \in InputSessions, EndDelivery(s) PROVE InputInv'
  <2>1. InputTypes'
    BY <1>1, <1>7 DEF EndDelivery, InputTypes
  <2>. QED
    BY <1>1, <1>5, <1>7, <2>1 DEF EndDelivery, InputTypes
<1>8. ASSUME NEW s \in InputSessions, NEW e \in ClientEvents, Input(s, e) PROVE InputInv'
  <2>1. PICK to : /\ to \in streamed[s] /\ focus' = [focus EXCEPT ![s] = to]
                  /\ inputs' = [inputs EXCEPT ![s] = Append(@, <<e, to>>)]
    BY <1>8 DEF Input
  <2>2. to \in Focuses
    BY <1>1, <2>1 DEF InputTypes, Focuses
  <2>3. inputs' \in [InputSessions -> Seq(ClientEvents \X Focuses)]
    BY <1>1, <2>1, <2>2 DEF InputTypes
  <2>4. focus' \in [InputSessions -> Focuses]
    BY <1>1, <2>1, <2>2 DEF InputTypes
  <2>5. InputTypes'
    BY <1>1, <1>8, <2>3, <2>4 DEF Input, InputTypes
  <2>. QED
    BY <1>5, <1>8, <2>5 DEF Input
<1>9. ASSUME NEW s \in InputSessions, NEW w \in InputWindows, StopInput(s, w) PROVE InputInv'
  <2>1. InputTypes'
    BY <1>1, <1>9 DEF StopInput, InputTypes
  <2>. QED
    BY <1>5, <1>9, <2>1 DEF StopInput
<1>10. CASE UNCHANGED inputVars
  <2>1. InputTypes'
    BY <1>1, <1>10 DEF inputVars, InputTypes
  <2>. QED
    BY <1>5, <1>10, <2>1 DEF inputVars
<1>. QED
  BY <1>2, <1>3, <1>4, <1>6, <1>7, <1>8, <1>9, <1>10, DeliverKeeps, ReleaseKeeps DEF InputNext

\* When the sessions are over nothing a client pressed is down at the host (HeldInput of
\* host-core, the injectors of the agents), whatever was pressed at once and in which
\* windows, but what a release did not reach that went to another display than the press,
\* or by message for what was injected, or was injected for what went by message.
THEOREM NothingIsLeftDown == InputSpec => []NothingStaysDown
<1>1. ASSUME InputInv PROVE NothingStaysDown
  <2>. SUFFICES ASSUME \A s \in InputSessions : delivering[s] = "over"
                PROVE  /\ screen.down \subseteq strayed.down
                       /\ injector.primary # NoTouch => strayed.primary
                       /\ injector.postedTouch # NoTouch => strayed.posted
                       /\ injector.fingers = {}
    BY DEF NothingStaysDown
  <2>1. ThingsHeld = {}
    BY <1>1 DEF InputInv, OverHoldsNothing, ThingsHeld
  <2>2. PICK things : things = ThingsHeld
    OBVIOUS
  <2>3. /\ \A k : ~ KeyHeld(things, k)
        /\ \A w : ~ ButtonHeld(things, w)
        /\ \A t : ~ TouchHeld(things, t)
    BY <2>1, <2>2 DEF KeyHeld, ButtonHeld, TouchHeld
  <2>4. DownHeld(things) /\ InputTypes
    BY <1>1, <2>2 DEF InputInv, DownIsHeld
  <2>5. CASE platform = "windows"
    BY <2>3, <2>4, <2>5 DEF DownHeld, DownWindows, PrimaryHolds, PostedHolds
  <2>6. CASE platform = "linux"
    BY <2>1, <2>2, <2>3, <2>4, <2>6 DEF DownHeld, DownLinux
  <2>7. CASE platform = "android"
    BY <2>1, <2>2, <2>3, <2>4, <2>7 DEF DownHeld, DownAndroid
  <2>. QED
    BY <2>4, <2>5, <2>6, <2>7 DEF InputTypes
<1>. QED
  BY <1>1, InputStarts, InputKeeps, PTL DEF InputSpec

-----------------------------------------------------------------------------
(* Files: what is on the disk and under way.                                *)

HostRequests ==
    [type : {"Ask", "Finish"}] \cup [type : {"Write"}, size : {SIZE}, resume : BOOLEAN]
    \cup [type : {"Read"}, offset : Nat] \cup [type : {"Chunk"}, byte : Sources]

HostReplies ==
    [type : {"Answer", "Error", "Done"}] \cup [type : {"Ready"}, offset : 0 .. SIZE]
    \cup [type : {"Ack"}, written : Nat] \cup [type : {"Chunk"}, byte : Sources]
    \cup [type : {"End"}, size : {SIZE}]

FileOrNone == Handles \cup {NoPart}

FileCalls ==
    [op : {"idle", "ask", "upload", "download"}, source : Sources \cup {""}, sent : Nat, acked : Nat,
     stage : {"", "opening", "sending", "finishing"}, resume : BOOLEAN]

DiskTypes ==
    /\ disk \in [Handles -> Seq(Sources)]
    /\ target \in FileOrNone /\ partial \in FileOrNone
    /\ uploading \in [FileChannels -> [file : FileOrNone, size : Nat, written : Nat, acked : Nat]]
    /\ placing \in SUBSET FileChannels
    /\ reading \in [FileChannels -> [file : FileOrNone, at : Nat]]
    /\ placed \in BOOLEAN /\ undone \in BOOLEAN

CallTypes ==
    /\ requests \in [FileChannels -> Seq(HostRequests)]
    /\ replies \in [FileChannels -> Seq(HostReplies)]
    /\ gone \in SUBSET FileChannels /\ stale \in SUBSET FileChannels /\ renewed \in SUBSET FileChannels
    /\ fcall \in [FileChannels -> FileCalls]
    /\ \A c \in FileChannels : fcall[c].op = "upload" => fcall[c].source \in Sources /\ fcall[c].stage # ""
    /\ ours \in [FileChannels -> Seq(Sources)] /\ dest \in [FileChannels -> Seq(Sources)]

\* All bytes are of one source.
OfOne(q) == \A i, j \in 1 .. Len(q) : q[i] = q[j]

\* A channel with an upload that is open or about to be put in place.
Uploads(c) == uploading[c].file # NoPart \/ c \in placing

\* The file under the name is whole, the part is of one source.
NamesKept ==
    /\ target # NoPart => Whole(disk[target]) /\ target # partial
    /\ partial # NoPart => Len(disk[partial]) <= SIZE /\ OfOne(disk[partial])
    /\ placed /\ ~ undone => target # NoPart \/ (partial # NoPart /\ Whole(disk[partial]))

\* An upload that is open writes the part, and has written all there is of it.
UploadKept(c) ==
    /\ uploading[c].file = NoPart => uploading[c] = NoUpload
    /\ uploading[c].file # NoPart =>
         /\ uploading[c].file = partial /\ uploading[c].size = SIZE /\ c \notin placing
         /\ Len(disk[partial]) = uploading[c].written
    /\ c \in placing => partial # NoPart /\ Whole(disk[partial])

\* What is read was under the name, and is not written any more.
ReadKept(c) ==
    /\ reading[c].file = NoPart => reading[c] = NotReading
    /\ reading[c].file # NoPart => Whole(disk[reading[c].file]) /\ reading[c].file # partial

DiskKept ==
    /\ NamesKept
    /\ \A c \in FileChannels : UploadKept(c) /\ ReadKept(c)
    /\ \A c, d \in FileChannels : Uploads(c) /\ Uploads(d) => c = d

DiskInv == DiskTypes /\ DiskKept

LEMMA WholeIs ==
    ASSUME NEW q \in Seq(Sources)
    PROVE  /\ Whole(q) => Len(q) = SIZE /\ OfOne(q) /\ SIZE > 0
           /\ Len(q) = SIZE /\ OfOne(q) => Whole(q)
<1>. SIZE \in Nat /\ SIZE > 0
  BY FilesAssumption
<1>1. ASSUME Whole(q) PROVE Len(q) = SIZE /\ OfOne(q)
  <2>1. PICK s \in Sources : q = [n \in 1 .. SIZE |-> s]
    BY <1>1 DEF Whole, Bytes
  <2>2. Len(q) = SIZE
    BY <2>1
  <2>. QED
    BY <2>1, <2>2 DEF OfOne
<1>2. ASSUME Len(q) = SIZE, OfOne(q) PROVE Whole(q)
  <2>1. q[1] \in Sources /\ \A i \in 1 .. SIZE : q[i] = q[1]
    BY <1>2 DEF OfOne
  <2>2. q = [n \in 1 .. SIZE |-> q[1]]
    BY <1>2, <2>1
  <2>. QED
    BY <2>1, <2>2 DEF Whole, Bytes
<1>. QED
  BY <1>1, <1>2

\* There is a number for another file.
LEMMA FewValues ==
    ASSUME NEW F, IsFiniteSet(FileChannels)
    PROVE  /\ IsFiniteSet({F[c] : c \in FileChannels})
           /\ Cardinality({F[c] : c \in FileChannels}) \in Nat
           /\ Cardinality({F[c] : c \in FileChannels}) <= Cardinality(FileChannels)
<1>1. PICK V : V = {F[c] : c \in FileChannels}
  OBVIOUS
<1>2. PICK g : g = [c \in FileChannels |-> F[c]]
  OBVIOUS
<1>3. g \in Surjection(FileChannels, V)
  BY <1>1, <1>2 DEF Surjection
<1>. QED
  BY <1>1, <1>3, FS_Surjection, FS_CardinalityType

LEMMA UnionIsFew ==
    ASSUME NEW S, NEW T, IsFiniteSet(S), IsFiniteSet(T)
    PROVE  /\ IsFiniteSet(S \cup T) /\ Cardinality(S \cup T) \in Nat
           /\ Cardinality(S \cup T) <= Cardinality(S) + Cardinality(T)
<1>1. IsFiniteSet(S \cap T) /\ Cardinality(S \cap T) \in Nat
  BY FS_Subset, FS_CardinalityType
<1>2. /\ IsFiniteSet(S \cup T) /\ Cardinality(S \cup T) \in Nat /\ Cardinality(S) \in Nat /\ Cardinality(T) \in Nat
      /\ Cardinality(S \cup T) = Cardinality(S) + Cardinality(T) - Cardinality(S \cap T)
  BY FS_Union, FS_CardinalityType
<1>. QED
  BY <1>1, <1>2

LEMMA UnusedIs ==
    ASSUME DiskTypes, partial = NoPart
    PROVE  /\ Unused \in Handles /\ Unused # target
           /\ \A c \in FileChannels : Unused # uploading[c].file /\ Unused # reading[c].file
<1>1. PICK U : U = {uploading[c].file : c \in FileChannels}
  OBVIOUS
<1>2. PICK R : R = {reading[c].file : c \in FileChannels}
  OBVIOUS
<1>3. PICK n \in Nat : n = Cardinality(FileChannels) /\ IsFiniteSet(FileChannels)
  BY FilesAssumption, FS_CardinalityType
<1>4. IsFiniteSet(U) /\ Cardinality(U) <= n /\ Cardinality(U) \in Nat
  <2>1. PICK F : F = [c \in FileChannels |-> uploading[c].file]
    OBVIOUS
  <2>2. U = {F[c] : c \in FileChannels}
    BY <1>1, <2>1
  <2>. QED
    BY <1>3, <2>2, FewValues
<1>5. IsFiniteSet(R) /\ Cardinality(R) <= n /\ Cardinality(R) \in Nat
  <2>1. PICK F : F = [c \in FileChannels |-> reading[c].file]
    OBVIOUS
  <2>2. R = {F[c] : c \in FileChannels}
    BY <1>2, <2>1
  <2>. QED
    BY <1>3, <2>2, FewValues
<1>6. IsFiniteSet({target}) /\ Cardinality({target}) = 1
  BY FS_Singleton
<1>7. IsFiniteSet(U \cup R) /\ Cardinality(U \cup R) <= n + n /\ Cardinality(U \cup R) \in Nat
  BY <1>3, <1>4, <1>5, UnionIsFew
<1>8. PICK S : S = (U \cup R) \cup {target}
  OBVIOUS
<1>9. IsFiniteSet(S) /\ Cardinality(S) <= n + n + 1 /\ Cardinality(S) \in Nat
  BY <1>3, <1>6, <1>7, <1>8, UnionIsFew
<1>10. Handles = 1 .. 2 * n + 2
  BY <1>3 DEF Handles
<1>11. Cardinality(Handles) = 2 * n + 2
  BY <1>3, <1>10, FS_Interval
<1>12. ~ (Handles \subseteq S)
  <2>1. Handles \subseteq S => Cardinality(Handles) <= Cardinality(S)
    BY <1>9, FS_Subset
  <2>. QED
    BY <1>3, <1>9, <1>11, <2>1
<1>13. PICK f \in Handles : f \notin S
  BY <1>12
<1>14. f # partial
  BY <1>10, <1>13 DEF NoPart
<1>15. f \notin {target, partial} \cup {uploading[c].file : c \in FileChannels}
                \cup {reading[c].file : c \in FileChannels}
  BY <1>1, <1>2, <1>8, <1>13, <1>14
<1>16. /\ Unused \in Handles
       /\ Unused \notin {target, partial} \cup {uploading[c].file : c \in FileChannels}
                       \cup {reading[c].file : c \in FileChannels}
  BY <1>13, <1>15 DEF Unused
<1>. QED
  BY <1>16

LEMMA HeadOfRequests ==
    ASSUME CallTypes, NEW c \in FileChannels, requests[c] # <<>>
    PROVE  /\ Head(requests[c]) \in HostRequests /\ Tail(requests[c]) \in Seq(HostRequests)
           /\ Head(requests[c]).type = "Write" => Head(requests[c]).resume \in BOOLEAN
           /\ Head(requests[c]).type = "Chunk" => Head(requests[c]).byte \in Sources
           /\ Head(requests[c]).type = "Read" => Head(requests[c]).offset \in Nat
<1>1. requests[c] \in Seq(HostRequests)
  BY DEF CallTypes
<1>2. PICK r : r = Head(requests[c])
  OBVIOUS
<1>3. r \in HostRequests /\ Tail(requests[c]) \in Seq(HostRequests)
  BY <1>1, <1>2
<1>4. /\ r.type = "Write" => r.resume \in BOOLEAN
      /\ r.type = "Chunk" => r.byte \in Sources
      /\ r.type = "Read" => r.offset \in Nat
  BY <1>3 DEF HostRequests
<1>. QED
  BY <1>2, <1>3, <1>4

\* No upload is open and none is being put in place, or it is this channel's.
LEMMA UploadsAlone ==
    ASSUME DiskInv, NEW c \in FileChannels, Uploads(c), NEW d \in FileChannels, d # c
    PROVE  ~ Uploads(d) /\ uploading[d].file = NoPart /\ d \notin placing
  BY DEF DiskInv, DiskKept, Uploads

LEMMA HandlesAreNumbers == \A f \in Handles : f # NoPart
<1>1. Cardinality(FileChannels) \in Nat
  BY FilesAssumption, FS_CardinalityType
<1>. QED
  BY <1>1 DEF Handles, NoPart

LEMMA OpensUploadDisk ==
    ASSUME DiskInv, CallTypes, NEW c \in FileChannels, OpensUpload(c), ~ mixed'
    PROVE  DiskInv' /\ \A d \in FileChannels : reading[d] # NotReading => disk'[reading[d].file] = disk[reading[d].file]
<1>. DEFINE resume == Head(requests[c]).resume
<1>1. PICK had, f :
        /\ had = Held(resume) /\ f = (IF partial = NoPart THEN Unused ELSE partial)
        /\ partial' = f
        /\ disk' = [disk EXCEPT ![f] = IF had = 0 THEN <<>> ELSE @]
        /\ uploading' = [uploading EXCEPT ![c] = [file |-> f, size |-> SIZE, written |-> had, acked |-> had]]
        /\ undone' = (undone \/ (target = NoPart /\ partial # NoPart /\ ~ resume))
  BY DEF OpensUpload
<1>2. /\ UNCHANGED <<target, placing, reading, placed>> /\ c \notin placing
      /\ requests[c] # <<>> /\ Head(requests[c]).type = "Write"
  BY DEF OpensUpload, Handling
<1>3. resume \in BOOLEAN
  BY <1>2, HeadOfRequests
<1>. HIDE DEF resume
<1>4. \A d \in FileChannels : d # c => uploading[d].file = NoPart /\ d \notin placing
  BY DEF OpensUpload
<1>5. DiskTypes /\ DiskKept /\ NamesKept
  BY DEF DiskInv, DiskKept
<1>. SIZE \in Nat /\ SIZE > 0
  BY FilesAssumption
<1>6. /\ f \in Handles /\ f # NoPart /\ f # target
      /\ \A d \in FileChannels : reading[d].file # f
  <2>1. CASE partial = NoPart
    BY <1>1, <1>5, <2>1, UnusedIs, HandlesAreNumbers
  <2>2. CASE partial # NoPart
    BY <1>1, <1>5, <2>2 DEF DiskTypes, FileOrNone, NamesKept, DiskKept, ReadKept
  <2>. QED
    BY <2>1, <2>2
<1>7. /\ had \in Nat /\ had <= SIZE /\ Len(disk'[f]) = had /\ OfOne(disk'[f]) /\ disk'[f] \in Seq(Sources)
      /\ \/ disk'[f] = disk[f] /\ partial = f
         \/ partial = NoPart \/ ~ resume \/ ~ Whole(disk[partial])
  <2>1. disk[f] \in Seq(Sources) /\ disk'[f] = IF had = 0 THEN <<>> ELSE disk[f]
    BY <1>1, <1>5, <1>6 DEF DiskTypes
  <2>2. CASE partial = NoPart
    <3>1. had = 0
      BY <1>1, <2>2 DEF Held
    <3>. QED
      BY <2>1, <2>2, <3>1 DEF OfOne
  <2>3. CASE partial # NoPart
    <3>1. f = partial /\ Len(disk[f]) <= SIZE /\ Len(disk[f]) \in Nat /\ OfOne(disk[f])
      BY <1>1, <1>5, <2>1, <2>3 DEF NamesKept
    <3>2. had = IF ~ resume THEN 0 ELSE Len(disk[f])
      BY <1>1, <2>3, <3>1 DEF Held
    <3>3. CASE had = 0
      <4>1. disk'[f] = <<>> /\ (~ resume \/ Len(disk[f]) = 0)
        BY <2>1, <3>2, <3>3
      <4>2. Len(disk[f]) = 0 => ~ Whole(disk[f])
        BY <2>1, WholeIs
      <4>. QED
        BY <3>1, <3>3, <4>1, <4>2 DEF OfOne
    <3>4. CASE had # 0
      BY <2>1, <3>1, <3>2, <3>4
    <3>. QED
      BY <3>3, <3>4
  <2>. QED
    BY <2>2, <2>3
<1>8. \A g \in Handles : g # f => disk'[g] = disk[g]
  BY <1>1, <1>5 DEF DiskTypes
<1>9. disk' \in [Handles -> Seq(Sources)]
  BY <1>1, <1>5, <1>6, <1>7 DEF DiskTypes
<1>10. undone' \in BOOLEAN
  BY <1>1, <1>3, <1>5 DEF DiskTypes
<1>11. uploading' \in [FileChannels -> [file : FileOrNone, size : Nat, written : Nat, acked : Nat]]
  BY <1>1, <1>5, <1>6, <1>7 DEF DiskTypes, FileOrNone
<1>12. DiskTypes'
  BY <1>1, <1>2, <1>5, <1>6, <1>9, <1>10, <1>11 DEF DiskTypes, FileOrNone
<1>13. uploading'[c] = [file |-> f, size |-> SIZE, written |-> had, acked |-> had]
       /\ \A d \in FileChannels : d # c => uploading'[d] = uploading[d]
  BY <1>1, <1>5 DEF DiskTypes
<1>14. ASSUME NEW d \in FileChannels
       PROVE  /\ reading'[d] = reading[d] /\ disk'[reading[d].file] = disk[reading[d].file]
              /\ ReadKept(d)'
  <2>1. ReadKept(d) /\ reading[d].file \in FileOrNone
    BY <1>5 DEF DiskKept, DiskTypes
  <2>2. CASE reading[d].file = NoPart
    <3>1. reading[d].file \notin Handles
      BY <2>2, HandlesAreNumbers
    <3>2. disk'[reading[d].file] = disk[reading[d].file]
      BY <1>1, <1>5, <1>6, <3>1 DEF DiskTypes
    <3>. QED
      BY <1>2, <2>1, <2>2, <3>2 DEF ReadKept
  <2>3. CASE reading[d].file # NoPart
    <3>1. reading[d].file \in Handles /\ reading[d].file # f
      BY <1>6, <2>1, <2>3 DEF FileOrNone
    <3>. QED
      BY <1>1, <1>2, <1>6, <1>8, <2>1, <2>3, <3>1 DEF ReadKept
  <2>. QED
    BY <2>2, <2>3
<1>15. NamesKept'
  <2>1. target # NoPart => Whole(disk'[target]) /\ target # f
    BY <1>5, <1>6, <1>8 DEF NamesKept, DiskTypes, FileOrNone
  <2>2. placed' /\ ~ undone' => target # NoPart \/ (partial' # NoPart /\ Whole(disk'[f]))
    BY <1>1, <1>2, <1>5, <1>6, <1>7 DEF NamesKept
  <2>3. target' = target /\ partial' = f
    BY <1>1, <1>2
  <2>. QED
    BY <1>7, <2>1, <2>2, <2>3 DEF NamesKept, Whole, OfOne
<1>16. ASSUME NEW d \in FileChannels PROVE UploadKept(d)'
  <2>1. CASE d = c
    BY <1>1, <1>2, <1>6, <1>7, <1>13, <2>1 DEF UploadKept
  <2>2. CASE d # c
    BY <1>2, <1>4, <1>5, <1>13, <2>2 DEF DiskKept, UploadKept
  <2>. QED
    BY <2>1, <2>2
<1>17. \A d, e \in FileChannels : Uploads(d)' /\ Uploads(e)' => d = e
  BY <1>2, <1>4, <1>13 DEF Uploads
<1>18. DiskInv'
  BY <1>12, <1>14, <1>15, <1>16, <1>17 DEF DiskInv, DiskKept
<1>. QED
  BY <1>14, <1>18

\* What is written is appended to the part.
LEMMA WrittenAtEnd ==
    ASSUME NEW q \in Seq(Sources), NEW b \in Sources, Len(q) > 0 => q[1] = b, OfOne(q)
    PROVE  LET w == WriteAt(q, Len(q) + 1, b)
           IN  w \in Seq(Sources) /\ Len(w) = Len(q) + 1 /\ OfOne(w)
<1>1. PICK n \in Nat : n = Len(q)
  OBVIOUS
<1>2. Max({n, n + 1}) = n + 1
  BY <1>1 DEF Max
<1>3. PICK w : w = WriteAt(q, n + 1, b)
  OBVIOUS
<1>4. w = [i \in 1 .. n + 1 |-> IF i = n + 1 THEN b ELSE IF i <= n THEN q[i] ELSE "hole"]
  BY <1>1, <1>2, <1>3 DEF WriteAt
<1>5. \A i \in 1 .. n + 1 : w[i] = b
  <2>1. \A i \in 1 .. n : q[i] = b
    BY <1>1 DEF OfOne
  <2>. QED
    BY <1>1, <1>4, <2>1
<1>6. w = [i \in 1 .. n + 1 |-> b]
  BY <1>1, <1>4, <1>5
<1>7. w \in Seq(Sources) /\ Len(w) = n + 1
  BY <1>1, <1>6
<1>. QED
  BY <1>1, <1>3, <1>5, <1>7 DEF OfOne

LEMMA WritesChunkDisk ==
    ASSUME DiskInv, CallTypes, NEW c \in FileChannels, WritesChunk(c), ~ mixed'
    PROVE  DiskInv' /\ \A d \in FileChannels : reading[d] # NotReading => disk'[reading[d].file] = disk[reading[d].file]
<1>1. /\ UNCHANGED <<target, partial, placing, reading, placed, undone>> /\ c \notin placing
      /\ requests[c] # <<>> /\ Head(requests[c]).type = "Chunk"
  BY DEF WritesChunk, Handling
<1>2. PICK u, n, b : u = uploading[c] /\ n = u.written + 1 /\ b = Head(requests[c]).byte
  OBVIOUS
<1>3. b \in Sources
  BY <1>1, <1>2, HeadOfRequests
<1>4. DiskTypes /\ DiskKept /\ NamesKept /\ UploadKept(c)
  BY DEF DiskInv, DiskKept
<1>5. CASE u = NoUpload \/ n > u.size
  <2>1. disk' = disk /\ uploading' = [uploading EXCEPT ![c] = NoUpload]
    BY <1>2, <1>5 DEF WritesChunk
  <2>2. NoUpload \in [file : FileOrNone, size : Nat, written : Nat, acked : Nat]
    BY DEF NoUpload, FileOrNone
  <2>3. DiskTypes'
    BY <1>1, <1>4, <2>1, <2>2 DEF DiskTypes
  <2>4. NamesKept'
    BY <1>1, <1>4, <2>1 DEF NamesKept
  <2>5. uploading'[c] = NoUpload /\ \A d \in FileChannels : d # c => uploading'[d] = uploading[d]
    BY <1>4, <2>1 DEF DiskTypes
  <2>6. \A d \in FileChannels : UploadKept(d)' /\ ReadKept(d)'
    BY <1>1, <1>4, <2>1, <2>5 DEF DiskKept, UploadKept, ReadKept, NoUpload
  <2>7. \A d \in FileChannels : Uploads(d)' => Uploads(d)
    BY <1>1, <2>5 DEF Uploads, NoUpload
  <2>. QED
    BY <1>4, <2>1, <2>3, <2>4, <2>6, <2>7 DEF DiskInv, DiskKept
<1>6. CASE u # NoUpload /\ n <= u.size
  <2>1. /\ disk' = [disk EXCEPT ![u.file] = WriteAt(@, n, b)]
        /\ uploading' = [uploading EXCEPT ![c] = Counted(u, n)]
        /\ ~ (n > 1 /\ disk[u.file][1] # b)
    <3>1. ~ (uploading[c] = NoUpload \/ uploading[c].written + 1 > uploading[c].size)
      BY <1>2, <1>4, <1>6 DEF DiskTypes
    <3>2. disk' = [disk EXCEPT ![uploading[c].file] = WriteAt(@, uploading[c].written + 1, Head(requests[c]).byte)]
      BY <3>1 DEF WritesChunk
    <3>3. uploading' = [uploading EXCEPT ![c] = Counted(uploading[c], uploading[c].written + 1)]
      BY <3>1 DEF WritesChunk
    <3>4. mixed' = (mixed \/ (uploading[c].written + 1 > 1
                              /\ disk[uploading[c].file][1] # Head(requests[c]).byte))
      BY <3>1 DEF WritesChunk
    <3>5. disk' = [disk EXCEPT ![u.file] = WriteAt(@, n, b)]
      BY <1>2, <3>2
    <3>6. uploading' = [uploading EXCEPT ![c] = Counted(u, n)]
      BY <1>2, <3>3
    <3>7. ~ (n > 1 /\ disk[u.file][1] # b)
      BY <1>2, <3>4
    <3>. QED
      BY <3>5, <3>6, <3>7
  <2>2. /\ u.file # NoPart /\ u.file = partial /\ u.size = SIZE /\ Len(disk[partial]) = u.written
        /\ partial \in Handles /\ u.written \in Nat /\ u.acked \in Nat
    BY <1>2, <1>4, <1>6 DEF UploadKept, DiskTypes, FileOrNone
  <2>3. PICK q : q = disk[partial]
    OBVIOUS
  <2>4. q \in Seq(Sources) /\ OfOne(q) /\ n = Len(q) + 1 /\ n \in Nat /\ n <= SIZE
    BY <1>2, <1>4, <1>6, <2>2, <2>3 DEF DiskTypes, NamesKept
  <2>5. PICK w : w = WriteAt(q, n, b)
    OBVIOUS
  <2>6. w \in Seq(Sources) /\ Len(w) = n /\ OfOne(w)
    <3>1. Len(q) > 0 => q[1] = b
      BY <2>1, <2>2, <2>3, <2>4
    <3>. QED
      BY <1>3, <2>4, <2>5, <3>1, WrittenAtEnd
  <2>7. disk' = [disk EXCEPT ![partial] = w]
    BY <2>1, <2>2, <2>3, <2>5
  <2>8. disk'[partial] = w /\ disk' \in [Handles -> Seq(Sources)] /\ \A f \in Handles : f # partial => disk'[f] = disk[f]
    BY <1>4, <2>2, <2>6, <2>7 DEF DiskTypes
  <2>9. /\ uploading' \in [FileChannels -> [file : FileOrNone, size : Nat, written : Nat, acked : Nat]]
        /\ uploading'[c].file = partial /\ uploading'[c].size = SIZE /\ uploading'[c].written = n
        /\ \A d \in FileChannels : d # c => uploading'[d] = uploading[d]
    <3>1. PICK a \in Nat : uploading' = [uploading EXCEPT ![c] = [u EXCEPT !.written = n, !.acked = a]]
      <4>1. PICK a : a = IF AckIsDue(u, n) THEN n ELSE u.acked
        OBVIOUS
      <4>2. a \in Nat
        BY <2>2, <2>4, <4>1
      <4>3. Counted(u, n) = [u EXCEPT !.written = n, !.acked = a]
        BY <4>1 DEF Counted
      <4>. QED
        BY <2>1, <4>2, <4>3
    <3>. QED
      BY <1>2, <1>4, <2>2, <2>4, <3>1 DEF DiskTypes
  <2>10. DiskTypes'
    BY <1>1, <1>4, <2>8, <2>9 DEF DiskTypes
  <2>11. ~ Whole(q)
    <3>1. SIZE \in Nat
      BY FilesAssumption
    <3>. QED
      BY <2>4, <3>1, WholeIs
  <2>12. NamesKept'
    <3>1. target # NoPart => Whole(disk'[target]) /\ target # partial
      BY <1>4, <2>8 DEF NamesKept, DiskTypes, FileOrNone
    <3>2. placed /\ ~ undone => target # NoPart
      BY <1>4, <2>3, <2>11 DEF NamesKept
    <3>. QED
      BY <1>1, <2>4, <2>6, <2>8, <3>1, <3>2 DEF NamesKept, Whole, OfOne
  <2>13. Uploads(c)
    BY <1>2, <2>2 DEF Uploads
  <2>14. ASSUME NEW d \in FileChannels PROVE UploadKept(d)'
    <3>1. CASE d = c
      BY <1>1, <2>2, <2>6, <2>8, <2>9, <3>1 DEF UploadKept
    <3>2. CASE d # c
      <4>1. uploading[d].file = NoPart /\ d \notin placing /\ UploadKept(d)
        BY <1>4, <2>13, <3>2, UploadsAlone DEF DiskKept
      <4>. QED
        BY <1>1, <2>9, <3>2, <4>1 DEF UploadKept
    <3>. QED
      BY <3>1, <3>2
  <2>15. ASSUME NEW d \in FileChannels
         PROVE  ReadKept(d)' /\ disk'[reading[d].file] = disk[reading[d].file]
    <3>1. ReadKept(d) /\ reading[d].file \in FileOrNone
      BY <1>4 DEF DiskKept, DiskTypes
    <3>2. disk'[reading[d].file] = disk[reading[d].file]
      <4>1. CASE reading[d].file = NoPart
        BY <2>2, <2>7, <4>1, HandlesAreNumbers, <1>4 DEF DiskTypes
      <4>2. CASE reading[d].file # NoPart
        BY <2>8, <3>1, <4>2 DEF ReadKept, FileOrNone
      <4>. QED
        BY <4>1, <4>2
    <3>. QED
      BY <1>1, <3>1, <3>2 DEF ReadKept
  <2>16. \A d \in FileChannels : Uploads(d)' => Uploads(d)
    BY <1>1, <2>9, <2>13 DEF Uploads
  <2>. QED
    BY <1>4, <2>10, <2>12, <2>14, <2>15, <2>16 DEF DiskInv, DiskKept
<1>7. n \in Nat /\ u.size \in Nat
  BY <1>2, <1>4 DEF DiskTypes
<1>. QED
  BY <1>5, <1>6, <1>7

LEMMA FinishesDisk ==
    ASSUME DiskInv, NEW c \in FileChannels, Finishes(c)
    PROVE  DiskInv' /\ disk' = disk
<1>1. /\ UNCHANGED <<disk, partial, reading, placed, undone>> /\ c \notin placing
  BY DEF Finishes, Handling, fileHistory
<1>2. DiskTypes /\ DiskKept /\ NamesKept /\ UploadKept(c)
  BY DEF DiskInv, DiskKept
<1>3. CASE AllArrived(uploading[c])
  <2>1. /\ placing' = placing \cup {c} /\ uploading' = [uploading EXCEPT ![c] = NoUpload] /\ target' = NoPart
    BY <1>3 DEF Finishes
  <2>2. NoUpload \in [file : FileOrNone, size : Nat, written : Nat, acked : Nat] /\ NoPart \in FileOrNone
    BY DEF NoUpload, FileOrNone
  <2>3. DiskTypes'
    BY <1>1, <1>2, <2>1, <2>2 DEF DiskTypes
  <2>4. uploading'[c] = NoUpload /\ \A d \in FileChannels : d # c => uploading'[d] = uploading[d]
    BY <1>2, <2>1 DEF DiskTypes
  <2>5. uploading[c].file # NoPart /\ uploading[c].file = partial /\ Len(disk[partial]) = SIZE
    BY <1>2, <1>3 DEF AllArrived, UploadKept
  <2>6. partial \in Handles /\ disk[partial] \in Seq(Sources) /\ OfOne(disk[partial])
    BY <1>2, <2>5 DEF DiskTypes, FileOrNone, NamesKept
  <2>7. Whole(disk[partial])
    BY <2>5, <2>6, WholeIs
  <2>8. NamesKept'
    BY <1>1, <1>2, <2>1, <2>5, <2>7 DEF NamesKept
  <2>9. Uploads(c)
    BY <2>5 DEF Uploads
  <2>10. ASSUME NEW d \in FileChannels PROVE UploadKept(d)' /\ ReadKept(d)'
    <3>1. ReadKept(d)'
      BY <1>1, <1>2 DEF DiskKept, ReadKept
    <3>2. CASE d = c
      BY <1>1, <2>1, <2>4, <2>5, <2>7, <3>1, <3>2 DEF UploadKept, NoUpload
    <3>3. CASE d # c
      <4>1. uploading[d].file = NoPart /\ d \notin placing /\ UploadKept(d)
        BY <1>2, <2>9, <3>3, UploadsAlone DEF DiskKept
      <4>. QED
        BY <2>1, <2>4, <3>1, <3>3, <4>1 DEF UploadKept
    <3>. QED
      BY <3>2, <3>3
  <2>11. \A d \in FileChannels : Uploads(d)' => Uploads(d)
    BY <2>1, <2>4, <2>9 DEF Uploads, NoUpload
  <2>. QED
    BY <1>1, <1>2, <2>3, <2>8, <2>10, <2>11 DEF DiskInv, DiskKept
<1>4. CASE ~ AllArrived(uploading[c])
  <2>1. UNCHANGED <<placing, uploading, target>>
    BY <1>4 DEF Finishes
  <2>. QED
    BY <1>1, <1>2, <2>1 DEF DiskInv, DiskKept, DiskTypes, NamesKept, UploadKept, ReadKept, Uploads
<1>. QED
  BY <1>3, <1>4

LEMMA PutsInPlaceDisk ==
    ASSUME DiskInv, NEW c \in FileChannels, PutsInPlace(c)
    PROVE  DiskInv' /\ disk' = disk
<1>1. DiskTypes /\ DiskKept /\ NamesKept /\ UploadKept(c)
  BY DEF DiskInv, DiskKept
<1>2. c \in placing /\ Uploads(c) /\ partial # NoPart /\ Whole(disk[partial]) /\ uploading[c].file = NoPart
  BY <1>1 DEF PutsInPlace, Uploads, UploadKept
<1>3. /\ UNCHANGED <<disk, uploading, reading, undone>> /\ placing' = placing \ {c}
      /\ target' = partial /\ partial' = NoPart /\ placed' = TRUE
  BY <1>2 DEF PutsInPlace
<1>4. DiskTypes'
  BY <1>1, <1>3 DEF DiskTypes, FileOrNone
<1>5. NamesKept'
  BY <1>2, <1>3 DEF NamesKept
<1>6. ASSUME NEW d \in FileChannels PROVE UploadKept(d)' /\ ReadKept(d)' /\ ~ Uploads(d)'
  <2>1. uploading[d].file = NoPart /\ (d # c => d \notin placing) /\ UploadKept(d) /\ ReadKept(d)
    BY <1>1, <1>2, UploadsAlone DEF DiskKept
  <2>. QED
    BY <1>3, <2>1 DEF UploadKept, ReadKept, Uploads
<1>. QED
  BY <1>3, <1>4, <1>5, <1>6 DEF DiskInv, DiskKept

\* A download that is opened, goes on or ends.
LEMMA ReadingDisk ==
    ASSUME DiskInv, NEW c \in FileChannels, NEW r \in [file : FileOrNone, at : Nat],
           reading' = [reading EXCEPT ![c] = r],
           \/ r = NotReading
           \/ r.file = target /\ target # NoPart
           \/ r.file = reading[c].file /\ reading[c].file # NoPart,
           UNCHANGED <<disk, target, partial, uploading, placing, placed, undone>>
    PROVE  DiskInv'
<1>1. DiskTypes /\ DiskKept /\ NamesKept
  BY DEF DiskInv, DiskKept
<1>2. DiskTypes'
  BY <1>1 DEF DiskTypes
<1>3. ASSUME NEW d \in FileChannels PROVE ReadKept(d)'
  <2>1. ReadKept(d) /\ reading'[d] = IF d = c THEN r ELSE reading[d]
    BY <1>1 DEF DiskKept, DiskTypes
  <2>2. CASE d # c
    BY <2>1, <2>2 DEF ReadKept
  <2>3. CASE d = c /\ r = NotReading
    BY <2>1, <2>3 DEF ReadKept, NotReading
  <2>4. CASE d = c /\ r.file = target /\ target # NoPart
    BY <1>1, <2>1, <2>4 DEF ReadKept, NamesKept
  <2>5. CASE d = c /\ r.file = reading[c].file /\ reading[c].file # NoPart
    BY <2>1, <2>5 DEF ReadKept
  <2>. QED
    BY <2>2, <2>3, <2>4, <2>5
<1>. QED
  BY <1>1, <1>2, <1>3 DEF DiskInv, DiskKept, NamesKept, UploadKept, Uploads

LEMMA OpensFileDisk ==
    ASSUME DiskInv, CallTypes, NEW c \in FileChannels, OpensFile(c)
    PROVE  DiskInv' /\ disk' = disk
<1>1. UNCHANGED <<disk, target, partial, uploading, placing, placed, undone>>
  BY DEF OpensFile, fileHistory
<1>2. PICK at : at = Head(requests[c]).offset
  OBVIOUS
<1>3. at \in Nat
  BY <1>2, HeadOfRequests DEF OpensFile, Handling
<1>4. CASE reading' = reading
  BY <1>1, <1>4 DEF DiskInv, DiskKept, DiskTypes, NamesKept, UploadKept, ReadKept, Uploads
<1>5. CASE target # NoPart /\ reading' = [reading EXCEPT ![c] = [file |-> target, at |-> at]]
  <2>1. [file |-> target, at |-> at] \in [file : FileOrNone, at : Nat]
    BY <1>3 DEF DiskInv, DiskTypes
  <2>2. PICK r \in [file : FileOrNone, at : Nat] : r = [file |-> target, at |-> at]
    BY <2>1
  <2>3. r.file = target
    BY <2>2
  <2>. QED
    BY <1>1, <1>5, <2>2, <2>3, ReadingDisk
<1>. QED
  BY <1>2, <1>4, <1>5 DEF OpensFile

LEMMA ReadsOnDisk ==
    ASSUME DiskInv, NEW c \in FileChannels, ReadsOn(c)
    PROVE  DiskInv' /\ disk' = disk
<1>1. UNCHANGED <<disk, target, partial, uploading, placing, placed, undone>> /\ reading[c] # NotReading
  BY DEF ReadsOn, fileHistory
<1>2. reading[c] \in [file : FileOrNone, at : Nat] /\ reading[c].file # NoPart
  BY <1>1 DEF DiskInv, DiskTypes, DiskKept, ReadKept
<1>3. CASE reading' = [reading EXCEPT ![c] = NotReading]
  <2>1. PICK r \in [file : FileOrNone, at : Nat] : r = NotReading
    BY DEF NotReading, FileOrNone
  <2>. QED
    <3>1. reading' = [reading EXCEPT ![c] = r]
      BY <1>3, <2>1
    <3>. QED
      BY <1>1, <2>1, <3>1, ReadingDisk
<1>4. CASE reading' = [reading EXCEPT ![c].at = @ + 1]
  <2>1. PICK r : r = [file |-> reading[c].file, at |-> reading[c].at + 1]
    OBVIOUS
  <2>2. r \in [file : FileOrNone, at : Nat] /\ r.file = reading[c].file
    BY <1>2, <2>1
  <2>3. reading' = [reading EXCEPT ![c] = r]
    <3>1. PICK old, k : old = reading[c] /\ k = old.at + 1
      OBVIOUS
    <3>2. reading' = [reading EXCEPT ![c] = [old EXCEPT !.at = k]]
      BY <1>4, <3>1
    <3>3. [old EXCEPT !.at = k] = r
      BY <1>2, <2>1, <3>1
    <3>. QED
      BY <3>2, <3>3
  <2>. QED
    BY <1>1, <1>2, <2>2, <2>3, ReadingDisk
<1>. QED
  BY <1>3, <1>4 DEF ReadsOn

LEMMA ForgetsUploadDisk ==
    ASSUME DiskInv, placing' \in SUBSET placing,
           uploading' \in [FileChannels -> [file : FileOrNone, size : Nat, written : Nat, acked : Nat]],
           \A c \in FileChannels : uploading'[c] \in {uploading[c], NoUpload},
           reading' \in [FileChannels -> [file : FileOrNone, at : Nat]],
           \A c \in FileChannels : reading'[c] \in {reading[c], NotReading},
           UNCHANGED <<disk, target, partial, placed, undone>>
    PROVE  DiskInv'
<1>1. DiskTypes /\ DiskKept /\ NamesKept
  BY DEF DiskInv, DiskKept
<1>2. DiskTypes'
  BY <1>1 DEF DiskTypes
<1>3. NamesKept'
  BY <1>1 DEF NamesKept
<1>4. ASSUME NEW c \in FileChannels PROVE UploadKept(c)' /\ ReadKept(c)' /\ (Uploads(c)' => Uploads(c))
  <2>1. UploadKept(c) /\ ReadKept(c)
    BY <1>1 DEF DiskKept
  <2>2. UploadKept(c)'
    BY <2>1 DEF UploadKept, NoUpload
  <2>3. ReadKept(c)'
    BY <2>1 DEF ReadKept, NotReading
  <2>. QED
    BY <2>2, <2>3 DEF Uploads, NoUpload
<1>. QED
  BY <1>1, <1>2, <1>3, <1>4 DEF DiskInv, DiskKept

LEMMA RefusesPathDisk ==
    ASSUME DiskInv, NEW c \in FileChannels, RefusesPath(c)
    PROVE  DiskInv' /\ disk' = disk
<1>1. DiskTypes
  BY DEF DiskInv
<1>2. /\ UNCHANGED <<disk, target, partial, placing, reading, placed, undone>>
      /\ \/ uploading' = [uploading EXCEPT ![c] = NoUpload]
         \/ uploading' = [uploading EXCEPT ![c] = uploading[c]]
  BY DEF RefusesPath, fileHistory
<1>3. NoUpload \in [file : FileOrNone, size : Nat, written : Nat, acked : Nat]
  BY DEF NoUpload, FileOrNone
<1>4. /\ uploading' \in [FileChannels -> [file : FileOrNone, size : Nat, written : Nat, acked : Nat]]
      /\ \A d \in FileChannels : uploading'[d] \in {uploading[d], NoUpload}
  BY <1>1, <1>2, <1>3 DEF DiskTypes
<1>5. /\ reading' \in [FileChannels -> [file : FileOrNone, at : Nat]]
      /\ \A d \in FileChannels : reading'[d] \in {reading[d], NotReading}
  BY <1>1, <1>2 DEF DiskTypes
<1>. QED
  BY <1>2, <1>4, <1>5, ForgetsUploadDisk

LEMMA KillHostDisk ==
    ASSUME DiskInv, KillHost
    PROVE  DiskInv' /\ disk' = disk
<1>1. NoUpload \in [file : FileOrNone, size : Nat, written : Nat, acked : Nat]
      /\ NotReading \in [file : FileOrNone, at : Nat]
  BY DEF NoUpload, NotReading, FileOrNone
<1>2. /\ uploading' = [c \in FileChannels |-> NoUpload] /\ reading' = [c \in FileChannels |-> NotReading]
      /\ placing' = {} /\ UNCHANGED <<disk, target, partial, placed, undone>>
  BY DEF KillHost, fileHistory
<1>3. /\ uploading' \in [FileChannels -> [file : FileOrNone, size : Nat, written : Nat, acked : Nat]]
      /\ \A d \in FileChannels : uploading'[d] \in {uploading[d], NoUpload}
      /\ reading' \in [FileChannels -> [file : FileOrNone, at : Nat]]
      /\ \A d \in FileChannels : reading'[d] \in {reading[d], NotReading}
  BY <1>1, <1>2
<1>. QED
  BY <1>2, <1>3, ForgetsUploadDisk

-----------------------------------------------------------------------------
(* Files: what is under way on a channel.                                   *)

One(q, types) == Len(q) = 1 /\ q[1].type \in types
All(q, type) == \A i \in 1 .. Len(q) : q[i].type = type
AllThen(q, type, last) ==
    /\ Len(q) > 0 /\ q[Len(q)].type \in last
    /\ \A i \in 1 .. Len(q) - 1 : q[i].type = type

LEMMA Oldest ==
    ASSUME NEW S, NEW q \in Seq(S), q # <<>>
    PROVE  /\ Len(q) \in Nat /\ Len(q) > 0 /\ Head(q) = q[1] /\ Head(q) \in S
           /\ Tail(q) \in Seq(S) /\ Len(Tail(q)) = Len(q) - 1
           /\ \A i \in 1 .. Len(q) - 1 : Tail(q)[i] = q[i + 1]
           /\ Len(q) = 1 => Tail(q) = <<>>
  OBVIOUS

LEMMA Newest ==
    ASSUME NEW S, NEW q \in Seq(S), NEW m \in S
    PROVE  /\ Append(q, m) \in Seq(S) /\ Len(Append(q, m)) = Len(q) + 1 /\ Len(q) \in Nat
           /\ Append(q, m)[Len(q) + 1] = m
           /\ \A i \in 1 .. Len(q) : Append(q, m)[i] = q[i]
  OBVIOUS

LEMMA EmptyIs == \A S : <<>> \in Seq(S)
  OBVIOUS

LEMMA OneAppended ==
    ASSUME NEW S, NEW q \in Seq(S), q = <<>>, NEW m \in S, NEW types, m.type \in types
    PROVE  Append(q, m) \in Seq(S) /\ One(Append(q, m), types) /\ Append(q, m)[1] = m
  BY DEF One

LEMMA OneTaken ==
    ASSUME NEW S, NEW q \in Seq(S), NEW types, One(q, types)
    PROVE  /\ q # <<>> /\ Head(q) = q[1] /\ Head(q).type \in types /\ Tail(q) = <<>>
<1>1. Len(q) = 1 /\ q[1].type \in types /\ q # <<>>
  BY DEF One
<1>. QED
  BY <1>1, Oldest

LEMMA AllAppended ==
    ASSUME NEW S, NEW q \in Seq(S), NEW m \in S, NEW type, All(q, type)
    PROVE  /\ m.type = type => All(Append(q, m), type)
           /\ \A last : m.type \in last => AllThen(Append(q, m), type, last)
<1>1. PICK w : w = Append(q, m)
  OBVIOUS
<1>2. /\ Len(w) = Len(q) + 1 /\ Len(q) \in Nat /\ w[Len(q) + 1] = m
      /\ \A i \in 1 .. Len(q) : w[i] = q[i]
  BY <1>1, Newest
<1>3. \A i \in 1 .. Len(q) : w[i].type = type
  BY <1>2 DEF All
<1>4. m.type = type => All(w, type)
  BY <1>2, <1>3 DEF All
<1>5. \A last : m.type \in last => AllThen(w, type, last)
  BY <1>2, <1>3 DEF AllThen
<1>. QED
  BY <1>1, <1>4, <1>5

LEMMA AllTaken ==
    ASSUME NEW S, NEW q \in Seq(S), q # <<>>, NEW type, All(q, type)
    PROVE  Head(q).type = type /\ All(Tail(q), type)
<1>1. PICK w : w = Tail(q)
  OBVIOUS
<1>2. /\ Len(q) \in Nat /\ Len(q) > 0 /\ Head(q) = q[1] /\ Len(w) = Len(q) - 1
      /\ \A i \in 1 .. Len(q) - 1 : w[i] = q[i + 1]
  BY <1>1, Oldest
<1>3. All(w, type)
  BY <1>2 DEF All
<1>4. q[1].type = type
  BY <1>2 DEF All
<1>. QED
  BY <1>1, <1>2, <1>3, <1>4

LEMMA AllThenTaken ==
    ASSUME NEW S, NEW q \in Seq(S), NEW type, NEW last, AllThen(q, type, last)
    PROVE  /\ q # <<>>
           /\ \/ Head(q).type \in last /\ Tail(q) = <<>> /\ Len(q) = 1
              \/ Head(q).type = type /\ AllThen(Tail(q), type, last) /\ Len(q) > 1
<1>0. q # <<>>
  BY DEF AllThen
<1>1. PICK w : w = Tail(q)
  OBVIOUS
<1>2. /\ Len(q) \in Nat /\ Len(q) > 0 /\ Head(q) = q[1] /\ Len(w) = Len(q) - 1
      /\ \A i \in 1 .. Len(q) - 1 : w[i] = q[i + 1]
      /\ Len(q) = 1 => w = <<>>
  BY <1>0, <1>1, Oldest
<1>3. CASE Len(q) = 1
  BY <1>0, <1>1, <1>2, <1>3 DEF AllThen
<1>4. CASE Len(q) > 1
  <2>1. q[1].type = type
    BY <1>2, <1>4 DEF AllThen
  <2>2. w[Len(w)] = q[Len(q)] /\ Len(w) > 0
    BY <1>2, <1>4
  <2>3. \A i \in 1 .. Len(w) - 1 : w[i].type = type
    BY <1>2, <1>4 DEF AllThen
  <2>4. AllThen(w, type, last)
    BY <2>2, <2>3 DEF AllThen
  <2>. QED
    BY <1>0, <1>1, <1>2, <1>4, <2>1, <2>4
<1>. QED
  BY <1>2, <1>3, <1>4

-----------------------------------------------------------------------------
HostRests(c) == reading[c] = NotReading /\ c \notin placing

\* One request is on its way, or its only reply.
Answering(c, asked, answers) ==
    /\ HostRests(c)
    /\ \/ One(requests[c], asked) /\ replies[c] = <<>>
       \/ requests[c] = <<>> /\ One(replies[c], answers)

OpeningKept(c) ==
    /\ Answering(c, {"Write"}, {"Ready", "Error"})
    /\ requests[c] = <<>> /\ replies[c][1].type = "Ready" =>
         uploading[c].file # NoPart /\ uploading[c].written = replies[c][1].offset

\* What was sent has been written or is on its way.
SendingKept(c) ==
    /\ HostRests(c)
    /\ All(requests[c], "Chunk") /\ All(replies[c], "Ack")
    /\ uploading[c].file # NoPart
    /\ uploading[c].written + Len(requests[c]) = fcall[c].sent /\ fcall[c].sent <= SIZE

FinishingKept(c) ==
    /\ reading[c] = NotReading
    /\ \/ /\ c \notin placing
          /\ AllThen(requests[c], "Chunk", {"Finish"}) /\ All(replies[c], "Ack")
          /\ uploading[c].file # NoPart /\ uploading[c].written + Len(requests[c]) = SIZE + 1
       \/ c \in placing /\ requests[c] = <<>> /\ All(replies[c], "Ack")
       \/ c \notin placing /\ requests[c] = <<>> /\ AllThen(replies[c], "Ack", {"Done", "Error"})

\* What comes, and what came in this call from the beginning, is of the file that is read.
ComesFrom(c, s) ==
    /\ \A i \in 1 .. Len(replies[c]) : replies[c][i].type = "Chunk" => replies[c][i].byte = s
    /\ reading[c] # NotReading => disk[reading[c].file] = Bytes(s)
    /\ ~ fcall[c].resume => \A i \in 1 .. Len(ours[c]) : ours[c][i] = s

DownloadKept(c) ==
    /\ c \notin placing
    /\ fcall[c].resume => ours[c] # <<>>
    /\ \/ /\ reading[c] = NotReading /\ One(requests[c], {"Read"}) /\ replies[c] = <<>>
          /\ ~ fcall[c].resume => ours[c] = <<>>
       \/ reading[c] = NotReading /\ requests[c] = <<>> /\ One(replies[c], {"Error"})
       \/ /\ requests[c] = <<>>
          /\ \/ reading[c] # NotReading /\ All(replies[c], "Chunk")
             \/ reading[c] = NotReading /\ AllThen(replies[c], "Chunk", {"End"})
          /\ \E s \in Sources : ComesFrom(c, s)

\* A channel on which every call came to its end.
ChannelKept(c) ==
    c \notin stale \cup gone =>
        /\ fcall[c].op = "idle" => HostRests(c) /\ requests[c] = <<>> /\ replies[c] = <<>>
        /\ fcall[c].op = "ask" => Answering(c, {"Ask"}, {"Answer", "Error"})
        /\ fcall[c].op = "upload" /\ fcall[c].stage = "opening" => OpeningKept(c)
        /\ fcall[c].op = "upload" /\ fcall[c].stage = "sending" => SendingKept(c)
        /\ fcall[c].op = "upload" /\ fcall[c].stage = "finishing" => FinishingKept(c)
        /\ fcall[c].op = "download" => DownloadKept(c)

CopyKept(c) ==
    /\ c \in gone => fcall[c].op = "idle"
    /\ c \notin stale \cup renewed => OfOne(ours[c]) /\ (dest[c] # <<>> => Whole(dest[c]))

FilesKept ==
    /\ DiskInv /\ CallTypes
    /\ \A c \in FileChannels : ChannelKept(c) /\ CopyKept(c)

FilesInv == mixed \in BOOLEAN /\ (~ mixed => FilesKept)

\* A step of another channel.
Apart(c) ==
    /\ requests'[c] = requests[c] /\ replies'[c] = replies[c] /\ fcall'[c] = fcall[c]
    /\ ours'[c] = ours[c] /\ dest'[c] = dest[c]
    /\ uploading'[c] = uploading[c] /\ reading'[c] = reading[c]
    /\ (c \in placing') = (c \in placing) /\ (c \in gone') = (c \in gone)
    /\ (c \in stale') = (c \in stale) /\ (c \in renewed') = (c \in renewed)
    /\ reading[c] # NotReading => disk'[reading[c].file] = disk[reading[c].file]

LEMMA ApartKeeps ==
    ASSUME NEW c \in FileChannels, Apart(c), ChannelKept(c), CopyKept(c)
    PROVE  ChannelKept(c)' /\ CopyKept(c)'
<1>1. CopyKept(c)'
  BY DEF Apart, CopyKept, Whole, OfOne
<1>2. (\E s \in Sources : ComesFrom(c, s)) => (\E s \in Sources : ComesFrom(c, s))'
  BY DEF Apart, ComesFrom
<1>3. DownloadKept(c) => DownloadKept(c)'
  BY <1>2 DEF Apart, DownloadKept, One, All, AllThen
<1>4. FinishingKept(c) => FinishingKept(c)'
  BY DEF Apart, FinishingKept, All, AllThen
<1>5. SendingKept(c) => SendingKept(c)'
  BY DEF Apart, SendingKept, HostRests, All
<1>6. OpeningKept(c) => OpeningKept(c)'
  BY DEF Apart, OpeningKept, Answering, HostRests, One
<1>7. Answering(c, {"Ask"}, {"Answer", "Error"}) => Answering(c, {"Ask"}, {"Answer", "Error"})'
  BY DEF Apart, Answering, HostRests, One
<1>8. HostRests(c) => HostRests(c)'
  BY DEF Apart, HostRests
<1>9. /\ requests'[c] = requests[c] /\ replies'[c] = replies[c] /\ fcall'[c] = fcall[c]
      /\ (c \in stale' \cup gone') = (c \in stale \cup gone)
  BY DEF Apart
<1>10. ChannelKept(c)'
  BY <1>3, <1>4, <1>5, <1>6, <1>7, <1>8, <1>9 DEF ChannelKept
<1>. QED
  BY <1>1, <1>10

LEMMA OneStep ==
    ASSUME FilesKept, NEW c \in FileChannels, DiskInv', CallTypes',
           \A d \in FileChannels : d # c => Apart(d),
           ChannelKept(c)', CopyKept(c)'
    PROVE  FilesKept'
  BY ApartKeeps DEF FilesKept

OnlyAt(c) ==
    \A d \in FileChannels : d # c =>
        /\ requests'[d] = requests[d] /\ replies'[d] = replies[d] /\ fcall'[d] = fcall[d]
        /\ ours'[d] = ours[d] /\ dest'[d] = dest[d]
        /\ (d \in gone') = (d \in gone) /\ (d \in stale') = (d \in stale)
        /\ (d \in renewed') = (d \in renewed)

LEMMA ClientStep ==
    ASSUME FilesKept, NEW c \in FileChannels, UNCHANGED <<hostFiles, placed, undone>>,
           OnlyAt(c), CallTypes', ChannelKept(c)', CopyKept(c)'
    PROVE  FilesKept'
<1>1. DiskInv'
  BY DEF FilesKept, hostFiles, DiskInv, DiskKept, DiskTypes, NamesKept, UploadKept, ReadKept, Uploads
<1>2. \A d \in FileChannels : d # c => Apart(d)
  BY DEF OnlyAt, hostFiles, Apart
<1>. QED
  BY <1>1, <1>2, OneStep

LEMMA CallSet ==
    ASSUME CallTypes, NEW c \in FileChannels, NEW call \in FileCalls,
           call.op = "upload" => call.source \in Sources /\ call.stage # "",
           fcall' = [fcall EXCEPT ![c] = call]
    PROVE  /\ fcall' \in [FileChannels -> FileCalls] /\ fcall'[c] = call
           /\ \A d \in FileChannels : d # c => fcall'[d] = fcall[d]
           /\ \A d \in FileChannels : fcall'[d].op = "upload" => fcall'[d].source \in Sources /\ fcall'[d].stage # ""
  BY DEF CallTypes

LEMMA NoCallIs == NoCall \in FileCalls /\ NoCall.op = "idle"
  BY DEF NoCall, FileCalls

LEMMA CallReturns ==
    ASSUME CallTypes, NEW c \in FileChannels, Returns(c)
    PROVE  /\ fcall' \in [FileChannels -> FileCalls] /\ fcall'[c].op = "idle"
           /\ \A d \in FileChannels : d # c => fcall'[d] = fcall[d]
           /\ \A d \in FileChannels : fcall'[d].op = "upload" => fcall'[d].source \in Sources /\ fcall'[d].stage # ""
<1>1. PICK call : call = NoCall
  OBVIOUS
<1>2. fcall' = [fcall EXCEPT ![c] = call] /\ call \in FileCalls /\ call.op = "idle"
  BY <1>1, NoCallIs DEF Returns
<1>. QED
  BY <1>2, CallSet

LEMMA Requested ==
    ASSUME CallTypes, NEW c \in FileChannels, NEW r \in HostRequests, Request(c, r)
    PROVE  /\ requests' \in [FileChannels -> Seq(HostRequests)] /\ requests'[c] = Append(requests[c], r)
           /\ \A d \in FileChannels : d # c => requests'[d] = requests[d]
           /\ requests[c] \in Seq(HostRequests)
<1>1. requests \in [FileChannels -> Seq(HostRequests)]
  BY DEF CallTypes
<1>2. PICK q : q = Append(requests[c], r)
  OBVIOUS
<1>3. q \in Seq(HostRequests)
  BY <1>1, <1>2, Newest
<1>4. requests' = [requests EXCEPT ![c] = q]
  BY <1>2 DEF Request
<1>. QED
  BY <1>1, <1>2, <1>3, <1>4

LEMMA Replied ==
    ASSUME CallTypes, NEW c \in FileChannels, NEW types, Reply(c, types)
    PROVE  /\ replies' \in [FileChannels -> Seq(HostReplies)] /\ replies'[c] = Tail(replies[c])
           /\ \A d \in FileChannels : d # c => replies'[d] = replies[d]
           /\ replies[c] \in Seq(HostReplies) /\ replies[c] # <<>> /\ fcall[c].op # "idle"
           /\ Head(replies[c]) \in HostReplies /\ Head(replies[c]).type \in types
<1>1. replies \in [FileChannels -> Seq(HostReplies)] /\ replies[c] # <<>>
  BY DEF CallTypes, Reply
<1>2. PICK q : q = Tail(replies[c])
  OBVIOUS
<1>3. q \in Seq(HostReplies) /\ Head(replies[c]) \in HostReplies
  BY <1>1, <1>2, Oldest
<1>4. replies' = [replies EXCEPT ![c] = q]
  BY <1>2 DEF Reply
<1>. QED
  BY <1>1, <1>2, <1>3, <1>4 DEF Reply

\* A call begins where nothing is under way.
LEMMA CallBegins ==
    ASSUME FilesKept, NEW c \in FileChannels, NEW call \in FileCalls,
           call.op = "upload" => call.source \in Sources /\ call.stage # "",
           Begins(c, call)
    PROVE  /\ fcall' \in [FileChannels -> FileCalls] /\ fcall'[c] = call
           /\ \A d \in FileChannels : d # c => fcall'[d] = fcall[d]
           /\ \A d \in FileChannels : fcall'[d].op = "upload" => fcall'[d].source \in Sources /\ fcall'[d].stage # ""
           /\ c \notin gone /\ UNCHANGED <<hostFiles, replies, gone, dest>>
           /\ c \notin stale => HostRests(c) /\ requests[c] = <<>> /\ replies[c] = <<>>
<1>1. CallTypes /\ ChannelKept(c)
  BY DEF FilesKept
<1>2. fcall' = [fcall EXCEPT ![c] = call] /\ fcall[c].op = "idle" /\ c \notin gone
      /\ UNCHANGED <<hostFiles, replies, gone, dest>>
  BY DEF Begins
<1>. QED
  BY <1>1, <1>2, CallSet DEF ChannelKept

LEMMA FirstRequest ==
    ASSUME FilesKept, NEW c \in FileChannels, NEW call \in FileCalls,
           call.op = "upload" => call.source \in Sources /\ call.stage # "",
           Begins(c, call), NEW r \in HostRequests, Request(c, r)
    PROVE  /\ fcall' \in [FileChannels -> FileCalls] /\ fcall'[c] = call
           /\ \A d \in FileChannels : d # c => fcall'[d] = fcall[d] /\ requests'[d] = requests[d]
           /\ \A d \in FileChannels : fcall'[d].op = "upload" => fcall'[d].source \in Sources /\ fcall'[d].stage # ""
           /\ c \notin gone /\ UNCHANGED <<hostFiles, replies, gone, dest>>
           /\ requests' \in [FileChannels -> Seq(HostRequests)]
           /\ c \notin stale => HostRests(c)' /\ One(requests'[c], {r.type}) /\ replies'[c] = <<>>
<1>1. CallTypes
  BY DEF FilesKept
<1>2. /\ fcall' \in [FileChannels -> FileCalls] /\ fcall'[c] = call
      /\ \A d \in FileChannels : d # c => fcall'[d] = fcall[d]
      /\ \A d \in FileChannels : fcall'[d].op = "upload" => fcall'[d].source \in Sources /\ fcall'[d].stage # ""
      /\ c \notin gone /\ UNCHANGED <<hostFiles, replies, gone, dest>>
      /\ c \notin stale => HostRests(c) /\ requests[c] = <<>> /\ replies[c] = <<>>
  BY CallBegins
<1>3. /\ requests' \in [FileChannels -> Seq(HostRequests)] /\ requests'[c] = Append(requests[c], r)
      /\ \A d \in FileChannels : d # c => requests'[d] = requests[d]
      /\ requests[c] \in Seq(HostRequests)
  BY <1>1, Requested
<1>4. requests[c] = <<>> => One(requests'[c], {r.type})
  <2>1. PICK q \in Seq(HostRequests) : q = requests[c]
    BY <1>3
  <2>2. q = <<>> => One(Append(q, r), {r.type})
    BY OneAppended
  <2>. QED
    BY <1>3, <2>1, <2>2
<1>5. HostRests(c) => HostRests(c)'
  BY <1>2 DEF HostRests, hostFiles
<1>. QED
  BY <1>2, <1>3, <1>4, <1>5

LEMMA AskAboutKeeps ==
    ASSUME FilesKept, NEW c \in FileChannels, AskAbout(c)
    PROVE  FilesKept'
<1>1. PICK call : call = [NoCall EXCEPT !.op = "ask"]
  OBVIOUS
<1>2. call \in FileCalls /\ call.op = "ask"
  BY <1>1 DEF NoCall, FileCalls
<1>3. Begins(c, call) /\ UNCHANGED <<ours, fileHistory>>
  BY <1>1 DEF AskAbout
<1>4. PICK r : r = [type |-> "Ask"]
  OBVIOUS
<1>5. r \in HostRequests /\ r.type = "Ask" /\ Request(c, r)
  BY <1>4 DEF AskAbout, HostRequests
<1>6. CallTypes /\ CopyKept(c)
  BY DEF FilesKept
<1>7. /\ fcall' \in [FileChannels -> FileCalls] /\ fcall'[c] = call
      /\ \A d \in FileChannels : d # c => fcall'[d] = fcall[d] /\ requests'[d] = requests[d]
      /\ \A d \in FileChannels : fcall'[d].op = "upload" => fcall'[d].source \in Sources /\ fcall'[d].stage # ""
      /\ c \notin gone /\ UNCHANGED <<hostFiles, replies, gone, dest>>
      /\ requests' \in [FileChannels -> Seq(HostRequests)]
      /\ c \notin stale => HostRests(c)' /\ One(requests'[c], {r.type}) /\ replies'[c] = <<>>
  BY <1>2, <1>3, <1>5, FirstRequest
<1>9. CallTypes'
  BY <1>3, <1>6, <1>7 DEF CallTypes, fileHistory
<1>11. ChannelKept(c)'
  BY <1>2, <1>3, <1>5, <1>7 DEF ChannelKept, Answering, fileHistory
<1>12. CopyKept(c)'
  BY <1>3, <1>6, <1>7 DEF CopyKept, Whole, OfOne, fileHistory
<1>13. OnlyAt(c)
  BY <1>3, <1>7 DEF OnlyAt, fileHistory
<1>. QED
  BY <1>3, <1>7, <1>9, <1>11, <1>12, <1>13, ClientStep DEF fileHistory

LEMMA BeginUploadKeeps ==
    ASSUME FilesKept, NEW c \in FileChannels, NEW s \in Sources, NEW resume \in BOOLEAN,
           BeginUpload(c, s, resume)
    PROVE  FilesKept'
<1>1. PICK call : call = [NoCall EXCEPT !.op = "upload", !.source = s, !.stage = "opening"]
  OBVIOUS
<1>2. call \in FileCalls /\ call.op = "upload" /\ call.source \in Sources /\ call.stage = "opening"
  BY <1>1 DEF NoCall, FileCalls
<1>3. Begins(c, call) /\ UNCHANGED <<ours, fileHistory>>
  BY <1>1 DEF BeginUpload
<1>4. PICK r : r = [type |-> "Write", size |-> SIZE, resume |-> resume]
  OBVIOUS
<1>5. r \in HostRequests /\ r.type = "Write" /\ Request(c, r)
  BY <1>4 DEF BeginUpload, HostRequests
<1>6. CallTypes /\ CopyKept(c)
  BY DEF FilesKept
<1>7. /\ fcall' \in [FileChannels -> FileCalls] /\ fcall'[c] = call
      /\ \A d \in FileChannels : d # c => fcall'[d] = fcall[d] /\ requests'[d] = requests[d]
      /\ \A d \in FileChannels : fcall'[d].op = "upload" => fcall'[d].source \in Sources /\ fcall'[d].stage # ""
      /\ c \notin gone /\ UNCHANGED <<hostFiles, replies, gone, dest>>
      /\ requests' \in [FileChannels -> Seq(HostRequests)]
      /\ c \notin stale => HostRests(c)' /\ One(requests'[c], {r.type}) /\ replies'[c] = <<>>
  BY <1>2, <1>3, <1>5, FirstRequest
<1>9. CallTypes'
  BY <1>3, <1>6, <1>7 DEF CallTypes, fileHistory
<1>10. c \notin stale => OpeningKept(c)'
  <2>1. One(requests'[c], {r.type}) => requests'[c] # <<>>
    BY <1>7, OneTaken
  <2>. QED
    BY <1>5, <1>7, <2>1 DEF OpeningKept, Answering
<1>11. ChannelKept(c)'
  BY <1>2, <1>3, <1>7, <1>10 DEF ChannelKept, fileHistory
<1>12. CopyKept(c)'
  BY <1>3, <1>6, <1>7 DEF CopyKept, Whole, OfOne, fileHistory
<1>13. OnlyAt(c)
  BY <1>3, <1>7 DEF OnlyAt, fileHistory
<1>. QED
  BY <1>3, <1>7, <1>9, <1>11, <1>12, <1>13, ClientStep DEF fileHistory

LEMMA BeginDownloadKeeps ==
    ASSUME FilesKept, NEW c \in FileChannels, NEW resume \in BOOLEAN, BeginDownload(c, resume)
    PROVE  FilesKept'
<1>0. CallTypes /\ CopyKept(c) /\ ours[c] \in Seq(Sources)
  BY DEF FilesKept, CallTypes
<1>1. PICK from : from = IF resume THEN Len(ours[c]) ELSE 0
  OBVIOUS
<1>2. from \in Nat /\ (from > 0 => ours[c] # <<>>)
  <2>1. PICK q \in Seq(Sources) : q = ours[c]
    BY <1>0
  <2>2. Len(q) \in Nat /\ (Len(q) > 0 => q # <<>>)
    OBVIOUS
  <2>. QED
    BY <1>1, <2>1, <2>2
<1>3. PICK call : call = [NoCall EXCEPT !.op = "download", !.resume = from > 0]
  OBVIOUS
<1>4. call \in FileCalls /\ call.op = "download" /\ call.resume = (from > 0)
  <2>1. CASE from > 0
    <3>1. call = [NoCall EXCEPT !.op = "download", !.resume = TRUE]
      BY <1>3, <2>1
    <3>. QED
      BY <2>1, <3>1 DEF NoCall, FileCalls
  <2>2. CASE ~ (from > 0)
    <3>1. (from > 0) = FALSE
      BY <1>2, <2>2
    <3>2. call = [NoCall EXCEPT !.op = "download", !.resume = FALSE]
      BY <1>3, <3>1, Zenon
    <3>3. call \in FileCalls /\ call.op = "download" /\ call.resume = FALSE
      BY <3>2 DEF NoCall, FileCalls
    <3>. QED
      BY <3>1, <3>3, Zenon
  <2>. QED
    BY <2>1, <2>2
<1>5. PICK r : r = [type |-> "Read", offset |-> from]
  OBVIOUS
<1>6. /\ Begins(c, call) /\ Request(c, r) /\ UNCHANGED fileHistory
      /\ ours' = [ours EXCEPT ![c] = IF from = 0 THEN <<>> ELSE @]
  <2>1. Begins(c, [NoCall EXCEPT !.op = "download", !.resume = (IF resume THEN Len(ours[c]) ELSE 0) > 0])
    BY DEF BeginDownload
  <2>2. Request(c, [type |-> "Read", offset |-> IF resume THEN Len(ours[c]) ELSE 0])
    BY DEF BeginDownload
  <2>3. ours' = [ours EXCEPT ![c] = IF (IF resume THEN Len(ours[c]) ELSE 0) = 0 THEN <<>> ELSE @]
    BY DEF BeginDownload
  <2>4. UNCHANGED fileHistory
    BY DEF BeginDownload
  <2>5. Begins(c, call)
    BY <1>1, <1>3, <2>1
  <2>6. Request(c, r)
    BY <1>1, <1>5, <2>2
  <2>7. ours' = [ours EXCEPT ![c] = IF from = 0 THEN <<>> ELSE @]
    BY <1>1, <2>3
  <2>. QED
    BY <2>4, <2>5, <2>6, <2>7
<1>7. r \in HostRequests /\ r.type = "Read"
  BY <1>2, <1>5 DEF HostRequests
<1>8. /\ fcall' \in [FileChannels -> FileCalls] /\ fcall'[c] = call
      /\ \A d \in FileChannels : d # c => fcall'[d] = fcall[d] /\ requests'[d] = requests[d]
      /\ \A d \in FileChannels : fcall'[d].op = "upload" => fcall'[d].source \in Sources /\ fcall'[d].stage # ""
      /\ c \notin gone /\ UNCHANGED <<hostFiles, replies, gone, dest>>
      /\ requests' \in [FileChannels -> Seq(HostRequests)]
      /\ c \notin stale => HostRests(c)' /\ One(requests'[c], {r.type}) /\ replies'[c] = <<>>
  BY <1>4, <1>6, <1>7, FirstRequest
<1>9. /\ ours' \in [FileChannels -> Seq(Sources)] /\ ours'[c] = (IF from = 0 THEN <<>> ELSE ours[c])
      /\ \A d \in FileChannels : d # c => ours'[d] = ours[d]
  <2>1. PICK q \in Seq(Sources) : q = IF from = 0 THEN <<>> ELSE ours[c]
    BY <1>0, EmptyIs
  <2>2. ours' = [ours EXCEPT ![c] = q] /\ ours \in [FileChannels -> Seq(Sources)]
    BY <1>0, <1>6, <2>1 DEF CallTypes
  <2>. QED
    BY <2>1, <2>2
<1>10. CallTypes'
  BY <1>0, <1>6, <1>8, <1>9 DEF CallTypes, fileHistory
<1>11. c \notin stale => DownloadKept(c)'
  <2>1. (from > 0) => ours'[c] # <<>>
    BY <1>2, <1>9
  <2>2. ~ (from > 0) => ours'[c] = <<>>
    BY <1>2, <1>9
  <2>. QED
    BY <1>4, <1>7, <1>8, <2>1, <2>2 DEF DownloadKept, HostRests
<1>12. ChannelKept(c)'
  BY <1>4, <1>6, <1>8, <1>11 DEF ChannelKept, fileHistory
<1>13. CopyKept(c)'
  <2>1. OfOne(<<>>)
    BY DEF OfOne
  <2>2. OfOne(ours[c]) => OfOne(ours'[c])
    BY <1>9, <2>1
  <2>3. UNCHANGED <<stale, gone, renewed, dest>>
    BY <1>6, <1>8 DEF fileHistory
  <2>. QED
    BY <1>0, <1>8, <2>2, <2>3 DEF CopyKept, Whole
<1>14. OnlyAt(c)
  BY <1>6, <1>8, <1>9 DEF OnlyAt, fileHistory
<1>. QED
  BY <1>6, <1>8, <1>10, <1>12, <1>13, <1>14, ClientStep DEF fileHistory

LEMMA ReplyIs ==
    ASSUME NEW r \in HostReplies
    PROVE  /\ r.type = "Ready" => r.offset \in 0 .. SIZE
           /\ r.type = "Ack" => r.written \in Nat
           /\ r.type = "Chunk" => r.byte \in Sources
           /\ r.type = "End" => r.size = SIZE
  BY DEF HostReplies

\* A call that ends leaves nothing under way, unless it was given up on or closed.
LEMMA CallEnds ==
    ASSUME FilesKept, NEW c \in FileChannels, Returns(c),
           UNCHANGED <<hostFiles, requests, gone, placed, undone, mixed>>,
           replies' \in [FileChannels -> Seq(HostReplies)], OnlyAt(c),
           ours' \in [FileChannels -> Seq(Sources)], dest' \in [FileChannels -> Seq(Sources)],
           stale' \in SUBSET FileChannels, stale \subseteq stale', UNCHANGED renewed,
           c \notin stale' \cup gone => HostRests(c) /\ requests[c] = <<>> /\ replies'[c] = <<>>,
           c \notin stale \cup renewed => OfOne(ours'[c]) /\ (dest'[c] # <<>> => Whole(dest'[c]))
    PROVE  FilesKept'
<1>1. CallTypes
  BY DEF FilesKept
<1>2. /\ fcall' \in [FileChannels -> FileCalls] /\ fcall'[c].op = "idle"
      /\ \A d \in FileChannels : d # c => fcall'[d] = fcall[d]
      /\ \A d \in FileChannels : fcall'[d].op = "upload" => fcall'[d].source \in Sources /\ fcall'[d].stage # ""
  BY <1>1, CallReturns
<1>3. CallTypes'
  BY <1>1, <1>2 DEF CallTypes
<1>4. HostRests(c)' = HostRests(c) /\ requests'[c] = requests[c]
  BY DEF HostRests, hostFiles
<1>5. ChannelKept(c)'
  BY <1>2, <1>4 DEF ChannelKept
<1>6. CopyKept(c)'
  BY <1>2 DEF CopyKept, OfOne, Whole
<1>. QED
  BY <1>3, <1>5, <1>6, ClientStep

LEMMA EndsCallKeeps ==
    ASSUME FilesKept, NEW c \in FileChannels, EndsCall(c)
    PROVE  FilesKept'
<1>1. CallTypes /\ ChannelKept(c) /\ CopyKept(c)
  BY DEF FilesKept
<1>2. /\ Reply(c, {"Answer", "Ready", "Ack", "Done", "Chunk", "End", "Error"}) /\ Returns(c)
      /\ UNCHANGED <<hostFiles, requests, gone, fcalls, ours, dest, kills, fileHistory>>
      /\ ~ \/ fcall[c].op = "upload" /\ fcall[c].stage = "opening" /\ Head(replies[c]).type = "Ready"
           \/ fcall[c].op = "upload" /\ fcall[c].stage # "opening" /\ Head(replies[c]).type = "Ack"
           \/ fcall[c].op = "download" /\ Head(replies[c]).type \in {"Chunk", "End"}
  BY DEF EndsCall
<1>3. /\ replies' \in [FileChannels -> Seq(HostReplies)] /\ replies'[c] = Tail(replies[c])
      /\ \A d \in FileChannels : d # c => replies'[d] = replies[d]
      /\ replies[c] \in Seq(HostReplies) /\ replies[c] # <<>> /\ fcall[c].op # "idle"
      /\ Head(replies[c]) \in HostReplies
      /\ Head(replies[c]).type \in {"Answer", "Ready", "Ack", "Done", "Chunk", "End", "Error"}
  BY <1>1, <1>2, Replied
<1>4. PICK q \in Seq(HostReplies) : q = replies[c]
  BY <1>3
<1>5. PICK o \in FileCalls : o = fcall[c]
  BY <1>1 DEF CallTypes
<1>6. o.op \in {"idle", "ask", "upload", "download"} /\ o.stage \in {"", "opening", "sending", "finishing"}
  BY <1>5 DEF FileCalls
<1>7. o.op = "upload" => o.stage # ""
  BY <1>1, <1>5 DEF CallTypes
<1>8. q # <<>> /\ \A types : One(q, types) => Head(q).type \in types /\ Tail(q) = <<>>
  BY <1>3, <1>4, OneTaken
<1>9. ASSUME c \notin stale \cup gone
      PROVE  HostRests(c) /\ requests[c] = <<>> /\ Tail(q) = <<>>
  <2>1. CASE o.op = "ask"
    BY <1>1, <1>4, <1>5, <1>8, <1>9, <2>1 DEF ChannelKept, Answering
  <2>2. CASE o.op = "upload" /\ o.stage = "opening"
    BY <1>1, <1>4, <1>5, <1>8, <1>9, <2>2 DEF ChannelKept, OpeningKept, Answering
  <2>3. CASE o.op = "upload" /\ o.stage = "sending"
    <3>1. All(q, "Ack")
      BY <1>1, <1>4, <1>5, <1>9, <2>3 DEF ChannelKept, SendingKept
    <3>2. Head(q).type = "Ack"
      BY <1>8, <3>1, AllTaken
    <3>. QED
      BY <1>2, <1>4, <1>5, <2>3, <3>2
  <2>4. CASE o.op = "upload" /\ o.stage = "finishing"
    <3>1. FinishingKept(c)
      BY <1>1, <1>5, <1>9, <2>4 DEF ChannelKept
    <3>2. Head(q).type # "Ack"
      BY <1>2, <1>4, <1>5, <2>4
    <3>3. ~ All(q, "Ack")
      BY <1>8, <3>2, AllTaken
    <3>4. c \notin placing /\ requests[c] = <<>> /\ AllThen(q, "Ack", {"Done", "Error"}) /\ reading[c] = NotReading
      BY <1>4, <3>1, <3>3 DEF FinishingKept
    <3>5. Tail(q) = <<>>
      BY <3>2, <3>4, AllThenTaken
    <3>. QED
      BY <3>4, <3>5 DEF HostRests
  <2>5. CASE o.op = "download"
    <3>1. DownloadKept(c)
      BY <1>1, <1>5, <1>9, <2>5 DEF ChannelKept
    <3>2. Head(q).type \notin {"Chunk", "End"}
      BY <1>2, <1>4, <1>5, <2>5
    <3>3. ~ All(q, "Chunk")
      BY <1>8, <3>2, AllTaken
    <3>4. ~ AllThen(q, "Chunk", {"End"})
      BY <3>2, AllThenTaken
    <3>. QED
      BY <1>4, <1>8, <3>1, <3>3, <3>4 DEF DownloadKept, HostRests
  <2>. QED
    BY <1>3, <1>5, <1>6, <1>7, <2>1, <2>2, <2>3, <2>4, <2>5
<1>10. OnlyAt(c)
  <2>1. \A d \in FileChannels : d # c => fcall'[d] = fcall[d]
    BY <1>1, <1>2, CallReturns
  <2>. QED
    BY <1>2, <1>3, <2>1 DEF OnlyAt, fileHistory
<1>11. /\ ours' \in [FileChannels -> Seq(Sources)] /\ dest' \in [FileChannels -> Seq(Sources)]
       /\ stale' \in SUBSET FileChannels /\ stale \subseteq stale' /\ UNCHANGED renewed
       /\ UNCHANGED <<hostFiles, requests, gone, placed, undone, mixed>>
  BY <1>1, <1>2 DEF CallTypes, fileHistory
<1>12. c \notin stale' \cup gone => HostRests(c) /\ requests[c] = <<>> /\ replies'[c] = <<>>
  BY <1>3, <1>4, <1>9, <1>11
<1>13. c \notin stale \cup renewed => OfOne(ours'[c]) /\ (dest'[c] # <<>> => Whole(dest'[c]))
  BY <1>1, <1>2 DEF CopyKept
<1>. QED
  BY <1>2, <1>3, <1>10, <1>11, <1>12, <1>13, CallEnds

LEMMA TakeEndKeeps ==
    ASSUME FilesKept, NEW c \in FileChannels, TakeEnd(c)
    PROVE  FilesKept'
<1>1. CallTypes /\ ChannelKept(c) /\ CopyKept(c) /\ ours[c] \in Seq(Sources) /\ dest[c] \in Seq(Sources)
  BY DEF FilesKept, CallTypes
<1>2. /\ Reply(c, {"End"}) /\ Returns(c) /\ fcall[c].op = "download"
      /\ UNCHANGED <<hostFiles, requests, gone, fcalls, kills, fileHistory>>
  BY DEF TakeEnd
<1>3. /\ replies' \in [FileChannels -> Seq(HostReplies)] /\ replies'[c] = Tail(replies[c])
      /\ \A d \in FileChannels : d # c => replies'[d] = replies[d]
      /\ replies[c] \in Seq(HostReplies) /\ replies[c] # <<>> /\ fcall[c].op # "idle"
      /\ Head(replies[c]) \in HostReplies /\ Head(replies[c]).type \in {"End"}
  BY <1>1, <1>2, Replied
<1>4. PICK q \in Seq(HostReplies) : q = replies[c]
  BY <1>3
<1>5. PICK got \in Seq(Sources) : got = ours[c]
  BY <1>1
<1>6. Head(replies[c]).size = SIZE
  BY <1>3, ReplyIs
<1>7. \/ Len(got) = SIZE /\ dest' = [dest EXCEPT ![c] = got] /\ ours' = [ours EXCEPT ![c] = <<>>]
      \/ dest' = dest /\ ours' = ours
  BY <1>5, <1>6 DEF TakeEnd
<1>8. /\ ours' \in [FileChannels -> Seq(Sources)] /\ dest' \in [FileChannels -> Seq(Sources)]
      /\ \A d \in FileChannels : d # c => ours'[d] = ours[d] /\ dest'[d] = dest[d]
      /\ \/ Len(got) = SIZE /\ dest'[c] = got /\ ours'[c] = <<>>
         \/ dest'[c] = dest[c] /\ ours'[c] = ours[c]
  <2>1. ours \in [FileChannels -> Seq(Sources)] /\ dest \in [FileChannels -> Seq(Sources)]
    BY <1>1 DEF CallTypes
  <2>2. PICK none \in Seq(Sources) : none = <<>>
    BY EmptyIs
  <2>3. \/ Len(got) = SIZE /\ dest' = [dest EXCEPT ![c] = got] /\ ours' = [ours EXCEPT ![c] = none]
        \/ dest' = dest /\ ours' = ours
    BY <1>7, <2>2
  <2>. QED
    BY <2>1, <2>2, <2>3
<1>9. ASSUME c \notin stale \cup gone
      PROVE  HostRests(c) /\ requests[c] = <<>> /\ Tail(q) = <<>>
  <2>1. DownloadKept(c)
    BY <1>1, <1>2, <1>9 DEF ChannelKept
  <2>2. q # <<>> /\ Head(q).type = "End"
    BY <1>3, <1>4
  <2>3. ~ All(q, "Chunk")
    BY <2>2, AllTaken
  <2>4. ~ One(q, {"Error"})
    BY <2>2, OneTaken
  <2>5. reading[c] = NotReading /\ c \notin placing /\ requests[c] = <<>> /\ AllThen(q, "Chunk", {"End"})
    BY <1>4, <2>1, <2>2, <2>3, <2>4 DEF DownloadKept
  <2>6. Tail(q) = <<>>
    BY <2>2, <2>5, AllThenTaken
  <2>. QED
    BY <2>5, <2>6 DEF HostRests
<1>10. OnlyAt(c)
  <2>1. \A d \in FileChannels : d # c => fcall'[d] = fcall[d]
    BY <1>1, <1>2, CallReturns
  <2>. QED
    BY <1>2, <1>3, <1>8, <2>1 DEF OnlyAt, fileHistory
<1>11. /\ stale' \in SUBSET FileChannels /\ stale \subseteq stale' /\ UNCHANGED renewed
       /\ UNCHANGED <<hostFiles, requests, gone, placed, undone, mixed>>
  BY <1>1, <1>2 DEF CallTypes, fileHistory
<1>12. c \notin stale' \cup gone => HostRests(c) /\ requests[c] = <<>> /\ replies'[c] = <<>>
  BY <1>3, <1>4, <1>9, <1>11
<1>13. ASSUME c \notin stale \cup renewed PROVE OfOne(ours'[c]) /\ (dest'[c] # <<>> => Whole(dest'[c]))
  <2>1. OfOne(got) /\ (dest[c] # <<>> => Whole(dest[c]))
    BY <1>1, <1>5, <1>13 DEF CopyKept
  <2>2. Len(got) = SIZE => Whole(got)
    BY <2>1, WholeIs
  <2>3. OfOne(<<>>)
    BY DEF OfOne
  <2>. QED
    BY <1>5, <1>8, <2>1, <2>2, <2>3
<1>. QED
  BY <1>2, <1>3, <1>8, <1>10, <1>11, <1>12, <1>13, CallEnds

LEMMA GiveUpCallKeeps ==
    ASSUME FilesKept, NEW c \in FileChannels, GiveUpCall(c)
    PROVE  FilesKept'
<1>1. CallTypes /\ CopyKept(c)
  BY DEF FilesKept
<1>2. /\ Returns(c) /\ stale' = stale \cup {c}
      /\ UNCHANGED <<hostFiles, requests, replies, gone, ours, dest, mixed, renewed, placed, undone>>
  BY DEF GiveUpCall
<1>3. /\ replies' \in [FileChannels -> Seq(HostReplies)]
      /\ ours' \in [FileChannels -> Seq(Sources)] /\ dest' \in [FileChannels -> Seq(Sources)]
      /\ stale' \in SUBSET FileChannels /\ stale \subseteq stale' /\ c \in stale'
  BY <1>1, <1>2 DEF CallTypes
<1>4. OnlyAt(c)
  <2>1. \A d \in FileChannels : d # c => fcall'[d] = fcall[d]
    BY <1>1, <1>2, CallReturns
  <2>. QED
    BY <1>2, <2>1 DEF OnlyAt
<1>5. c \notin stale \cup renewed => OfOne(ours'[c]) /\ (dest'[c] # <<>> => Whole(dest'[c]))
  BY <1>1, <1>2 DEF CopyKept
<1>. QED
  BY <1>2, <1>3, <1>4, <1>5, CallEnds

LEMMA CloseFilesKeeps ==
    ASSUME FilesKept, NEW c \in FileChannels, CloseFiles(c)
    PROVE  FilesKept'
<1>1. CallTypes /\ CopyKept(c)
  BY DEF FilesKept
<1>2. /\ Returns(c) /\ gone' = gone \cup {c} /\ replies' = [replies EXCEPT ![c] = <<>>]
      /\ UNCHANGED <<hostFiles, requests, ours, dest, fileHistory>>
  BY DEF CloseFiles
<1>3. /\ fcall' \in [FileChannels -> FileCalls] /\ fcall'[c].op = "idle"
      /\ \A d \in FileChannels : d # c => fcall'[d] = fcall[d]
      /\ \A d \in FileChannels : fcall'[d].op = "upload" => fcall'[d].source \in Sources /\ fcall'[d].stage # ""
  BY <1>1, <1>2, CallReturns
<1>4. replies' \in [FileChannels -> Seq(HostReplies)] /\ \A d \in FileChannels : d # c => replies'[d] = replies[d]
  <2>1. PICK none \in Seq(HostReplies) : none = <<>>
    BY EmptyIs
  <2>. QED
    BY <1>1, <1>2, <2>1 DEF CallTypes
<1>5. CallTypes'
  BY <1>1, <1>2, <1>3, <1>4 DEF CallTypes, fileHistory
<1>6. ChannelKept(c)'
  BY <1>2 DEF ChannelKept
<1>7. CopyKept(c)'
  <2>1. ours'[c] = ours[c] /\ dest'[c] = dest[c] /\ stale' = stale /\ renewed' = renewed
    BY <1>2 DEF fileHistory
  <2>. QED
    BY <1>1, <1>3, <2>1 DEF CopyKept, OfOne, Whole
<1>8. OnlyAt(c)
  <2>1. \A d \in FileChannels : d # c => (d \in gone') = (d \in gone)
    BY <1>2
  <2>2. UNCHANGED <<requests, ours, dest, stale, renewed>>
    BY <1>2 DEF fileHistory
  <2>. QED
    BY <1>3, <1>4, <2>1, <2>2 DEF OnlyAt
<1>. QED
  BY <1>2, <1>5, <1>6, <1>7, <1>8, ClientStep DEF fileHistory

\* The reply or the request of an upload that goes on.
LEMMA UploadGoesOn ==
    ASSUME FilesKept, NEW c \in FileChannels, NEW call \in FileCalls,
           call.op = "upload" /\ call.source \in Sources /\ call.stage \in {"sending", "finishing"},
           fcall' = [fcall EXCEPT ![c] = call], fcall[c].op # "idle",
           UNCHANGED <<hostFiles, gone, ours, dest, fileHistory>>,
           requests' \in [FileChannels -> Seq(HostRequests)], replies' \in [FileChannels -> Seq(HostReplies)],
           \A d \in FileChannels : d # c => requests'[d] = requests[d] /\ replies'[d] = replies[d],
           c \notin stale \cup gone /\ call.stage = "sending" => SendingKept(c)',
           c \notin stale \cup gone /\ call.stage = "finishing" => FinishingKept(c)'
    PROVE  FilesKept'
<1>1. CallTypes /\ CopyKept(c)
  BY DEF FilesKept
<1>2. /\ fcall' \in [FileChannels -> FileCalls] /\ fcall'[c] = call
      /\ \A d \in FileChannels : d # c => fcall'[d] = fcall[d]
      /\ \A d \in FileChannels : fcall'[d].op = "upload" => fcall'[d].source \in Sources /\ fcall'[d].stage # ""
  BY <1>1, CallSet
<1>3. CallTypes'
  BY <1>1, <1>2 DEF CallTypes, fileHistory
<1>4. ChannelKept(c)'
  BY <1>2 DEF ChannelKept, fileHistory
<1>5. CopyKept(c)'
  BY <1>1, <1>2 DEF CopyKept, OfOne, Whole, fileHistory
<1>6. OnlyAt(c)
  BY <1>2 DEF OnlyAt, fileHistory
<1>. QED
  BY <1>3, <1>4, <1>5, <1>6, ClientStep DEF fileHistory

LEMMA UploadIs ==
    ASSUME CallTypes, NEW c \in FileChannels, fcall[c].op = "upload"
    PROVE  /\ fcall[c] \in FileCalls /\ fcall[c].source \in Sources /\ fcall[c].sent \in Nat /\ fcall[c].acked \in Nat
           /\ fcall[c].stage \in {"opening", "sending", "finishing"}
<1>1. fcall[c] \in FileCalls /\ fcall[c].source \in Sources /\ fcall[c].stage # ""
  BY DEF CallTypes
<1>. QED
  BY <1>1 DEF FileCalls

LEMMA TakeReadyKeeps ==
    ASSUME FilesKept, NEW c \in FileChannels, TakeReady(c)
    PROVE  FilesKept'
<1>1. CallTypes /\ ChannelKept(c) /\ DiskTypes
  BY DEF FilesKept, DiskInv
<1>2. /\ Reply(c, {"Ready"}) /\ fcall[c].op = "upload" /\ fcall[c].stage = "opening"
      /\ UNCHANGED <<hostFiles, requests, gone, fcalls, ours, dest, kills, fileHistory>>
  BY DEF TakeReady
<1>3. /\ replies' \in [FileChannels -> Seq(HostReplies)] /\ replies'[c] = Tail(replies[c])
      /\ \A d \in FileChannels : d # c => replies'[d] = replies[d]
      /\ replies[c] \in Seq(HostReplies) /\ replies[c] # <<>> /\ fcall[c].op # "idle"
      /\ Head(replies[c]) \in HostReplies /\ Head(replies[c]).type \in {"Ready"}
  BY <1>1, <1>2, Replied
<1>4. PICK q \in Seq(HostReplies) : q = replies[c]
  BY <1>3
<1>5. PICK at : at = Head(q).offset
  OBVIOUS
<1>6. at \in 0 .. SIZE /\ SIZE \in Nat
  BY <1>3, <1>4, <1>5, ReplyIs, FilesAssumption
<1>7. PICK o \in FileCalls : o = fcall[c]
  BY <1>1 DEF CallTypes
<1>8. o.op = "upload" /\ o.source \in Sources
  BY <1>1, <1>2, <1>7, UploadIs
<1>9. PICK call : call = [o EXCEPT !.stage = "sending", !.sent = at, !.acked = at]
  OBVIOUS
<1>10. /\ call \in FileCalls /\ call.op = "upload" /\ call.source \in Sources /\ call.stage = "sending"
       /\ call.sent = at
  <2>1. at \in Nat
    BY <1>6
  <2>. QED
    BY <1>8, <1>9, <2>1 DEF FileCalls
<1>11. fcall' = [fcall EXCEPT ![c] = call]
  BY <1>4, <1>5, <1>7, <1>9 DEF TakeReady
<1>12. fcall'[c] = call
  BY <1>1, <1>10, <1>11 DEF CallTypes
<1>13. ASSUME c \notin stale \cup gone PROVE SendingKept(c)'
  <2>1. OpeningKept(c)
    BY <1>1, <1>2, <1>13 DEF ChannelKept
  <2>2. HostRests(c) /\ requests[c] = <<>> /\ One(q, {"Ready", "Error"})
    BY <1>3, <1>4, <2>1 DEF OpeningKept, Answering
  <2>3. q[1] = Head(q) /\ Tail(q) = <<>>
    BY <2>2, OneTaken
  <2>4. uploading[c].file # NoPart /\ uploading[c].written = at
    BY <1>3, <1>4, <1>5, <2>1, <2>2, <2>3 DEF OpeningKept
  <2>5. requests'[c] = <<>> /\ replies'[c] = <<>> /\ uploading' = uploading /\ HostRests(c)'
    BY <1>2, <1>3, <1>4, <2>2, <2>3 DEF hostFiles, HostRests
  <2>6. uploading'[c].file # NoPart /\ fcall'[c].sent = at /\ uploading'[c].written = at
    BY <1>10, <1>12, <2>4, <2>5
  <2>7. All(requests'[c], "Chunk") /\ All(replies'[c], "Ack") /\ Len(requests'[c]) = 0
    BY <2>5 DEF All
  <2>8. uploading'[c].written + Len(requests'[c]) = fcall'[c].sent /\ fcall'[c].sent <= SIZE
    BY <1>6, <2>6, <2>7
  <2>. QED
    BY <2>5, <2>6, <2>7, <2>8 DEF SendingKept
<1>. QED
  BY <1>2, <1>3, <1>10, <1>11, <1>13, <1>1, UploadGoesOn DEF CallTypes

LEMMA MaxIsOne ==
    ASSUME NEW m \in Nat, NEW n \in Nat
    PROVE  Max({m, n}) \in Nat
<1>1. \E x \in {m, n} : \A y \in {m, n} : x >= y
  OBVIOUS
<1>. QED
  BY <1>1 DEF Max

LEMMA TakeAckKeeps ==
    ASSUME FilesKept, NEW c \in FileChannels, TakeAck(c)
    PROVE  FilesKept'
<1>1. CallTypes /\ ChannelKept(c) /\ DiskTypes
  BY DEF FilesKept, DiskInv
<1>2. /\ Reply(c, {"Ack"}) /\ fcall[c].op = "upload" /\ fcall[c].stage # "opening"
      /\ UNCHANGED <<hostFiles, requests, gone, fcalls, ours, dest, kills, fileHistory>>
  BY DEF TakeAck
<1>3. /\ replies' \in [FileChannels -> Seq(HostReplies)] /\ replies'[c] = Tail(replies[c])
      /\ \A d \in FileChannels : d # c => replies'[d] = replies[d]
      /\ replies[c] \in Seq(HostReplies) /\ replies[c] # <<>> /\ fcall[c].op # "idle"
      /\ Head(replies[c]) \in HostReplies /\ Head(replies[c]).type \in {"Ack"}
  BY <1>1, <1>2, Replied
<1>4. PICK q \in Seq(HostReplies) : q = replies[c]
  BY <1>3
<1>5. Head(q).written \in Nat /\ Head(q).type = "Ack" /\ q # <<>>
  BY <1>3, <1>4, ReplyIs
<1>6. PICK o \in FileCalls : o = fcall[c]
  BY <1>1 DEF CallTypes
<1>7. o.op = "upload" /\ o.source \in Sources /\ o.acked \in Nat /\ o.stage \in {"sending", "finishing"}
  BY <1>1, <1>2, <1>6, UploadIs
<1>8. PICK m : m = Max({o.acked, Head(q).written})
  OBVIOUS
<1>9. m \in Nat
  BY <1>5, <1>7, <1>8, MaxIsOne
<1>10. PICK call : call = [o EXCEPT !.acked = m]
  OBVIOUS
<1>11. /\ call \in FileCalls /\ call.op = "upload" /\ call.source \in Sources
       /\ call.stage = o.stage /\ call.sent = o.sent
  BY <1>7, <1>9, <1>10 DEF FileCalls
<1>12. fcall' = [fcall EXCEPT ![c] = call]
  <2>1. fcall' = [fcall EXCEPT ![c] = [o EXCEPT !.acked = Max({o.acked, Head(q).written})]]
    BY <1>1, <1>4, <1>6 DEF TakeAck, CallTypes
  <2>. QED
    BY <1>8, <1>10, <2>1
<1>13. fcall'[c] = call
  BY <1>1, <1>11, <1>12 DEF CallTypes
<1>14. ASSUME c \notin stale \cup gone, call.stage = "sending" PROVE SendingKept(c)'
  <2>1. SendingKept(c)
    BY <1>1, <1>6, <1>7, <1>11, <1>14 DEF ChannelKept
  <2>2. All(Tail(q), "Ack")
    BY <1>4, <1>5, <2>1, AllTaken DEF SendingKept
  <2>3. All(replies'[c], "Ack") /\ requests' = requests /\ uploading' = uploading /\ fcall'[c].sent = fcall[c].sent
    BY <1>2, <1>3, <1>4, <1>6, <1>11, <1>13, <2>2 DEF hostFiles
  <2>. QED
    BY <1>2, <2>1, <2>3 DEF SendingKept, HostRests, hostFiles
<1>15. ASSUME c \notin stale \cup gone, call.stage = "finishing" PROVE FinishingKept(c)'
  <2>1. FinishingKept(c)
    BY <1>1, <1>6, <1>7, <1>11, <1>15 DEF ChannelKept
  <2>2. All(q, "Ack") => All(Tail(q), "Ack")
    BY <1>5, AllTaken
  <2>3. AllThen(q, "Ack", {"Done", "Error"}) => AllThen(Tail(q), "Ack", {"Done", "Error"})
    BY <1>5, AllThenTaken
  <2>4. /\ requests' = requests /\ uploading' = uploading /\ placing' = placing /\ reading' = reading
        /\ All(replies[c], "Ack") => All(replies'[c], "Ack")
        /\ AllThen(replies[c], "Ack", {"Done", "Error"}) => AllThen(replies'[c], "Ack", {"Done", "Error"})
    BY <1>2, <1>3, <1>4, <2>2, <2>3 DEF hostFiles
  <2>. QED
    BY <2>1, <2>4 DEF FinishingKept
<1>. QED
  BY <1>1, <1>2, <1>3, <1>7, <1>11, <1>12, <1>14, <1>15, UploadGoesOn DEF CallTypes

LEMMA SendChunkKeeps ==
    ASSUME FilesKept, NEW c \in FileChannels, SendChunk(c)
    PROVE  FilesKept'
<1>1. CallTypes /\ ChannelKept(c) /\ DiskTypes
  BY DEF FilesKept, DiskInv
<1>2. /\ fcall[c].op = "upload" /\ fcall[c].stage = "sending" /\ fcall[c].sent < SIZE
      /\ UNCHANGED <<hostFiles, replies, gone, fcalls, ours, dest, kills, fileHistory>>
  BY DEF SendChunk
<1>3. PICK o \in FileCalls : o = fcall[c]
  BY <1>1 DEF CallTypes
<1>4. o.op = "upload" /\ o.source \in Sources /\ o.sent \in Nat /\ o.stage = "sending"
  BY <1>1, <1>2, <1>3, UploadIs
<1>5. PICK n : n = o.sent + 1
  OBVIOUS
<1>6. n \in Nat /\ n <= SIZE
  BY <1>2, <1>3, <1>4, <1>5, FilesAssumption
<1>7. PICK call : call = [o EXCEPT !.sent = n]
  OBVIOUS
<1>8. /\ call \in FileCalls /\ call.op = "upload" /\ call.source \in Sources
      /\ call.stage = "sending" /\ call.sent = n
  BY <1>4, <1>6, <1>7 DEF FileCalls
<1>9. fcall' = [fcall EXCEPT ![c] = call]
  <2>1. fcall' = [fcall EXCEPT ![c] = [o EXCEPT !.sent = o.sent + 1]]
    BY <1>1, <1>3 DEF SendChunk, CallTypes
  <2>. QED
    BY <1>5, <1>7, <2>1
<1>10. PICK r : r = [type |-> "Chunk", byte |-> o.source]
  OBVIOUS
<1>11. r \in HostRequests /\ r.type = "Chunk" /\ Request(c, r)
  BY <1>3, <1>4, <1>10 DEF HostRequests, SendChunk
<1>12. /\ requests' \in [FileChannels -> Seq(HostRequests)] /\ requests'[c] = Append(requests[c], r)
       /\ \A d \in FileChannels : d # c => requests'[d] = requests[d]
       /\ requests[c] \in Seq(HostRequests)
  BY <1>1, <1>11, Requested
<1>13. PICK q \in Seq(HostRequests) : q = requests[c]
  BY <1>12
<1>14. fcall'[c] = call
  BY <1>1, <1>8, <1>9 DEF CallTypes
<1>15. ASSUME c \notin stale \cup gone PROVE SendingKept(c)'
  <2>1. SendingKept(c)
    BY <1>1, <1>2, <1>15 DEF ChannelKept
  <2>2. All(Append(q, r), "Chunk") /\ Len(Append(q, r)) = Len(q) + 1 /\ Len(q) \in Nat
    BY <1>11, <1>13, <2>1, AllAppended, Newest DEF SendingKept
  <2>3. uploading[c].written \in Nat
    BY <1>1 DEF DiskTypes
  <2>4. uploading[c].written + Len(q) = o.sent
    BY <1>3, <1>13, <2>1 DEF SendingKept
  <2>5. uploading[c].written + Len(Append(q, r)) = n
    BY <1>4, <1>5, <2>2, <2>3, <2>4
  <2>6. /\ All(requests'[c], "Chunk") /\ uploading[c].written + Len(requests'[c]) = fcall'[c].sent
        /\ fcall'[c].sent <= SIZE
    BY <1>6, <1>8, <1>12, <1>13, <1>14, <2>2, <2>5
  <2>. QED
    BY <1>2, <2>1, <2>6 DEF SendingKept, HostRests, hostFiles, All
<1>. QED
  BY <1>1, <1>2, <1>8, <1>9, <1>12, <1>15, UploadGoesOn DEF CallTypes

LEMMA SendFinishKeeps ==
    ASSUME FilesKept, NEW c \in FileChannels, SendFinish(c)
    PROVE  FilesKept'
<1>1. CallTypes /\ ChannelKept(c) /\ DiskTypes
  BY DEF FilesKept, DiskInv
<1>2. /\ fcall[c].op = "upload" /\ fcall[c].stage = "sending" /\ fcall[c].sent >= SIZE
      /\ UNCHANGED <<hostFiles, replies, gone, fcalls, ours, dest, kills, fileHistory>>
  BY DEF SendFinish
<1>3. PICK o \in FileCalls : o = fcall[c]
  BY <1>1 DEF CallTypes
<1>4. o.op = "upload" /\ o.source \in Sources /\ o.sent \in Nat
  BY <1>1, <1>2, <1>3, UploadIs
<1>5. PICK call : call = [o EXCEPT !.stage = "finishing"]
  OBVIOUS
<1>6. /\ call \in FileCalls /\ call.op = "upload" /\ call.source \in Sources /\ call.stage = "finishing"
  BY <1>4, <1>5 DEF FileCalls
<1>7. fcall' = [fcall EXCEPT ![c] = call]
  BY <1>1, <1>3, <1>5 DEF SendFinish, CallTypes
<1>8. PICK r : r = [type |-> "Finish"]
  OBVIOUS
<1>9. r \in HostRequests /\ r.type = "Finish" /\ Request(c, r)
  BY <1>8 DEF HostRequests, SendFinish
<1>10. /\ requests' \in [FileChannels -> Seq(HostRequests)] /\ requests'[c] = Append(requests[c], r)
       /\ \A d \in FileChannels : d # c => requests'[d] = requests[d]
       /\ requests[c] \in Seq(HostRequests)
  BY <1>1, <1>9, Requested
<1>11. PICK q \in Seq(HostRequests) : q = requests[c]
  BY <1>10
<1>12. ASSUME c \notin stale \cup gone PROVE FinishingKept(c)'
  <2>1. SendingKept(c)
    BY <1>1, <1>2, <1>12 DEF ChannelKept
  <2>2. AllThen(Append(q, r), "Chunk", {"Finish"}) /\ Len(Append(q, r)) = Len(q) + 1 /\ Len(q) \in Nat
    BY <1>9, <1>11, <2>1, AllAppended, Newest DEF SendingKept
  <2>3. uploading[c].written \in Nat /\ SIZE \in Nat
    BY <1>1, FilesAssumption DEF DiskTypes
  <2>4. uploading[c].written + Len(q) = o.sent /\ o.sent <= SIZE /\ o.sent >= SIZE
    BY <1>2, <1>3, <1>11, <2>1 DEF SendingKept
  <2>5. uploading[c].written + Len(Append(q, r)) = SIZE + 1
    BY <1>4, <2>2, <2>3, <2>4
  <2>6. AllThen(requests'[c], "Chunk", {"Finish"}) /\ uploading[c].written + Len(requests'[c]) = SIZE + 1
    BY <1>10, <1>11, <2>2, <2>5
  <2>. QED
    BY <1>2, <2>1, <2>6 DEF SendingKept, FinishingKept, HostRests, hostFiles, All
<1>. QED
  BY <1>1, <1>2, <1>6, <1>7, <1>10, <1>12, UploadGoesOn DEF CallTypes

LEMMA TakeChunkKeeps ==
    ASSUME FilesKept, NEW c \in FileChannels, TakeChunk(c)
    PROVE  FilesKept'
<1>1. CallTypes /\ ChannelKept(c) /\ CopyKept(c) /\ ours[c] \in Seq(Sources)
  BY DEF FilesKept, CallTypes
<1>2. /\ Reply(c, {"Chunk"}) /\ fcall[c].op = "download"
      /\ UNCHANGED <<hostFiles, requests, gone, fcall, fcalls, dest, kills, stale, mixed, placed, undone>>
  BY DEF TakeChunk
<1>3. /\ replies' \in [FileChannels -> Seq(HostReplies)] /\ replies'[c] = Tail(replies[c])
      /\ \A d \in FileChannels : d # c => replies'[d] = replies[d]
      /\ replies[c] \in Seq(HostReplies) /\ replies[c] # <<>> /\ fcall[c].op # "idle"
      /\ Head(replies[c]) \in HostReplies /\ Head(replies[c]).type \in {"Chunk"}
  BY <1>1, <1>2, Replied
<1>4. PICK q \in Seq(HostReplies) : q = replies[c]
  BY <1>3
<1>5. PICK b : b = Head(q).byte
  OBVIOUS
<1>6. b \in Sources /\ Head(q).type = "Chunk" /\ q # <<>>
  BY <1>3, <1>4, <1>5, ReplyIs
<1>7. PICK got \in Seq(Sources) : got = ours[c]
  BY <1>1
<1>8. PICK more : more = Append(got, b)
  OBVIOUS
<1>9. /\ more \in Seq(Sources) /\ Len(more) = Len(got) + 1 /\ Len(got) \in Nat /\ more[Len(got) + 1] = b
      /\ \A i \in 1 .. Len(got) : more[i] = got[i]
  BY <1>6, <1>8, Newest
<1>10. ours' = [ours EXCEPT ![c] = more]
  BY <1>4, <1>5, <1>7, <1>8 DEF TakeChunk
<1>11. /\ ours' \in [FileChannels -> Seq(Sources)] /\ ours'[c] = more
       /\ \A d \in FileChannels : d # c => ours'[d] = ours[d]
  BY <1>1, <1>9, <1>10 DEF CallTypes
<1>12. /\ renewed' \in SUBSET FileChannels /\ renewed \subseteq renewed'
       /\ \A d \in FileChannels : d # c => (d \in renewed') = (d \in renewed)
       /\ c \notin renewed' => ~ fcall[c].resume \/ got[1] = b
  <2>1. renewed' = IF fcall[c].resume /\ got[1] # b THEN renewed \cup {c} ELSE renewed
    BY <1>4, <1>5, <1>7 DEF TakeChunk
  <2>2. renewed \in SUBSET FileChannels
    BY <1>1 DEF CallTypes
  <2>3. CASE fcall[c].resume /\ got[1] # b
    BY <2>1, <2>2, <2>3
  <2>4. CASE ~ (fcall[c].resume /\ got[1] # b)
    BY <2>1, <2>2, <2>4
  <2>. QED
    BY <2>3, <2>4
<1>13. CallTypes'
  BY <1>1, <1>2, <1>3, <1>11, <1>12 DEF CallTypes
<1>14. OnlyAt(c)
  BY <1>2, <1>3, <1>11, <1>12 DEF OnlyAt
<1>15. more # <<>>
  BY <1>9
<1>16. c \notin gone
  BY <1>1, <1>2 DEF CopyKept
<1>17. ASSUME c \notin stale
       PROVE  \E s \in Sources : ComesFrom(c, s) /\ b = s /\ DownloadKept(c)'
  <2>1. DownloadKept(c)
    BY <1>1, <1>2, <1>16, <1>17 DEF ChannelKept
  <2>2. ~ One(q, {"Error"})
    BY <1>6, OneTaken
  <2>3. /\ c \notin placing /\ (fcall[c].resume => ours[c] # <<>>) /\ requests[c] = <<>>
        /\ \/ reading[c] # NotReading /\ All(q, "Chunk")
           \/ reading[c] = NotReading /\ AllThen(q, "Chunk", {"End"})
        /\ \E s \in Sources : ComesFrom(c, s)
    BY <1>4, <1>6, <2>1, <2>2 DEF DownloadKept
  <2>4. PICK s \in Sources : ComesFrom(c, s)
    BY <2>3
  <2>5. /\ Len(q) \in Nat /\ Len(q) > 0 /\ Head(q) = q[1] /\ Len(Tail(q)) = Len(q) - 1
        /\ \A i \in 1 .. Len(q) - 1 : Tail(q)[i] = q[i + 1]
    BY <1>6, Oldest
  <2>6. \A i \in 1 .. Len(q) : q[i].type = "Chunk" => q[i].byte = s
    BY <1>4, <2>4 DEF ComesFrom
  <2>7. b = s
    BY <1>5, <1>6, <2>5, <2>6
  <2>8. \A i \in 1 .. Len(Tail(q)) : Tail(q)[i].type = "Chunk" => Tail(q)[i].byte = s
    BY <2>5, <2>6
  <2>9. ~ fcall[c].resume => \A i \in 1 .. Len(more) : more[i] = s
    <3>1. ~ fcall[c].resume => \A i \in 1 .. Len(got) : got[i] = s
      BY <1>7, <2>4 DEF ComesFrom
    <3>2. \A i \in 1 .. Len(more) : i \in 1 .. Len(got) \/ i = Len(got) + 1
      BY <1>9
    <3>. QED
      BY <1>9, <2>7, <3>1, <3>2
  <2>10. ComesFrom(c, s)'
    BY <1>2, <1>3, <1>4, <1>11, <2>4, <2>8, <2>9 DEF ComesFrom, hostFiles
  <2>11. All(q, "Chunk") => All(Tail(q), "Chunk")
    BY <1>6, AllTaken
  <2>12. AllThen(q, "Chunk", {"End"}) => AllThen(Tail(q), "Chunk", {"End"})
    BY <1>6, AllThenTaken
  <2>13. DownloadKept(c)'
    BY <1>2, <1>3, <1>4, <1>11, <1>15, <2>3, <2>10, <2>11, <2>12 DEF DownloadKept, hostFiles
  <2>. QED
    BY <2>4, <2>7, <2>13
<1>18. ChannelKept(c)'
  BY <1>2, <1>17 DEF ChannelKept
<1>19. ASSUME c \notin stale, c \notin renewed' PROVE OfOne(more)
  <2>1. PICK s \in Sources : ComesFrom(c, s) /\ b = s
    BY <1>17, <1>19
  <2>2. \A i \in 1 .. Len(got) : got[i] = b
    <3>1. CASE ~ fcall[c].resume
      BY <1>7, <2>1, <3>1 DEF ComesFrom
    <3>2. CASE fcall[c].resume
      <4>1. got[1] = b /\ OfOne(got)
        BY <1>1, <1>7, <1>12, <1>19, <3>2 DEF CopyKept
      <4>. QED
        BY <1>9, <4>1 DEF OfOne
    <3>. QED
      BY <3>1, <3>2
  <2>3. \A i \in 1 .. Len(more) : more[i] = b
    BY <1>9, <2>2
  <2>. QED
    BY <2>3 DEF OfOne
<1>20. CopyKept(c)'
  <2>1. c \notin stale' \cup renewed' => OfOne(ours'[c]) /\ (dest'[c] # <<>> => Whole(dest'[c]))
    BY <1>1, <1>2, <1>11, <1>12, <1>19 DEF CopyKept
  <2>. QED
    BY <1>2, <1>16, <2>1 DEF CopyKept, OfOne, Whole
<1>. QED
  BY <1>2, <1>13, <1>14, <1>18, <1>20, ClientStep

\* A step of the host for one channel.
LEMMA HostStep ==
    ASSUME FilesKept, NEW c \in FileChannels, DiskInv',
           requests' \in [FileChannels -> Seq(HostRequests)], replies' \in [FileChannels -> Seq(HostReplies)],
           \A d \in FileChannels : d # c =>
               /\ requests'[d] = requests[d] /\ replies'[d] = replies[d]
               /\ uploading'[d] = uploading[d] /\ reading'[d] = reading[d]
               /\ (d \in placing') = (d \in placing)
               /\ reading[d] # NotReading => disk'[reading[d].file] = disk[reading[d].file],
           UNCHANGED <<gone, clientFiles, stale, renewed>>,
           c \notin stale \cup gone => ChannelKept(c)'
    PROVE  FilesKept'
<1>1. CallTypes /\ CopyKept(c)
  BY DEF FilesKept
<1>2. CallTypes'
  BY <1>1 DEF CallTypes, clientFiles
<1>3. CopyKept(c)'
  BY <1>1 DEF CopyKept, OfOne, Whole, clientFiles
<1>4. \A d \in FileChannels : d # c => Apart(d)
  BY DEF Apart, clientFiles
<1>5. ChannelKept(c)'
  BY DEF ChannelKept
<1>. QED
  BY <1>2, <1>3, <1>4, <1>5, OneStep

LEMMA Handled ==
    ASSUME CallTypes, NEW c \in FileChannels, NEW types, Handling(c, types)
    PROVE  /\ HostRests(c) /\ UNCHANGED <<gone, clientFiles>>
           /\ requests' \in [FileChannels -> Seq(HostRequests)] /\ requests'[c] = Tail(requests[c])
           /\ \A d \in FileChannels : d # c => requests'[d] = requests[d]
           /\ requests[c] \in Seq(HostRequests) /\ requests[c] # <<>> /\ Head(requests[c]).type \in types
<1>1. requests \in [FileChannels -> Seq(HostRequests)] /\ requests[c] # <<>>
  BY DEF CallTypes, Handling
<1>2. PICK q : q = Tail(requests[c])
  OBVIOUS
<1>3. q \in Seq(HostRequests)
  BY <1>1, <1>2, Oldest
<1>4. requests' = [requests EXCEPT ![c] = q]
  BY <1>2 DEF Handling
<1>. QED
  BY <1>1, <1>2, <1>3, <1>4 DEF Handling, HostRests

LEMMA Emitted ==
    ASSUME CallTypes, NEW c \in FileChannels, NEW r \in HostReplies, Emits(c, r)
    PROVE  /\ replies' \in [FileChannels -> Seq(HostReplies)]
           /\ \A d \in FileChannels : d # c => replies'[d] = replies[d]
           /\ replies[c] \in Seq(HostReplies)
           /\ c \notin gone => replies'[c] = Append(replies[c], r)
<1>1. replies \in [FileChannels -> Seq(HostReplies)]
  BY DEF CallTypes
<1>2. PICK q : q = IF c \in gone THEN replies[c] ELSE Append(replies[c], r)
  OBVIOUS
<1>3. q \in Seq(HostReplies)
  BY <1>1, <1>2, Newest
<1>4. replies' = [replies EXCEPT ![c] = q]
  BY <1>1, <1>2 DEF Emits
<1>. QED
  BY <1>1, <1>2, <1>3, <1>4

\* What the first request says of the call.
LEMMA RequestOfCall ==
    ASSUME CallTypes, NEW c \in FileChannels, ChannelKept(c), c \notin stale \cup gone,
           requests[c] \in Seq(HostRequests), requests[c] # <<>>
    PROVE  /\ Head(requests[c]).type = "Ask" => fcall[c].op = "ask"
           /\ Head(requests[c]).type = "Write" => fcall[c].op = "upload" /\ fcall[c].stage = "opening"
           /\ Head(requests[c]).type = "Read" => fcall[c].op = "download"
           /\ Head(requests[c]).type = "Finish" => fcall[c].op = "upload" /\ fcall[c].stage = "finishing"
           /\ Head(requests[c]).type = "Chunk" => fcall[c].op = "upload" /\ fcall[c].stage \in {"sending", "finishing"}
           /\ Head(requests[c]).type \in {"Ask", "Write", "Read"} => Tail(requests[c]) = <<>> /\ replies[c] = <<>>
<1>1. PICK q \in Seq(HostRequests) : q = requests[c]
  OBVIOUS
<1>2. PICK t : t = Head(q).type
  OBVIOUS
<1>3. /\ q # <<>> /\ \A types : One(q, types) => t \in types /\ Tail(q) = <<>>
      /\ All(q, "Chunk") => t = "Chunk"
      /\ AllThen(q, "Chunk", {"Finish"}) => t \in {"Chunk", "Finish"}
  BY <1>1, <1>2, OneTaken, AllTaken, AllThenTaken
<1>4. /\ fcall[c] \in FileCalls /\ fcall[c].op \in {"idle", "ask", "upload", "download"}
      /\ fcall[c].op = "upload" => fcall[c].stage \in {"opening", "sending", "finishing"}
  <2>1. fcall[c] \in FileCalls
    BY DEF CallTypes
  <2>. QED
    BY <2>1, UploadIs DEF FileCalls
<1>5. fcall[c].op # "idle"
  BY <1>1, <1>3 DEF ChannelKept
<1>6. fcall[c].op = "ask" => t = "Ask" /\ Tail(q) = <<>> /\ replies[c] = <<>>
  BY <1>1, <1>3 DEF ChannelKept, Answering
<1>7. fcall[c].op = "upload" /\ fcall[c].stage = "opening" => t = "Write" /\ Tail(q) = <<>> /\ replies[c] = <<>>
  BY <1>1, <1>3 DEF ChannelKept, OpeningKept, Answering
<1>8. fcall[c].op = "upload" /\ fcall[c].stage = "sending" => t = "Chunk"
  BY <1>1, <1>3 DEF ChannelKept, SendingKept
<1>9. fcall[c].op = "upload" /\ fcall[c].stage = "finishing" => t \in {"Chunk", "Finish"}
  BY <1>1, <1>3 DEF ChannelKept, FinishingKept
<1>10. fcall[c].op = "download" => t = "Read" /\ Tail(q) = <<>> /\ replies[c] = <<>>
  BY <1>1, <1>3 DEF ChannelKept, DownloadKept
<1>. QED
  BY <1>1, <1>2, <1>4, <1>5, <1>6, <1>7, <1>8, <1>9, <1>10

\* A request that has an answer and changes no file.
LEMMA AnsweredKept ==
    ASSUME FilesKept, NEW c \in FileChannels, c \notin stale \cup gone,
           Handling(c, {"Ask", "Read", "Write"}), NEW r \in HostReplies, Emits(c, r),
           UNCHANGED <<placing, reading, stale>>,
           \/ r.type = "Error"
           \/ r.type = "Answer" /\ Head(requests[c]).type = "Ask"
           \/ /\ r.type = "Ready" /\ Head(requests[c]).type = "Write"
              /\ uploading'[c].file # NoPart /\ uploading'[c].written = r.offset
    PROVE  ChannelKept(c)'
<1>1. CallTypes /\ ChannelKept(c)
  BY DEF FilesKept
<1>2. /\ HostRests(c) /\ UNCHANGED <<gone, clientFiles>> /\ requests'[c] = Tail(requests[c])
      /\ requests[c] \in Seq(HostRequests) /\ requests[c] # <<>>
      /\ Head(requests[c]).type \in {"Ask", "Read", "Write"}
  BY <1>1, Handled
<1>3. /\ Head(requests[c]).type = "Ask" => fcall[c].op = "ask"
      /\ Head(requests[c]).type = "Write" => fcall[c].op = "upload" /\ fcall[c].stage = "opening"
      /\ Head(requests[c]).type = "Read" => fcall[c].op = "download"
      /\ Tail(requests[c]) = <<>> /\ replies[c] = <<>>
  BY <1>1, <1>2, RequestOfCall
<1>4. replies[c] \in Seq(HostReplies) /\ replies'[c] = Append(replies[c], r)
  BY <1>1, Emitted
<1>5. PICK q \in Seq(HostReplies) : q = replies[c] /\ q = <<>>
  BY <1>3, <1>4
<1>6. replies'[c][1] = r /\ \A types : r.type \in types => One(replies'[c], types)
  <2>1. PICK w : w = Append(q, r)
    OBVIOUS
  <2>2. \A types : r.type \in types => One(w, types) /\ w[1] = r
    BY <1>5, <2>1, OneAppended
  <2>3. r.type \in {r.type} /\ replies'[c] = w
    BY <1>4, <1>5, <2>1
  <2>. QED
    BY <2>2, <2>3
<1>7. requests'[c] = <<>> /\ HostRests(c)' /\ fcall' = fcall /\ ours' = ours /\ gone' = gone
  BY <1>2, <1>3 DEF HostRests, clientFiles
<1>8. CASE Head(requests[c]).type = "Ask"
  <2>1. One(replies'[c], {"Answer", "Error"})
    BY <1>6, <1>8
  <2>2. Answering(c, {"Ask"}, {"Answer", "Error"})'
    BY <1>7, <2>1 DEF Answering
  <2>. QED
    BY <1>3, <1>7, <1>8, <2>2 DEF ChannelKept
<1>9. CASE Head(requests[c]).type = "Write"
  <2>1. One(replies'[c], {"Ready", "Error"})
    BY <1>6, <1>9
  <2>2. OpeningKept(c)'
    BY <1>6, <1>7, <1>9, <2>1 DEF OpeningKept, Answering
  <2>. QED
    BY <1>3, <1>7, <1>9, <2>2 DEF ChannelKept
<1>10. CASE Head(requests[c]).type = "Read"
  <2>1. One(replies'[c], {"Error"})
    BY <1>6, <1>10
  <2>2. DownloadKept(c)
    BY <1>1, <1>3, <1>10 DEF ChannelKept
  <2>3. DownloadKept(c)'
    BY <1>7, <2>1, <2>2 DEF DownloadKept, HostRests
  <2>. QED
    BY <1>3, <1>7, <1>10, <2>3 DEF ChannelKept
<1>. QED
  BY <1>2, <1>8, <1>9, <1>10

LEMMA AnswersAskKeeps ==
    ASSUME FilesKept, NEW c \in FileChannels, AnswersAsk(c)
    PROVE  FilesKept'
<1>1. PICK r : r = [type |-> "Answer"]
  OBVIOUS
<1>2. r \in HostReplies /\ r.type = "Answer" /\ Emits(c, r)
  BY <1>1 DEF HostReplies, AnswersAsk
<1>3. Handling(c, {"Ask"}) /\ UNCHANGED <<hostFiles, fileHistory>>
  BY DEF AnswersAsk
<1>4. CallTypes
  BY DEF FilesKept
<1>5. /\ UNCHANGED <<gone, clientFiles>> /\ requests' \in [FileChannels -> Seq(HostRequests)]
      /\ \A d \in FileChannels : d # c => requests'[d] = requests[d]
      /\ Head(requests[c]).type = "Ask"
  BY <1>3, <1>4, Handled
<1>6. /\ replies' \in [FileChannels -> Seq(HostReplies)]
      /\ \A d \in FileChannels : d # c => replies'[d] = replies[d]
  BY <1>2, <1>4, Emitted
<1>7. DiskInv'
  BY <1>3 DEF FilesKept, hostFiles, fileHistory, DiskInv, DiskKept, DiskTypes, NamesKept, UploadKept, ReadKept, Uploads
<1>8. Handling(c, {"Ask", "Read", "Write"})
  BY <1>3 DEF Handling
<1>9. c \notin stale \cup gone => ChannelKept(c)'
  BY <1>2, <1>3, <1>5, <1>8, AnsweredKept DEF hostFiles, fileHistory
<1>. QED
  BY <1>3, <1>5, <1>6, <1>7, <1>9, HostStep DEF hostFiles, fileHistory

LEMMA RefusesPathKeeps ==
    ASSUME FilesKept, NEW c \in FileChannels, RefusesPath(c)
    PROVE  FilesKept'
<1>1. PICK r : r = [type |-> "Error"]
  OBVIOUS
<1>2. r \in HostReplies /\ r.type = "Error" /\ Emits(c, r)
  BY <1>1 DEF HostReplies, RefusesPath
<1>3. Handling(c, {"Ask", "Read", "Write"}) /\ UNCHANGED <<placing, reading, fileHistory>>
  <2>1. Handling(c, {"Read", "Write", "Ask"}) /\ UNCHANGED <<placing, reading, fileHistory>>
    BY DEF RefusesPath
  <2>. QED
    BY <2>1 DEF Handling
<1>4. CallTypes /\ DiskInv /\ DiskTypes
  BY DEF FilesKept, DiskInv
<1>5. /\ UNCHANGED <<gone, clientFiles>> /\ requests' \in [FileChannels -> Seq(HostRequests)]
      /\ \A d \in FileChannels : d # c => requests'[d] = requests[d]
  BY <1>3, <1>4, Handled
<1>6. /\ replies' \in [FileChannels -> Seq(HostReplies)]
      /\ \A d \in FileChannels : d # c => replies'[d] = replies[d]
  BY <1>2, <1>4, Emitted
<1>7. DiskInv' /\ disk' = disk
  BY <1>4, RefusesPathDisk
<1>8. \A d \in FileChannels : d # c => uploading'[d] = uploading[d]
  BY <1>4 DEF RefusesPath, DiskTypes
<1>9. c \notin stale \cup gone => ChannelKept(c)'
  BY <1>2, <1>3, AnsweredKept DEF fileHistory
<1>. QED
  BY <1>3, <1>5, <1>6, <1>7, <1>8, <1>9, HostStep DEF fileHistory

LEMMA OpensUploadKeeps ==
    ASSUME FilesKept, NEW c \in FileChannels, OpensUpload(c), ~ mixed'
    PROVE  FilesKept'
<1>1. CallTypes /\ DiskInv /\ DiskTypes
  BY DEF FilesKept, DiskInv
<1>2. PICK had, f :
        /\ had = Held(Head(requests[c]).resume) /\ f = (IF partial = NoPart THEN Unused ELSE partial)
        /\ partial' = f
        /\ uploading' = [uploading EXCEPT ![c] = [file |-> f, size |-> SIZE, written |-> had, acked |-> had]]
        /\ Emits(c, [type |-> "Ready", offset |-> had])
  BY DEF OpensUpload
<1>4. Handling(c, {"Write"}) /\ UNCHANGED <<placing, reading, stale, renewed>>
  BY DEF OpensUpload
<1>5. DiskInv' /\ \A d \in FileChannels : reading[d] # NotReading => disk'[reading[d].file] = disk[reading[d].file]
  BY <1>1, OpensUploadDisk
<1>6. SIZE \in Nat /\ SIZE > 0
  BY FilesAssumption
<1>7. had \in 0 .. SIZE
  <2>1. CASE partial = NoPart
    BY <1>2, <1>6, <2>1 DEF Held
  <2>2. CASE partial # NoPart
    <3>1. PICK l \in Nat : l = Len(disk[partial])
      BY <1>1, <2>2 DEF DiskTypes, FileOrNone
    <3>2. had = IF ~ Head(requests[c]).resume \/ l > SIZE THEN 0 ELSE l
      BY <1>2, <2>2, <3>1 DEF Held
    <3>. QED
      BY <1>6, <3>2
  <2>. QED
    BY <2>1, <2>2
<1>8. f # NoPart
  <2>1. CASE partial = NoPart
    BY <1>1, <1>2, <2>1, UnusedIs, HandlesAreNumbers
  <2>2. CASE partial # NoPart
    BY <1>2, <2>2
  <2>. QED
    BY <2>1, <2>2
<1>9. PICK r : r = [type |-> "Ready", offset |-> had]
  OBVIOUS
<1>10. r \in HostReplies /\ r.type = "Ready" /\ r.offset = had /\ Emits(c, r)
  BY <1>2, <1>7, <1>9 DEF HostReplies
<1>11. /\ UNCHANGED <<gone, clientFiles>> /\ requests' \in [FileChannels -> Seq(HostRequests)]
       /\ \A d \in FileChannels : d # c => requests'[d] = requests[d]
       /\ Head(requests[c]).type = "Write"
  BY <1>1, <1>4, Handled
<1>12. /\ replies' \in [FileChannels -> Seq(HostReplies)]
       /\ \A d \in FileChannels : d # c => replies'[d] = replies[d]
  BY <1>1, <1>10, Emitted
<1>13. /\ uploading'[c].file # NoPart /\ uploading'[c].written = had
       /\ \A d \in FileChannels : d # c => uploading'[d] = uploading[d]
  BY <1>1, <1>2, <1>8 DEF DiskTypes
<1>14. Handling(c, {"Ask", "Read", "Write"})
  BY <1>4 DEF Handling
<1>15. c \notin stale \cup gone => ChannelKept(c)'
  BY <1>4, <1>10, <1>11, <1>13, <1>14, AnsweredKept
<1>. QED
  BY <1>4, <1>5, <1>11, <1>12, <1>13, <1>15, HostStep

LEMMA WritesChunkKeeps ==
    ASSUME FilesKept, NEW c \in FileChannels, WritesChunk(c), ~ mixed'
    PROVE  FilesKept'
<1>1. CallTypes /\ DiskInv /\ DiskTypes /\ ChannelKept(c) /\ UploadKept(c)
  BY DEF FilesKept, DiskInv, DiskKept
<1>2. Handling(c, {"Chunk"}) /\ UNCHANGED <<placing, reading, stale, renewed>>
  BY DEF WritesChunk
<1>3. DiskInv' /\ \A d \in FileChannels : reading[d] # NotReading => disk'[reading[d].file] = disk[reading[d].file]
  BY <1>1, WritesChunkDisk
<1>4. /\ HostRests(c) /\ UNCHANGED <<gone, clientFiles>>
      /\ requests' \in [FileChannels -> Seq(HostRequests)] /\ requests'[c] = Tail(requests[c])
      /\ \A d \in FileChannels : d # c => requests'[d] = requests[d]
      /\ requests[c] \in Seq(HostRequests) /\ requests[c] # <<>> /\ Head(requests[c]).type = "Chunk"
  BY <1>1, <1>2, Handled
<1>5. PICK u, n : u = uploading[c] /\ n = u.written + 1
  OBVIOUS
<1>6. u.written \in Nat /\ n \in Nat /\ u.size \in Nat
  BY <1>1, <1>5 DEF DiskTypes
<1>7. PICK r : r = IF u = NoUpload \/ n > u.size THEN [type |-> "Error"] ELSE [type |-> "Ack", written |-> n]
  OBVIOUS
<1>8. r \in HostReplies /\ (r.type = "Ack" \/ u = NoUpload \/ n > u.size)
  BY <1>6, <1>7 DEF HostReplies
<1>9. Emits(c, r) \/ UNCHANGED replies
  BY <1>5, <1>7 DEF WritesChunk
<1>10. /\ replies' \in [FileChannels -> Seq(HostReplies)]
       /\ \A d \in FileChannels : d # c => replies'[d] = replies[d]
       /\ replies[c] \in Seq(HostReplies)
       /\ c \notin gone => replies'[c] = Append(replies[c], r) \/ replies'[c] = replies[c]
  <2>1. CASE Emits(c, r)
    BY <1>1, <1>8, <2>1, Emitted
  <2>2. CASE UNCHANGED replies
    BY <1>1, <2>2 DEF CallTypes
  <2>. QED
    BY <1>9, <2>1, <2>2
<1>11. /\ uploading' = [uploading EXCEPT ![c] = NoUpload] \/ uploading' = [uploading EXCEPT ![c] = Counted(u, n)]
       /\ u # NoUpload /\ ~ n > u.size => uploading' = [uploading EXCEPT ![c] = Counted(u, n)]
  BY <1>5 DEF WritesChunk
<1>12. \A d \in FileChannels : d # c => uploading'[d] = uploading[d]
  BY <1>1, <1>11 DEF DiskTypes
<1>13. (uploading'[c].written = n /\ uploading'[c].file = u.file) \/ u = NoUpload \/ n > u.size
  <2>1. PICK new : new = Counted(u, n)
    OBVIOUS
  <2>2. new.written = n /\ new.file = u.file
    BY <1>1, <1>5, <2>1 DEF Counted, DiskTypes
  <2>. QED
    BY <1>1, <1>11, <2>1, <2>2 DEF DiskTypes
<1>14. PICK q \in Seq(HostRequests) : q = requests[c]
  BY <1>4
<1>15. /\ Len(q) \in Nat /\ Len(q) > 0 /\ Len(Tail(q)) = Len(q) - 1 /\ q # <<>>
  BY <1>4, <1>14, Oldest
<1>16. ASSUME c \notin gone, u # NoUpload, ~ n > u.size, All(replies[c], "Ack") PROVE All(replies'[c], "Ack")
  <2>1. PICK s \in Seq(HostReplies) : s = replies[c]
    BY <1>10
  <2>2. All(Append(s, r), "Ack")
    BY <1>8, <1>16, <2>1, AllAppended
  <2>. QED
    BY <1>10, <1>16, <2>1, <2>2
<1>17. fcall' = fcall /\ gone' = gone /\ HostRests(c)' /\ placing' = placing /\ reading' = reading
  BY <1>2, <1>4 DEF HostRests, clientFiles
<1>18. ASSUME c \notin stale \cup gone PROVE ChannelKept(c)'
  <2>1. fcall[c].op = "upload" /\ fcall[c].stage \in {"sending", "finishing"}
    BY <1>1, <1>4, <1>18, RequestOfCall
  <2>2. CASE fcall[c].stage = "sending"
    <3>1. SendingKept(c)
      BY <1>1, <1>18, <2>1, <2>2 DEF ChannelKept
    <3>2. PICK sent : sent = fcall[c].sent
      OBVIOUS
    <3>3. /\ All(q, "Chunk") /\ All(replies[c], "Ack") /\ u.file # NoPart
          /\ u.written + Len(q) = sent /\ sent <= SIZE
      BY <1>5, <1>14, <3>1, <3>2 DEF SendingKept
    <3>4. u.size = SIZE /\ sent \in Nat /\ SIZE \in Nat
      BY <1>1, <1>5, <1>6, <1>15, <3>3, FilesAssumption DEF UploadKept
    <3>5. u # NoUpload /\ ~ n > u.size /\ n + Len(Tail(q)) = sent
      <4>1. u # NoUpload
        BY <3>3 DEF NoUpload
      <4>2. PICK w, l, k : w = u.written /\ l = Len(q) /\ k = Len(Tail(q))
        OBVIOUS
      <4>3. w \in Nat /\ l \in Nat /\ l > 0 /\ k = l - 1 /\ n = w + 1 /\ w + l = sent
        BY <1>5, <1>6, <1>15, <3>3, <4>2
      <4>4. ~ n > SIZE /\ n + k = sent
        BY <3>3, <3>4, <4>3
      <4>. QED
        BY <3>4, <4>1, <4>2, <4>4
    <3>6. All(Tail(q), "Chunk")
      BY <1>15, <3>3, AllTaken
    <3>7. All(replies'[c], "Ack")
      BY <1>16, <1>18, <3>3, <3>5
    <3>8. uploading'[c].written = n /\ uploading'[c].file # NoPart /\ requests'[c] = Tail(q) /\ fcall'[c].sent = sent
      BY <1>4, <1>13, <1>14, <1>17, <3>2, <3>3, <3>5
    <3>9. uploading'[c].written + Len(requests'[c]) = fcall'[c].sent /\ fcall'[c].sent <= SIZE
      BY <3>3, <3>5, <3>8
    <3>10. SendingKept(c)'
      BY <1>17, <3>6, <3>7, <3>8, <3>9 DEF SendingKept
    <3>. QED
      BY <1>17, <2>1, <2>2, <3>10 DEF ChannelKept
  <2>3. CASE fcall[c].stage = "finishing"
    <3>1. FinishingKept(c)
      BY <1>1, <1>18, <2>1, <2>3 DEF ChannelKept
    <3>2. /\ AllThen(q, "Chunk", {"Finish"}) /\ All(replies[c], "Ack") /\ c \notin placing
          /\ u.file # NoPart /\ u.written + Len(q) = SIZE + 1 /\ reading[c] = NotReading
      BY <1>5, <1>14, <1>15, <3>1 DEF FinishingKept
    <3>3. AllThen(Tail(q), "Chunk", {"Finish"}) /\ Len(q) > 1
      BY <1>4, <1>14, <3>2, AllThenTaken
    <3>4. u.size = SIZE /\ SIZE \in Nat
      BY <1>1, <1>5, <3>2, FilesAssumption DEF UploadKept
    <3>5. u # NoUpload /\ ~ n > u.size /\ n + Len(Tail(q)) = SIZE + 1
      <4>1. u # NoUpload
        BY <3>2 DEF NoUpload
      <4>2. PICK w, l, k : w = u.written /\ l = Len(q) /\ k = Len(Tail(q))
        OBVIOUS
      <4>3. w \in Nat /\ l \in Nat /\ l > 1 /\ k = l - 1 /\ n = w + 1 /\ w + l = SIZE + 1
        BY <1>5, <1>6, <1>15, <3>2, <3>3, <4>2
      <4>4. ~ n > SIZE /\ n + k = SIZE + 1
        BY <3>4, <4>3
      <4>. QED
        BY <3>4, <4>1, <4>2, <4>4
    <3>6. All(replies'[c], "Ack")
      BY <1>16, <1>18, <3>2, <3>5
    <3>7. uploading'[c].written = n /\ uploading'[c].file # NoPart /\ requests'[c] = Tail(q)
      BY <1>4, <1>13, <1>14, <3>2, <3>5
    <3>8. uploading'[c].written + Len(requests'[c]) = SIZE + 1
      BY <3>5, <3>7
    <3>9. FinishingKept(c)'
      BY <1>17, <3>2, <3>3, <3>6, <3>7, <3>8 DEF FinishingKept
    <3>. QED
      BY <1>17, <2>1, <2>3, <3>9 DEF ChannelKept
  <2>. QED
    BY <2>1, <2>2, <2>3
<1>. QED
  BY <1>2, <1>3, <1>4, <1>10, <1>12, <1>18, HostStep

LEMMA FinishesKeeps ==
    ASSUME FilesKept, NEW c \in FileChannels, Finishes(c)
    PROVE  FilesKept'
<1>1. CallTypes /\ DiskInv /\ DiskTypes /\ ChannelKept(c) /\ UploadKept(c)
  BY DEF FilesKept, DiskInv, DiskKept
<1>2. Handling(c, {"Finish"}) /\ UNCHANGED <<reading, stale, renewed>>
  BY DEF Finishes, fileHistory
<1>3. DiskInv' /\ disk' = disk
  BY <1>1, FinishesDisk
<1>4. /\ HostRests(c) /\ UNCHANGED <<gone, clientFiles>>
      /\ requests' \in [FileChannels -> Seq(HostRequests)] /\ requests'[c] = Tail(requests[c])
      /\ \A d \in FileChannels : d # c => requests'[d] = requests[d]
      /\ requests[c] \in Seq(HostRequests) /\ requests[c] # <<>> /\ Head(requests[c]).type = "Finish"
  BY <1>1, <1>2, Handled
<1>5. PICK r : r = [type |-> "Error"]
  OBVIOUS
<1>6. r \in HostReplies
  BY <1>5 DEF HostReplies
<1>7. \/ placing' = placing \cup {c} /\ uploading' = [uploading EXCEPT ![c] = NoUpload] /\ UNCHANGED replies
      \/ Emits(c, r) /\ UNCHANGED <<placing, uploading>> /\ ~ AllArrived(uploading[c])
  BY <1>5 DEF Finishes
<1>8. /\ replies' \in [FileChannels -> Seq(HostReplies)]
      /\ \A d \in FileChannels : d # c => replies'[d] = replies[d]
  BY <1>1, <1>6, <1>7, Emitted DEF CallTypes
<1>9. \A d \in FileChannels : d # c => uploading'[d] = uploading[d] /\ (d \in placing') = (d \in placing)
  BY <1>1, <1>7 DEF DiskTypes
<1>10. ASSUME c \notin stale \cup gone PROVE ChannelKept(c)'
  <2>1. fcall[c].op = "upload" /\ fcall[c].stage = "finishing"
    BY <1>1, <1>4, <1>10, RequestOfCall
  <2>2. FinishingKept(c)
    BY <1>1, <1>10, <2>1 DEF ChannelKept
  <2>3. PICK q \in Seq(HostRequests) : q = requests[c]
    BY <1>4
  <2>4. /\ AllThen(q, "Chunk", {"Finish"}) /\ All(replies[c], "Ack") /\ reading[c] = NotReading
        /\ uploading[c].file # NoPart /\ uploading[c].written + Len(q) = SIZE + 1
    BY <1>4, <2>2, <2>3 DEF FinishingKept
  <2>5. Tail(q) = <<>> /\ Len(q) = 1
    BY <1>4, <2>3, <2>4, AllThenTaken
  <2>6. uploading[c].written \in Nat /\ SIZE \in Nat
    BY <1>1, FilesAssumption DEF DiskTypes
  <2>7. uploading[c].written = SIZE
    BY <2>4, <2>5, <2>6
  <2>8. AllArrived(uploading[c])
    BY <1>1, <2>4, <2>7 DEF AllArrived, UploadKept, NoUpload
  <2>9. c \in placing' /\ replies' = replies /\ requests'[c] = <<>> /\ fcall' = fcall
    BY <1>4, <1>7, <2>3, <2>5, <2>8 DEF clientFiles
  <2>10. FinishingKept(c)'
    BY <1>2, <2>4, <2>9 DEF FinishingKept
  <2>. QED
    BY <2>1, <2>9, <2>10 DEF ChannelKept
<1>. QED
  BY <1>2, <1>3, <1>4, <1>8, <1>9, <1>10, HostStep

LEMMA PutsInPlaceKeeps ==
    ASSUME FilesKept, NEW c \in FileChannels, PutsInPlace(c)
    PROVE  FilesKept'
<1>1. CallTypes /\ DiskInv /\ DiskTypes /\ ChannelKept(c) /\ UploadKept(c)
  BY DEF FilesKept, DiskInv, DiskKept
<1>2. /\ c \in placing /\ placing' = placing \ {c}
      /\ UNCHANGED <<uploading, reading, requests, gone, clientFiles, stale, renewed>>
  BY DEF PutsInPlace
<1>3. DiskInv' /\ disk' = disk
  BY <1>1, PutsInPlaceDisk
<1>4. PICK r : r = [type |-> "Done"]
  OBVIOUS
<1>5. r \in HostReplies /\ r.type = "Done"
  BY <1>4 DEF HostReplies
<1>6. Emits(c, r)
  BY <1>1, <1>2, <1>4 DEF PutsInPlace, UploadKept
<1>7. /\ replies' \in [FileChannels -> Seq(HostReplies)] /\ replies[c] \in Seq(HostReplies)
      /\ \A d \in FileChannels : d # c => replies'[d] = replies[d]
      /\ c \notin gone => replies'[c] = Append(replies[c], r)
  BY <1>1, <1>5, <1>6, Emitted
<1>8. requests' \in [FileChannels -> Seq(HostRequests)]
  BY <1>1, <1>2 DEF CallTypes
<1>9. ASSUME c \notin stale \cup gone PROVE ChannelKept(c)'
  <2>1. /\ fcall[c].op \in {"idle", "ask", "upload", "download"}
        /\ fcall[c].op = "upload" => fcall[c].stage \in {"opening", "sending", "finishing"}
    <3>1. fcall[c] \in FileCalls
      BY <1>1 DEF CallTypes
    <3>. QED
      BY <1>1, <3>1, UploadIs DEF FileCalls
  <2>2. ~ HostRests(c)
    BY <1>2 DEF HostRests
  <2>3. fcall[c].op = "upload" /\ fcall[c].stage = "finishing"
    BY <1>1, <1>2, <1>9, <2>1, <2>2 DEF ChannelKept, Answering, OpeningKept, SendingKept, DownloadKept
  <2>4. FinishingKept(c)
    BY <1>1, <1>9, <2>3 DEF ChannelKept
  <2>5. PICK q \in Seq(HostReplies) : q = replies[c]
    BY <1>7
  <2>6. reading[c] = NotReading /\ requests[c] = <<>> /\ All(q, "Ack")
    BY <1>2, <2>4, <2>5 DEF FinishingKept
  <2>7. AllThen(Append(q, r), "Ack", {"Done", "Error"})
    BY <1>5, <2>6, AllAppended
  <2>8. AllThen(replies'[c], "Ack", {"Done", "Error"}) /\ c \notin placing' /\ fcall' = fcall
    BY <1>2, <1>7, <1>9, <2>5, <2>7 DEF clientFiles
  <2>9. FinishingKept(c)'
    BY <1>2, <2>6, <2>8 DEF FinishingKept
  <2>. QED
    BY <2>3, <2>8, <2>9 DEF ChannelKept
<1>10. \A d \in FileChannels : d # c => (d \in placing') = (d \in placing)
  BY <1>2
<1>. QED
  BY <1>2, <1>3, <1>7, <1>8, <1>9, <1>10, HostStep

LEMMA OpensFileKeeps ==
    ASSUME FilesKept, NEW c \in FileChannels, OpensFile(c)
    PROVE  FilesKept'
<1>1. CallTypes /\ DiskInv /\ DiskTypes /\ NamesKept /\ ChannelKept(c)
  BY DEF FilesKept, DiskInv, DiskKept
<1>2. Handling(c, {"Read"}) /\ UNCHANGED <<uploading, placing, stale, renewed>>
  BY DEF OpensFile, fileHistory
<1>3. DiskInv' /\ disk' = disk
  BY <1>1, OpensFileDisk
<1>4. /\ HostRests(c) /\ UNCHANGED <<gone, clientFiles>>
      /\ requests' \in [FileChannels -> Seq(HostRequests)] /\ requests'[c] = Tail(requests[c])
      /\ \A d \in FileChannels : d # c => requests'[d] = requests[d]
      /\ requests[c] \in Seq(HostRequests) /\ requests[c] # <<>> /\ Head(requests[c]).type = "Read"
  BY <1>1, <1>2, Handled
<1>5. PICK r : r = [type |-> "Error"]
  OBVIOUS
<1>6. r \in HostReplies /\ r.type = "Error"
  BY <1>5 DEF HostReplies
<1>7. PICK at : at = Head(requests[c]).offset
  OBVIOUS
<1>8. \/ Emits(c, r) /\ UNCHANGED reading
      \/ target # NoPart /\ reading' = [reading EXCEPT ![c] = [file |-> target, at |-> at]] /\ UNCHANGED replies
  BY <1>5, <1>7 DEF OpensFile
<1>9. CASE Emits(c, r) /\ UNCHANGED reading
  <2>1. /\ replies' \in [FileChannels -> Seq(HostReplies)]
        /\ \A d \in FileChannels : d # c => replies'[d] = replies[d]
    BY <1>1, <1>6, <1>9, Emitted
  <2>2. Handling(c, {"Ask", "Read", "Write"})
    BY <1>2 DEF Handling
  <2>3. c \notin stale \cup gone => ChannelKept(c)'
    BY <1>2, <1>6, <1>9, <2>2, AnsweredKept
  <2>. QED
    BY <1>2, <1>3, <1>4, <1>9, <2>1, <2>3, HostStep
<1>10. CASE target # NoPart /\ reading' = [reading EXCEPT ![c] = [file |-> target, at |-> at]] /\ UNCHANGED replies
  <2>1. replies' \in [FileChannels -> Seq(HostReplies)]
    BY <1>1, <1>10 DEF CallTypes
  <2>2. /\ \A d \in FileChannels : d # c => reading'[d] = reading[d]
        /\ reading'[c].file = target /\ reading'[c] # NotReading
    BY <1>1, <1>10 DEF DiskTypes, NotReading
  <2>3. ASSUME c \notin stale \cup gone PROVE ChannelKept(c)'
    <3>1. fcall[c].op = "download" /\ Tail(requests[c]) = <<>> /\ replies[c] = <<>>
      BY <1>1, <1>4, <2>3, RequestOfCall
    <3>2. DownloadKept(c)
      BY <1>1, <2>3, <3>1 DEF ChannelKept
    <3>3. ~ fcall[c].resume => ours[c] = <<>>
      <4>1. ~ One(replies[c], {"Error"})
        BY <3>1 DEF One
      <4>2. reading[c] = NotReading /\ requests[c] # <<>>
        BY <1>4 DEF HostRests
      <4>. QED
        BY <3>2, <4>1, <4>2 DEF DownloadKept
    <3>4. PICK s \in Sources : disk[target] = Bytes(s)
      BY <1>1, <1>10 DEF NamesKept, Whole
    <3>5. replies'[c] = <<>> /\ requests'[c] = <<>> /\ fcall' = fcall /\ ours' = ours /\ placing' = placing
      BY <1>2, <1>4, <1>10, <3>1 DEF clientFiles
    <3>6. Len(ours'[c]) = 0 \/ fcall'[c].resume
      BY <3>3, <3>5
    <3>7. ComesFrom(c, s)'
      BY <1>3, <2>2, <3>4, <3>5, <3>6 DEF ComesFrom
    <3>8. All(replies'[c], "Chunk")
      BY <3>5 DEF All
    <3>9. DownloadKept(c)'
      BY <2>2, <3>2, <3>5, <3>7, <3>8 DEF DownloadKept
    <3>. QED
      BY <3>1, <3>5, <3>9 DEF ChannelKept
  <2>. QED
    BY <1>2, <1>3, <1>4, <1>10, <2>1, <2>2, <2>3, HostStep
<1>. QED
  BY <1>8, <1>9, <1>10

LEMMA ReadsOnKeeps ==
    ASSUME FilesKept, NEW c \in FileChannels, ReadsOn(c)
    PROVE  FilesKept'
<1>1. CallTypes /\ DiskInv /\ DiskTypes /\ ReadKept(c) /\ ChannelKept(c)
  BY DEF FilesKept, DiskInv, DiskKept
<1>2. UNCHANGED <<uploading, placing, requests, gone, clientFiles, stale, renewed>> /\ reading[c] # NotReading
  BY DEF ReadsOn, fileHistory
<1>3. DiskInv' /\ disk' = disk
  BY <1>1, ReadsOnDisk
<1>4. PICK k, at : k = reading[c].file /\ at = reading[c].at
  OBVIOUS
<1>5. k # NoPart /\ k \in Handles /\ at \in Nat /\ Whole(disk[k]) /\ disk[k] \in Seq(Sources)
  BY <1>1, <1>2, <1>4 DEF ReadKept, DiskTypes, FileOrNone
<1>6. PICK s \in Sources : disk[k] = Bytes(s)
  BY <1>5 DEF Whole
<1>7. PICK bytes \in Seq(Sources) : bytes = disk[k]
  BY <1>5
<1>8. Len(bytes) = SIZE /\ SIZE \in Nat /\ \A i \in 1 .. SIZE : bytes[i] = s
  BY <1>5, <1>6, <1>7, WholeIs, FilesAssumption DEF Bytes
<1>9. PICK r : r = IF c \in gone \/ at >= SIZE THEN [type |-> "End", size |-> SIZE]
                   ELSE [type |-> "Chunk", byte |-> bytes[at + 1]]
  OBVIOUS
<1>10. ~ at >= SIZE => bytes[at + 1] = s
  BY <1>5, <1>8
<1>11. /\ r \in HostReplies
       /\ c \in gone \/ at >= SIZE => r.type = "End"
       /\ ~ (c \in gone \/ at >= SIZE) => r.type = "Chunk" /\ r.byte = s
  BY <1>9, <1>10 DEF HostReplies
<1>12. /\ Emits(c, r)
       /\ c \in gone \/ at >= SIZE => reading' = [reading EXCEPT ![c] = NotReading]
       /\ ~ (c \in gone \/ at >= SIZE) => reading' = [reading EXCEPT ![c].at = @ + 1]
  <2>1. CASE c \in gone \/ at >= SIZE
    <3>1. c \in gone \/ reading[c].at >= Len(disk[reading[c].file])
      BY <1>4, <1>7, <1>8, <2>1
    <3>2. reading' = [reading EXCEPT ![c] = NotReading] /\ Emits(c, [type |-> "End", size |-> Len(disk[reading[c].file])])
      BY <3>1 DEF ReadsOn
    <3>3. r = [type |-> "End", size |-> Len(disk[reading[c].file])]
      BY <1>4, <1>7, <1>8, <1>9, <2>1
    <3>. QED
      BY <2>1, <3>2, <3>3
  <2>2. CASE ~ (c \in gone \/ at >= SIZE)
    <3>1. ~ (c \in gone \/ reading[c].at >= Len(disk[reading[c].file]))
      BY <1>4, <1>7, <1>8, <2>2
    <3>2. /\ reading' = [reading EXCEPT ![c].at = @ + 1]
          /\ Emits(c, [type |-> "Chunk", byte |-> disk[reading[c].file][reading[c].at + 1]])
      BY <3>1 DEF ReadsOn
    <3>3. r = [type |-> "Chunk", byte |-> disk[reading[c].file][reading[c].at + 1]]
      BY <1>4, <1>7, <1>9, <2>2
    <3>. QED
      BY <2>2, <3>2, <3>3
  <2>. QED
    BY <2>1, <2>2
<1>13. /\ \A d \in FileChannels : d # c => reading'[d] = reading[d]
       /\ c \in gone \/ at >= SIZE => reading'[c] = NotReading
       /\ ~ (c \in gone \/ at >= SIZE) => reading'[c].file = k /\ reading'[c] # NotReading
  <2>1. reading \in [FileChannels -> [file : FileOrNone, at : Nat]]
    BY <1>1 DEF DiskTypes
  <2>2. CASE c \in gone \/ at >= SIZE
    BY <1>12, <2>1, <2>2
  <2>3. CASE ~ (c \in gone \/ at >= SIZE)
    <3>1. PICK new : new = [reading[c] EXCEPT !.at = reading[c].at + 1]
      OBVIOUS
    <3>2. reading' = [reading EXCEPT ![c] = new]
      BY <1>12, <2>1, <2>3, <3>1
    <3>3. new.file = k
      BY <1>4, <2>1, <3>1
    <3>. QED
      BY <1>5, <2>1, <2>3, <3>2, <3>3 DEF NotReading
  <2>. QED
    BY <2>2, <2>3
<1>14. /\ replies' \in [FileChannels -> Seq(HostReplies)] /\ replies[c] \in Seq(HostReplies)
       /\ \A d \in FileChannels : d # c => replies'[d] = replies[d]
       /\ c \notin gone => replies'[c] = Append(replies[c], r)
  BY <1>1, <1>11, <1>12, Emitted
<1>15. requests' \in [FileChannels -> Seq(HostRequests)]
  BY <1>1, <1>2 DEF CallTypes
<1>16. ASSUME c \notin stale \cup gone PROVE ChannelKept(c)'
  <2>1. fcall[c].op = "download"
    <3>1. fcall[c].op \in {"idle", "ask", "upload", "download"}
          /\ (fcall[c].op = "upload" => fcall[c].stage \in {"opening", "sending", "finishing"})
      <4>1. fcall[c] \in FileCalls
        BY <1>1 DEF CallTypes
      <4>. QED
        BY <1>1, <4>1, UploadIs DEF FileCalls
    <3>2. ~ HostRests(c)
      BY <1>2 DEF HostRests
    <3>. QED
      BY <1>1, <1>2, <1>16, <3>1, <3>2 DEF ChannelKept, Answering, OpeningKept, SendingKept, FinishingKept
  <2>2. DownloadKept(c)
    BY <1>1, <1>16, <2>1 DEF ChannelKept
  <2>3. PICK q \in Seq(HostReplies) : q = replies[c]
    BY <1>14
  <2>4. requests[c] = <<>> /\ All(q, "Chunk") /\ \E x \in Sources : ComesFrom(c, x)
    BY <1>2, <2>2, <2>3 DEF DownloadKept
  <2>5. PICK x \in Sources : ComesFrom(c, x)
    BY <2>4
  <2>6. x = s
    <3>1. bytes = Bytes(x)
      BY <1>2, <1>4, <1>7, <2>5 DEF ComesFrom
    <3>2. bytes[1] = x /\ bytes[1] = s
      BY <1>8, <3>1, FilesAssumption DEF Bytes
    <3>. QED
      BY <3>2
  <2>7. PICK w : w = Append(q, r)
    OBVIOUS
  <2>8. /\ Len(w) = Len(q) + 1 /\ Len(q) \in Nat /\ w[Len(q) + 1] = r
        /\ \A i \in 1 .. Len(q) : w[i] = q[i]
    BY <1>11, <2>7, Newest
  <2>9. \A i \in 1 .. Len(w) : w[i].type = "Chunk" => w[i].byte = s
    <3>1. \A i \in 1 .. Len(q) : q[i].type = "Chunk" => q[i].byte = s
      BY <2>3, <2>5, <2>6 DEF ComesFrom
    <3>2. r.type = "Chunk" => r.byte = s
      BY <1>11
    <3>. QED
      BY <2>8, <3>1, <3>2
  <2>10. replies'[c] = w /\ fcall' = fcall /\ ours' = ours
    BY <1>2, <1>14, <1>16, <2>3, <2>7 DEF clientFiles
  <2>11. reading'[c] # NotReading => disk'[reading'[c].file] = Bytes(s)
    BY <1>3, <1>6, <1>13
  <2>12. ComesFrom(c, s)'
    BY <2>5, <2>6, <2>9, <2>10, <2>11 DEF ComesFrom
  <2>13. \/ reading'[c] # NotReading /\ All(w, "Chunk")
         \/ reading'[c] = NotReading /\ AllThen(w, "Chunk", {"End"})
    <3>1. CASE at >= SIZE
      BY <1>11, <1>13, <2>4, <2>7, <3>1, AllAppended
    <3>2. CASE ~ at >= SIZE
      BY <1>11, <1>13, <1>16, <2>4, <2>7, <3>2, AllAppended
    <3>. QED
      BY <3>1, <3>2
  <2>14. DownloadKept(c)'
    BY <1>2, <2>2, <2>4, <2>10, <2>12, <2>13 DEF DownloadKept
  <2>. QED
    BY <2>1, <2>10, <2>14 DEF ChannelKept
<1>. QED
  BY <1>2, <1>3, <1>13, <1>14, <1>15, <1>16, HostStep

LEMMA KillHostKeeps ==
    ASSUME FilesKept, KillHost
    PROVE  FilesKept'
<1>1. CallTypes /\ DiskInv
  BY DEF FilesKept
<1>2. DiskInv'
  BY <1>1, KillHostDisk
<1>3. /\ requests' = [c \in FileChannels |-> <<>>] /\ replies' = [c \in FileChannels |-> <<>>]
      /\ fcall' = [c \in FileChannels |-> NoCall] /\ reading' = [c \in FileChannels |-> NotReading] /\ placing' = {}
      /\ UNCHANGED <<gone, ours, dest, stale, renewed>>
  BY DEF KillHost, fileHistory
<1>4. CallTypes'
  BY <1>1, <1>3, EmptyIs, NoCallIs DEF CallTypes
<1>5. ASSUME NEW c \in FileChannels PROVE ChannelKept(c)' /\ CopyKept(c)'
  <2>1. fcall'[c].op = "idle" /\ HostRests(c)' /\ requests'[c] = <<>> /\ replies'[c] = <<>>
    BY <1>3, NoCallIs DEF HostRests
  <2>2. CopyKept(c)
    BY DEF FilesKept
  <2>. QED
    BY <1>3, <2>1, <2>2 DEF ChannelKept, CopyKept, OfOne, Whole
<1>. QED
  BY <1>2, <1>4, <1>5 DEF FilesKept

LEMMA FilesBegin == FilesInit => FilesInv
<1>. SUFFICES ASSUME FilesInit PROVE FilesInv
  OBVIOUS
<1>1. 1 \in Handles /\ NoPart \notin Handles
  BY FilesAssumption, FS_CardinalityType, HandlesAreNumbers DEF Handles
<1>2. PICK s \in Sources : disk = [f \in Handles |-> IF f = target THEN Bytes(s) ELSE <<>>]
  BY DEF FilesInit
<1>3. Bytes(s) \in Seq(Sources)
  BY FilesAssumption DEF Bytes
<1>4. disk \in [Handles -> Seq(Sources)] /\ target \in FileOrNone /\ (target # NoPart => disk[target] = Bytes(s))
  BY <1>1, <1>2, <1>3, EmptyIs DEF FilesInit, FileOrNone
<1>5. NoUpload \in [file : FileOrNone, size : Nat, written : Nat, acked : Nat] /\ NotReading \in [file : FileOrNone, at : Nat]
  BY DEF NoUpload, NotReading, FileOrNone
<1>6. DiskTypes
  BY <1>4, <1>5 DEF FilesInit, DiskTypes, FileOrNone
<1>7. NamesKept
  BY <1>4 DEF FilesInit, NamesKept, Whole
<1>8. \A c \in FileChannels : UploadKept(c) /\ ReadKept(c) /\ ~ Uploads(c)
  BY DEF FilesInit, UploadKept, ReadKept, Uploads, NoUpload, NotReading
<1>9. DiskInv
  BY <1>6, <1>7, <1>8 DEF DiskInv, DiskKept
<1>10. CallTypes
  BY EmptyIs, NoCallIs DEF FilesInit, CallTypes
<1>11. ASSUME NEW c \in FileChannels PROVE ChannelKept(c) /\ CopyKept(c)
  <2>1. fcall[c].op = "idle" /\ HostRests(c) /\ requests[c] = <<>> /\ replies[c] = <<>>
    BY NoCallIs DEF FilesInit, HostRests
  <2>2. ours[c] = <<>> /\ dest[c] = <<>> /\ OfOne(<<>>)
    BY DEF FilesInit, OfOne
  <2>. QED
    BY <2>1, <2>2 DEF ChannelKept, CopyKept
<1>. QED
  BY <1>9, <1>10, <1>11 DEF FilesInit, FilesInv, FilesKept

\* Uploads that overlap, or go on where another source's stopped, are not taken back.
LEMMA MixedStays ==
    ASSUME mixed \in BOOLEAN, [FilesNext]_fileVars
    PROVE  mixed' \in BOOLEAN /\ (mixed => mixed')
<1>1. ASSUME NEW c \in FileChannels, OpensUpload(c) PROVE mixed' \in BOOLEAN /\ (mixed => mixed')
  <2>1. \E P : mixed' = (mixed \/ P # {})
    BY <1>1 DEF OpensUpload
  <2>. QED
    BY <2>1
<1>2. ASSUME NEW c \in FileChannels, WritesChunk(c) PROVE mixed' \in BOOLEAN /\ (mixed => mixed')
  <2>1. PICK n, x, b : mixed' = mixed \/ mixed' = (mixed \/ (n > 1 /\ x # b))
    BY <1>2 DEF WritesChunk
  <2>. QED
    BY <2>1
<1>3. CASE UNCHANGED mixed
  BY <1>3
<1>4. (\A c \in FileChannels : ~ OpensUpload(c) /\ ~ WritesChunk(c)) => UNCHANGED mixed
  <2>1. UNCHANGED fileVars \/ UNCHANGED fileHistory => UNCHANGED mixed
    BY DEF fileVars, fileHistory
  <2>2. KillHost => UNCHANGED mixed
    BY DEF KillHost, fileHistory
  <2>3. ASSUME NEW c \in FileChannels,
               \/ AskAbout(c) \/ EndsCall(c) \/ TakeReady(c) \/ TakeAck(c) \/ SendChunk(c)
               \/ SendFinish(c) \/ TakeChunk(c) \/ TakeEnd(c) \/ GiveUpCall(c) \/ CloseFiles(c)
        PROVE  UNCHANGED mixed
    BY <2>3, <2>1 DEF AskAbout, EndsCall, TakeReady, TakeAck, SendChunk, SendFinish, TakeChunk,
                      TakeEnd, GiveUpCall, CloseFiles
  <2>4. ASSUME NEW c \in FileChannels,
               \/ AnswersAsk(c) \/ RefusesPath(c) \/ Finishes(c) \/ PutsInPlace(c)
               \/ OpensFile(c) \/ ReadsOn(c)
        PROVE  UNCHANGED mixed
    BY <2>4, <2>1 DEF AnswersAsk, RefusesPath, Finishes, PutsInPlace, OpensFile, ReadsOn
  <2>5. ASSUME NEW c \in FileChannels, NEW resume \in BOOLEAN,
               BeginDownload(c, resume) \/ \E s \in Sources : BeginUpload(c, s, resume)
        PROVE  UNCHANGED mixed
    BY <2>5, <2>1 DEF BeginDownload, BeginUpload
  <2>. QED
    BY <2>1, <2>2, <2>3, <2>4, <2>5 DEF FilesNext
<1>. QED
  BY <1>1, <1>2, <1>3, <1>4

LEMMA FilesStep == FilesInv /\ [FilesNext]_fileVars => FilesInv'
<1>. SUFFICES ASSUME FilesInv, [FilesNext]_fileVars, ~ mixed' PROVE FilesKept'
  BY MixedStays DEF FilesInv
<1>1. FilesKept
  BY MixedStays DEF FilesInv
<1>2. CASE UNCHANGED fileVars
  <2>1. UNCHANGED <<disk, target, partial, uploading, placing, reading, placed, undone>>
    BY <1>2 DEF fileVars, hostFiles, fileHistory
  <2>2. UNCHANGED <<requests, replies, gone, fcall, ours, dest, stale, renewed>>
    BY <1>2 DEF fileVars, clientFiles, fileHistory
  <2>3. DiskInv'
    BY <1>1, <2>1 DEF FilesKept, DiskInv, DiskKept, DiskTypes, NamesKept, UploadKept, ReadKept, Uploads
  <2>4. CallTypes'
    BY <1>1, <2>2 DEF FilesKept, CallTypes
  <2>5. \A c \in FileChannels : Apart(c)
    BY <2>1, <2>2 DEF Apart
  <2>. QED
    BY <1>1, <2>3, <2>4, <2>5, ApartKeeps DEF FilesKept
<1>3. CASE KillHost
  BY <1>1, <1>3, KillHostKeeps
<1>4. ASSUME NEW c \in FileChannels,
             \/ AskAbout(c) \/ EndsCall(c) \/ TakeReady(c) \/ TakeAck(c) \/ SendChunk(c)
             \/ SendFinish(c) \/ TakeChunk(c) \/ TakeEnd(c) \/ GiveUpCall(c) \/ CloseFiles(c)
      PROVE  FilesKept'
  BY <1>1, <1>4, AskAboutKeeps, EndsCallKeeps, TakeReadyKeeps, TakeAckKeeps, SendChunkKeeps, SendFinishKeeps,
     TakeChunkKeeps, TakeEndKeeps, GiveUpCallKeeps, CloseFilesKeeps
<1>5. ASSUME NEW c \in FileChannels,
             \/ AnswersAsk(c) \/ RefusesPath(c) \/ OpensUpload(c) \/ WritesChunk(c) \/ Finishes(c)
             \/ PutsInPlace(c) \/ OpensFile(c) \/ ReadsOn(c)
      PROVE  FilesKept'
  BY <1>1, <1>5, AnswersAskKeeps, RefusesPathKeeps, OpensUploadKeeps, WritesChunkKeeps, FinishesKeeps,
     PutsInPlaceKeeps, OpensFileKeeps, ReadsOnKeeps
<1>6. ASSUME NEW c \in FileChannels, NEW resume \in BOOLEAN,
             BeginDownload(c, resume) \/ \E s \in Sources : BeginUpload(c, s, resume)
      PROVE  FilesKept'
  BY <1>1, <1>6, BeginDownloadKeeps, BeginUploadKeeps
<1>. QED
  BY <1>2, <1>3, <1>4, <1>5, <1>6 DEF FilesNext

\* Whatever is killed, closed or begun again while files are uploaded and downloaded
\* (host-core/src/files.rs, client-core/src/files.rs), the name stands for a whole file,
\* and a file that was replaced is there, old or new.
THEOREM FilesSurvive == FilesSpec => []FilesAreKept
<1>1. FilesInv => FilesAreKept
  <2>. SUFFICES ASSUME FilesInv PROVE FilesAreKept
    OBVIOUS
  <2>1. ~ mixed => NamesKept /\ \A c \in FileChannels : CopyKept(c)
    BY DEF FilesInv, FilesKept, DiskInv, DiskKept
  <2>2. FilesAreWhole
    BY <2>1 DEF FilesAreWhole, NamesKept, CopyKept
  <2>3. OldOrNewIsThere
    BY <2>1 DEF OldOrNewIsThere, NamesKept
  <2>. QED
    BY <2>2, <2>3 DEF FilesAreKept
<1>. QED
  BY <1>1, FilesBegin, FilesStep, PTL DEF FilesSpec
===============================================================================
