---------------------------- MODULE WindowsCapture ----------------------------
(* The Windows agent's way from a window to the frames of its track:         *)
(*                                                                           *)
(*  - capture.rs: Windows.Graphics.Capture puts pictures in a pool; poll     *)
(*    takes the next one, makes the pool again when the window has another   *)
(*    size, and converts on the GPU (into a texture or read back as NV12),   *)
(*    falling back to BGRA for good when that fails;                         *)
(*  - source.rs: next_frame, called by the stream's thread, returns one      *)
(*    encoded unit at a time.  It opens a new encoder when the size, the     *)
(*    frame rate or the options' generation changed, gives a new bitrate     *)
(*    alone to the running one, and announces the size with the first unit   *)
(*    of a new encoder.  Units an encoder made in one go wait in `pending`;  *)
(*  - encoder.rs: an encoder may hold units back, and asynchronous ones may  *)
(*    not take a picture in time at all.                                     *)
(*                                                                           *)
(* The options change on another thread, the window on its own.  Colours     *)
(* and picture contents are left out; a size is one number of pixels, scaled *)
(* and rounded to even as the code does.  Clocks are left out: a check that  *)
(* is due after a time may be due at any turn.                               *)
EXTENDS Naturals, Sequences, FiniteSets, SequencesExt

CONSTANTS
    WinSizes,         \* the widths a window takes
    WinOptions,       \* the options' records: fps, bitrate
    Qualities,        \* the adaptive qualities: half, fps, bitrate (0: none)
    BUFFERS,          \* pictures the pool holds
    LATENCY,          \* units an encoder may hold back
    MaxOptionChanges, MaxResizes, MaxArrivals, MaxUnits   \* bounds of the model

ASSUME WinCapAssumption ==
    /\ WinSizes # {} /\ WinSizes \subseteq Nat
    /\ WinOptions # {} /\ WinOptions \subseteq [fps : Nat, bitrate : Nat]
    /\ Qualities \subseteq [half : BOOLEAN, fps : Nat, bitrate : Nat]

VARIABLES
    streamKind,  \* "window", "desktop", "secure" or "pictures"
    theWindow,   \* open, size, and how often it was resized
    reachable,   \* the input desktop can be captured (not locked)
    winOptions,  \* the options and their generation
    pool,        \* the captured pictures waiting, and how many arrived
    cap,         \* the capture, or NoCapture
    winStream,   \* the stream's own state
    winEncoder,  \* the encoder
    winTurn,     \* where the stream's thread is in next_frame
    winSent      \* what the track carried: the last size, and the last unit

winCapVars == <<streamKind, theWindow, reachable, winOptions, pool, cap,
                winStream, winEncoder, winTurn, winSent>>

NoCapture == [kind |-> "none"]

EvenSize(n) == n - (n % 2)

(* Half is the scale the model takes; the code rounds, then makes it even,   *)
(* and keeps two pixels.                                                     *)
ScaledSize(n, half) ==
    LET at == EvenSize((n + 1) \div 2)
    IN  IF ~half THEN EvenSize(n) ELSE IF at < 2 THEN 2 ELSE at

Capped(limit, n) == IF limit = 0 \/ n < limit THEN n ELSE limit

StreamSettings(options, quality) ==
    [fps |-> Capped(quality.fps, options.fps),
     bitrate |-> Capped(quality.bitrate, options.bitrate)]

NoEncoderYet == [kind |-> "none", textures |-> FALSE, size |-> 0, force |-> FALSE,
                 held |-> <<>>]

NewWinStream ==
    [size |-> 0, generation |-> 0, settings |-> [fps |-> 0, bitrate |-> 0],
     pending |-> <<>>, announce |-> 0, quality |-> [half |-> FALSE, fps |-> 0, bitrate |-> 0],
     ended |-> "no"]

IdleTurn == [at |-> "idle", key |-> FALSE, options |-> [o |-> CHOOSE o \in WinOptions : TRUE, generation |-> 0],
             changed |-> FALSE]

WinCapInit ==
    /\ streamKind \in {"window", "desktop", "secure", "pictures"}
    /\ theWindow = [open |-> TRUE, size |-> CHOOSE s \in WinSizes : TRUE, resized |-> 0]
    /\ reachable = TRUE
    /\ winOptions \in [o : WinOptions, generation : {1}]
    /\ pool = [frames |-> <<>>, arrived |-> 0]
    /\ cap = NoCapture
    /\ winStream = NewWinStream
    /\ winEncoder = NoEncoderYet
    /\ winTurn = IdleTurn
    /\ winSent = [size |-> 0, units |-> 0, unit |-> [size |-> 0, key |-> TRUE],
                  announced |-> FALSE]

(* --- the machine around it ------------------------------------------------ *)

WindowResizes ==
    /\ theWindow.open /\ theWindow.resized < MaxResizes
    /\ \E s \in WinSizes \ {theWindow.size} :
          theWindow' = [theWindow EXCEPT !.size = s, !.resized = @ + 1]
    /\ UNCHANGED <<streamKind, reachable, winOptions, pool, cap, winStream, winEncoder,
                   winTurn, winSent>>

WindowCloses ==
    /\ theWindow.open
    /\ theWindow' = [theWindow EXCEPT !.open = FALSE]
    /\ UNCHANGED <<streamKind, reachable, winOptions, pool, cap, winStream, winEncoder,
                   winTurn, winSent>>

ScreenLocks ==
    /\ streamKind = "desktop" /\ theWindow.resized < MaxResizes
    /\ reachable' = ~reachable
    /\ theWindow' = [theWindow EXCEPT !.resized = @ + 1]
    /\ UNCHANGED <<streamKind, winOptions, pool, cap, winStream, winEncoder, winTurn,
                   winSent>>

FrameArrives ==
    /\ cap # NoCapture /\ theWindow.open
    /\ Len(pool.frames) < BUFFERS /\ pool.arrived < MaxArrivals
    /\ pool' = [frames |-> Append(pool.frames, theWindow.size),
                arrived |-> pool.arrived + 1]
    /\ UNCHANGED <<streamKind, theWindow, reachable, winOptions, cap, winStream,
                   winEncoder, winTurn, winSent>>

SetWinOptions ==
    /\ winOptions.generation <= MaxOptionChanges
    /\ \E o \in WinOptions \ {winOptions.o} :
          winOptions' = [o |-> o, generation |-> winOptions.generation + 1]
    /\ UNCHANGED <<streamKind, theWindow, reachable, pool, cap, winStream, winEncoder,
                   winTurn, winSent>>

(* --- the capture ------------------------------------------------------------ *)

(* A capture of the window, or of the monitor it is on.  The converter is    *)
(* there when the device makes one; pictures for other backends want none.   *)
NewCapture(kind, converter) ==
    [kind |-> kind, pool |-> theWindow.size, converter |-> converter, output |-> FALSE,
     texture |-> 0, nv12 |-> 0, pixels |-> 0]

(* Capture::window falls back to the screen when the window is refused.      *)
CapturesFor(screen) ==
    {NewCapture(kind, c) : kind \in IF screen THEN {"desktop"} ELSE {"window", "desktop"},
                           c \in IF streamKind = "pictures" THEN {FALSE} ELSE BOOLEAN}

(* What a picture taken now is cut to; a window off the screen has no part.  *)
Cuts(c, size) ==
    IF c.kind = "window" THEN {size} ELSE {theWindow.size, 0}

(* Capture::convert, or read_back when there is no converter any more.  A    *)
(* picture too small to have two pixels leaves what was there.               *)
AfterPicture(c, size) ==
    LET half == winStream.quality.half
        back == [c EXCEPT !.converter = FALSE, !.nv12 = 0, !.output = FALSE, !.texture = 0,
                          !.pixels = size]
    IN  IF ~c.converter THEN {[c EXCEPT !.pixels = size]}
        ELSE UNION {
               IF cut < 2 THEN {c}
               ELSE {back, [c EXCEPT !.output = FALSE, !.texture = 0,
                                     !.nv12 = ScaledSize(cut, half)]}
                    \union IF c.output
                           THEN {[c EXCEPT !.texture = ScaledSize(cut, half)]}
                           ELSE {} : cut \in Cuts(c, size)}

NoPicture == [form |-> "none", size |-> 0]

PicturesOf(c) ==
    IF c.output /\ c.texture # 0 THEN {[form |-> "texture", size |-> c.texture]}
    ELSE IF c.nv12 # 0 THEN {[form |-> "nv12", size |-> c.nv12]}
    ELSE IF c.pixels < 2 THEN {NoPicture}
    ELSE {IF cut < 2 THEN NoPicture ELSE [form |-> "bgra", size |-> cut] :
             cut \in Cuts(c, c.pixels)}

(* A picture in memory is scaled by the stream, the others came scaled.      *)
Fitted(p) ==
    IF p.form = "bgra" THEN ScaledSize(p.size, winStream.quality.half)
    ELSE EvenSize(p.size)

(* From the next picture on, textures for an encoder that takes them.        *)
WithOutput(c, on) ==
    LET output == on /\ c.converter
    IN  [c EXCEPT !.output = output, !.texture = IF output THEN @ ELSE 0]

(* --- the encoders ------------------------------------------------------------ *)

(* The encoders a reopening may end with.  The choice's own are tried first  *)
(* and, when none of them opens, every automatic one: Media Foundation, on   *)
(* the GPU or not, then OpenH264.  Only one on the capture's own GPU takes   *)
(* its textures.                                                             *)
EncodersFor(size, converter) ==
    {[kind |-> "mf", textures |-> t, size |-> size, force |-> TRUE, held |-> <<>>] :
        t \in IF converter THEN BOOLEAN ELSE {FALSE}}
    \union {[kind |-> "openh264", textures |-> FALSE, size |-> size, force |-> TRUE,
             held |-> <<>>]}

Takes(e, form) == e.kind = "openh264" => form # "texture"

(* What encoding one picture can do: the units that come out, and the        *)
(* encoder after it.  A keyframe asked for is remembered by the encoder until *)
(* it takes a picture.  OpenH264 gives its unit at once or skips a picture    *)
(* that is no keyframe; Media Foundation may hold units, or take nothing.    *)
EncodedAs(e, key) ==
    LET force == e.force \/ key
        with  == Append(e.held, [size |-> e.size, key |-> force])
        out(all, after) ==
            {[units |-> SubSeq(all, 1, n),
              encoder |-> [e EXCEPT !.held = SubSeq(all, n + 1, Len(all)), !.force = after]] :
                 n \in {i \in 0 .. Len(all) : Len(all) - i <= LATENCY}}
    IN  IF e.kind = "openh264"
        THEN {[units |-> with, encoder |-> [e EXCEPT !.force = FALSE]]}
             \union IF force THEN {} ELSE {[units |-> <<>>, encoder |-> e]}
        ELSE out(with, FALSE) \union out(e.held, force)

(* --- the stream's thread ----------------------------------------------------- *)

EndStream(why) ==
    /\ winStream' = [winStream EXCEPT !.ended = why]
    /\ winTurn' = IdleTurn

(* take_pending: the oldest unit goes out, with the size not announced yet.  *)
GiveUnit(s) ==
    /\ winSent' = [size |-> IF s.announce = 0 THEN winSent.size ELSE s.announce,
                   units |-> winSent.units + 1, unit |-> Head(s.pending),
                   announced |-> s.announce # 0]
    /\ winStream' = [s EXCEPT !.pending = Tail(@), !.announce = 0]
    /\ winTurn' = IdleTurn

(* next_frame is called: a waiting unit goes out unless a keyframe is asked. *)
NextFrame ==
    /\ streamKind # "pictures"
    /\ winTurn.at = "idle" /\ winStream.ended = "no" /\ winSent.units < MaxUnits
    /\ \E key \in BOOLEAN :
          IF ~key /\ winStream.pending # <<>>
          THEN GiveUnit(winStream)
          ELSE /\ winTurn' = [IdleTurn EXCEPT !.at = "top", !.key = key]
               /\ UNCHANGED <<winStream, winSent>>
    /\ UNCHANGED <<streamKind, theWindow, reachable, winOptions, pool, cap, winEncoder>>

NextPictureAsked ==
    /\ streamKind = "pictures"
    /\ winTurn.at = "idle" /\ winStream.ended = "no" /\ winSent.units < MaxUnits
    /\ winTurn' = [IdleTurn EXCEPT !.at = "top"]
    /\ UNCHANGED <<streamKind, theWindow, reachable, winOptions, pool, cap, winStream,
                   winEncoder, winSent>>

SetQuality ==
    /\ winTurn.at = "idle" /\ winStream.ended = "no" /\ streamKind # "pictures"
    /\ \E q \in Qualities \ {winStream.quality} :
          winStream' = [winStream EXCEPT !.quality = q]
    /\ UNCHANGED <<streamKind, theWindow, reachable, winOptions, pool, cap, winEncoder,
                   winTurn, winSent>>

(* The first call opens the capture; every turn of the loop ends with the    *)
(* window, and reads the options.                                            *)
OpenCapture ==
    /\ winTurn.at = "top" /\ cap = NoCapture /\ streamKind # "secure"
    /\ \/ EndStream("capture") /\ UNCHANGED <<cap, pool>>
       \/ \E c \in CapturesFor(streamKind = "desktop" /\ reachable) :
             cap' = c /\ pool' = [pool EXCEPT !.frames = <<>>] /\ UNCHANGED <<winStream, winTurn>>
    /\ UNCHANGED <<streamKind, theWindow, reachable, winOptions, winEncoder, winSent>>

WindowIsGone ==
    /\ winTurn.at = "top" /\ cap # NoCapture /\ ~theWindow.open
    /\ EndStream("window")
    /\ UNCHANGED <<streamKind, theWindow, reachable, winOptions, pool, cap, winEncoder,
                   winSent>>

(* A locked screen cannot be cut: a desktop stream changes to the window's   *)
(* own capture and back, and opens its encoder again.                        *)
LockCheck ==
    /\ winTurn.at = "top" /\ cap # NoCapture /\ theWindow.open
    /\ streamKind = "desktop" /\ reachable # (cap.kind = "desktop")
    /\ \E c \in CapturesFor(reachable) :
          /\ cap' = c
          /\ pool' = [pool EXCEPT !.frames = <<>>]
    /\ winStream' = [winStream EXCEPT !.size = 0]
    /\ winTurn' = [winTurn EXCEPT !.at = "poll", !.options = winOptions]
    /\ UNCHANGED <<streamKind, theWindow, reachable, winOptions, winEncoder, winSent>>

ReadOptions ==
    /\ winTurn.at = "top"
    /\ streamKind # "secure" => cap # NoCapture /\ theWindow.open
    /\ winTurn' = [winTurn EXCEPT !.at = IF streamKind = "secure" THEN "encode" ELSE "poll",
                                  !.options = winOptions]
    /\ UNCHANGED <<streamKind, theWindow, reachable, winOptions, pool, cap, winStream,
                   winEncoder, winSent>>

(* The pool has the window's new size from here on; what it held is gone.    *)
PoolIsMadeAgain ==
    /\ winTurn.at = "poll" /\ pool.frames # <<>>
    /\ cap.kind = "window" /\ Head(pool.frames) # cap.pool
    /\ cap' = [cap EXCEPT !.pool = Head(pool.frames)]
    /\ pool' = [pool EXCEPT !.frames = <<>>]
    /\ UNCHANGED <<streamKind, theWindow, reachable, winOptions, winStream, winEncoder,
                   winTurn, winSent>>

PollTakes ==
    /\ winTurn.at = "poll" /\ pool.frames # <<>>
    /\ cap.kind = "window" => Head(pool.frames) = cap.pool
    /\ cap' \in AfterPicture(cap, Head(pool.frames))
    /\ pool' = [pool EXCEPT !.frames = Tail(@)]
    /\ winTurn' = [winTurn EXCEPT !.at = "encode", !.changed = TRUE]
    /\ UNCHANGED <<streamKind, theWindow, reachable, winOptions, winStream, winEncoder,
                   winSent>>

PollTimesOut ==
    /\ winTurn.at = "poll" /\ pool.frames = <<>>
    /\ \/ /\ winTurn' = [winTurn EXCEPT !.at = "encode", !.changed = FALSE]
          /\ UNCHANGED winStream
       \/ EndStream("capture")
    /\ UNCHANGED <<streamKind, theWindow, reachable, winOptions, pool, cap, winEncoder,
                   winSent>>

(* Nothing to send: no picture, or nothing new and no refresh due.           *)
NothingToSend ==
    /\ winTurn.at = "encode" /\ streamKind # "secure"
    /\ \E p \in PicturesOf(cap) :
          p = NoPicture \/ ~(winTurn.changed \/ winTurn.key)
    /\ winTurn' = [winTurn EXCEPT !.at = "top"]
    /\ UNCHANGED <<streamKind, theWindow, reachable, winOptions, pool, cap, winStream,
                   winEncoder, winSent>>

(* The picture this turn encodes: the capture's, or the helper's.            *)
TurnPictures ==
    IF streamKind = "secure" THEN {[form |-> "bgra", size |-> theWindow.size]}
    ELSE PicturesOf(cap) \ {NoPicture}

TurnSize(p) == IF streamKind = "secure" THEN EvenSize(p.size) ELSE Fitted(p)

(* A new size, generation or frame rate opens a new encoder.                 *)
Reopens(size, asked) ==
    \/ size # winStream.size
    \/ winTurn.options.generation # winStream.generation
    \/ winStream.settings.fps # asked.fps

(* The stream once it has its new encoder: what the old one left is dropped  *)
(* and the size is announced with the next unit.                             *)
ReopenedKeeping(s, size, asked) ==
    [s EXCEPT !.size = size, !.generation = winTurn.options.generation,
              !.settings = asked, !.announce = size]
Reopened(s, size, asked) ==
    [s EXCEPT !.size = size, !.generation = winTurn.options.generation,
              !.settings = asked, !.announce = size, !.pending = <<>>]

(* Encodes p with e and gives the first unit, or goes round when none came.  *)
EncodeWith(s, e, p, key, c) ==
    IF ~Takes(e, p.form)
    THEN /\ winStream' = [s EXCEPT !.ended = "encoding"]
         /\ winTurn' = IdleTurn
         /\ winEncoder' = e
         /\ cap' = c
         /\ UNCHANGED winSent
    ELSE \E r \in EncodedAs(e, key) :
            LET after == [s EXCEPT !.pending = @ \o r.units]
            IN  /\ winEncoder' = r.encoder
                /\ cap' = c
                /\ IF after.pending # <<>>
                   THEN GiveUnit(after)
                   ELSE /\ winStream' = after
                        /\ winTurn' = [winTurn EXCEPT !.at = "top", !.key = key]
                        /\ UNCHANGED winSent

EncodeRunning ==
    /\ winTurn.at = "encode" /\ streamKind # "pictures"
    /\ \E p \in TurnPictures :
          LET size   == TurnSize(p)
              asked == StreamSettings(winTurn.options.o, winStream.quality)
          IN  /\ size >= 2 /\ ~Reopens(size, asked)
              /\ EncodeWith([winStream EXCEPT !.settings = asked], winEncoder, p,
                            winTurn.key, cap)
    /\ UNCHANGED <<streamKind, theWindow, reachable, winOptions, pool>>

(* An encoder that refuses a new bitrate is replaced as well.                *)
EncodeReopening ==
    /\ winTurn.at = "encode" /\ streamKind # "pictures"
    /\ \E p \in TurnPictures :
          LET size   == TurnSize(p)
              asked == StreamSettings(winTurn.options.o, winStream.quality)
          IN  /\ size >= 2
              /\ Reopens(size, asked) \/ winStream.settings.bitrate # asked.bitrate
              /\ \E e \in EncodersFor(size, streamKind # "secure" /\ cap.converter) :
                    EncodeWith(Reopened(winStream, size, asked), e, p, TRUE,
                               IF streamKind = "secure" THEN cap
                               ELSE WithOutput(cap, e.textures))
    /\ UNCHANGED <<streamKind, theWindow, reachable, winOptions, pool>>

(* The helper refuses, no encoder opens, or the encoder itself fails.        *)
StreamFails ==
    /\ winTurn.at = "encode" /\ streamKind # "pictures"
    /\ EndStream("failed")
    /\ UNCHANGED <<streamKind, theWindow, reachable, winOptions, pool, cap, winEncoder,
                   winSent>>

(* Other backends take the picture as it is.                                 *)
GivePicture ==
    /\ winTurn.at = "encode" /\ streamKind = "pictures"
    /\ \E p \in TurnPictures :
          winSent' = [winSent EXCEPT !.units = @ + 1]
    /\ winTurn' = IdleTurn
    /\ UNCHANGED <<streamKind, theWindow, reachable, winOptions, pool, cap, winStream,
                   winEncoder>>

WinCapNext ==
    \/ WindowResizes \/ WindowCloses \/ ScreenLocks \/ FrameArrives \/ SetWinOptions
    \/ NextFrame \/ NextPictureAsked \/ SetQuality
    \/ OpenCapture \/ WindowIsGone \/ LockCheck \/ ReadOptions
    \/ PoolIsMadeAgain \/ PollTakes \/ PollTimesOut \/ NothingToSend
    \/ EncodeRunning \/ EncodeReopening \/ StreamFails \/ GivePicture

WinCapSpec == WinCapInit /\ [][WinCapNext]_winCapVars

(* --- properties ---------------------------------------------------------------- *)

(* Every unit on the track has the size last announced to the client, and    *)
(* the unit an announcement comes with is a keyframe: what an older encoder  *)
(* left in `pending`, or still held, never follows a new size.               *)
UnitsFitTheAnnouncement ==
    winSent.units > 0 /\ streamKind # "pictures" =>
        /\ winSent.unit.size = winSent.size
        /\ winSent.announced => winSent.unit.key

-----------------------------------------------------------------------------
(***************************************************************************)
(* The Windows host's Media Foundation encoder (agent-windows/encoder.rs):  *)
(* how one is chosen and set up, and how a picture goes through it.  An     *)
(* asynchronous transform says by events when it wants input and when it    *)
(* has output; one BeginGetEvent at a time is outstanding, and its answer   *)
(* may come in a later encode than the one that asked.  A synchronous one   *)
(* is fed and emptied at once.  Pictures are their numbers; what a picture  *)
(* holds, types and settings that cannot fail differently are left out.     *)
(***************************************************************************)

CONSTANTS
    Candidates,     \* the encoders EncoderChoice::candidates lists, in order
    SLOTS,          \* inputs an asynchronous transform may want at a time
    ENCODER_LATENCY,        \* pictures a transform may hold back
    MaxPictures,    \* bound: pictures to encode
    MaxChanges      \* bound: changes of the output type

VARIABLES
    tried,          \* candidates tried so far
    setup,          \* how far the one being opened has come
    textures,       \* takes_textures
    encoderState,        \* the one that runs, or "none"
    invited,        \* inputs the transform wants and has not got
    inside,         \* pictures it holds
    ready,          \* pictures whose output it has not been asked for
    raised,         \* its events, before BeginGetEvent takes them
    askedEvent,     \* AsyncEvents.asked
    arrived,        \* AsyncEvents.arrived
    need_input,     \* MfEncoder.need_input
    call,           \* the encode under way: its picture, `given`, `out`
    encoded,        \* the outputs returned so far
    pictures, typeChanges

encoderVars == <<tried, setup, textures, encoderState, invited, inside, ready, raised, askedEvent, arrived,
                 need_input, call, encoded, pictures, typeChanges>>
opened == <<tried, setup, textures, encoderState>>
transform == <<invited, inside, ready, raised>>

NoCall == [on |-> FALSE, given |-> FALSE, out |-> <<>>]

EncoderInit ==
    /\ tried = 0 /\ setup = "none" /\ textures = FALSE /\ encoderState = "none"
    /\ invited = 0 /\ inside = <<>> /\ ready = <<>> /\ raised = <<>>
    /\ askedEvent = FALSE /\ arrived = <<>> /\ need_input = 0
    /\ call = NoCall /\ encoded = <<>>
    /\ pictures = 0 /\ typeChanges = 0

-----------------------------------------------------------------------------
\* Opening: the candidates in order, until one takes the settings.  Every
\* step may fail, and the next candidate is tried.

Opening(from, to) ==
    /\ encoderState = "none" /\ setup = from /\ tried < Len(Candidates)
    /\ setup' = to
    /\ UNCHANGED <<transform, askedEvent, arrived, need_input, call, encoded, pictures, typeChanges>>

\* The transform nearest to the capture's GPU, unlocked if it is asynchronous.
Activates == Opening("none", "activated") /\ UNCHANGED <<tried, encoderState, textures>>

\* One on the capture's GPU takes its textures.
TakesDevice == Opening("activated", "placed") /\ textures' \in BOOLEAN /\ UNCHANGED <<tried, encoderState>>

TakesTypes == Opening("placed", "typed") /\ UNCHANGED <<tried, encoderState, textures>>

StartsStreaming ==
    /\ Opening("typed", "streaming")
    /\ tried' = tried + 1
    /\ encoderState' = Candidates[tried + 1]
    /\ UNCHANGED textures

CandidateFails ==
    /\ Opening(setup, "none")
    /\ tried' = tried + 1 /\ textures' = FALSE
    /\ UNCHANGED encoderState

-----------------------------------------------------------------------------
\* The transform.

WantsInput ==
    /\ encoderState = "async"
    /\ invited + Len(inside) < SLOTS + ENCODER_LATENCY /\ invited < SLOTS
    /\ invited' = invited + 1
    /\ raised' = Append(raised, "NeedInput")
    /\ UNCHANGED <<opened, inside, ready, askedEvent, arrived, need_input, call, encoded,
                   pictures, typeChanges>>

HasOutput ==
    /\ encoderState = "async" /\ inside # <<>>
    /\ ready' = Append(ready, Head(inside))
    /\ inside' = Tail(inside)
    /\ raised' = Append(raised, "HaveOutput")
    /\ UNCHANGED <<opened, invited, askedEvent, arrived, need_input, call, encoded,
                   pictures, typeChanges>>

\* EventArrived::Invoke, on Media Foundation's work queue.
Invoke ==
    /\ askedEvent /\ arrived = <<>> /\ raised # <<>>
    /\ arrived' = <<Head(raised)>>
    /\ raised' = Tail(raised)
    /\ UNCHANGED <<opened, invited, inside, ready, askedEvent, need_input, call, encoded,
                   pictures, typeChanges>>

ProcessInput(p) == invited' = invited - 1 /\ inside' = Append(inside, p)

-----------------------------------------------------------------------------
\* MfEncoder::encode.

\* encode_sync: the picture goes in and what it completes comes out.
EncodeSync ==
    /\ encoderState = "sync" /\ pictures < MaxPictures
    /\ pictures' = pictures + 1
    /\ LET all == Append(inside, pictures') IN
         \E n \in 0..Len(all) :
            /\ Len(all) - n <= ENCODER_LATENCY
            /\ encoded' = encoded \o SubSeq(all, 1, n)
            /\ inside' = SubSeq(all, n + 1, Len(all))
    /\ UNCHANGED <<opened, invited, ready, raised, askedEvent, arrived, need_input, call,
                   typeChanges>>

\* encode_async begins: an input wanted earlier is given now.
BeginEncode ==
    /\ encoderState = "async" /\ ~ call.on /\ pictures < MaxPictures
    /\ pictures' = pictures + 1
    /\ call' = [on |-> TRUE, given |-> need_input > 0, out |-> <<>>]
    /\ IF need_input > 0
         THEN need_input' = need_input - 1 /\ ProcessInput(pictures')
         ELSE UNCHANGED <<need_input, invited, inside>>
    /\ UNCHANGED <<opened, ready, raised, askedEvent, arrived, encoded, typeChanges>>

\* AsyncEvents::next asks for one event at a time.
AskForEvent ==
    /\ call.on /\ ~ askedEvent
    /\ askedEvent' = TRUE
    /\ UNCHANGED <<opened, transform, arrived, need_input, call, encoded, pictures,
                   typeChanges>>

TakesEvent(kind) ==
    /\ call.on /\ askedEvent /\ arrived = <<kind>>
    /\ arrived' = <<>> /\ askedEvent' = FALSE

Returns(out) == call' = NoCall /\ encoded' = encoded \o out

EventRemembered == need_input' = need_input + 1

OnNeedInput ==
    /\ TakesEvent("NeedInput")
    /\ IF call.given
         THEN EventRemembered /\ UNCHANGED <<call, invited, inside>>
         ELSE ProcessInput(pictures) /\ call' = [call EXCEPT !.given = TRUE] /\ UNCHANGED need_input
    /\ UNCHANGED <<opened, ready, raised, encoded, pictures, typeChanges>>

\* pull: a change of the output type is answered, and announced once more.
OnHaveOutput ==
    /\ TakesEvent("HaveOutput")
    /\ \/ /\ ready' = Tail(ready)
          /\ LET out == Append(call.out, Head(ready)) IN
               IF call.given THEN Returns(out)
               ELSE call' = [call EXCEPT !.out = out] /\ UNCHANGED encoded
          /\ UNCHANGED <<raised, typeChanges>>
       \/ /\ typeChanges < MaxChanges /\ typeChanges' = typeChanges + 1
          /\ raised' = Append(raised, "HaveOutput")
          /\ IF call.given THEN Returns(call.out) ELSE UNCHANGED <<call, encoded>>
          /\ UNCHANGED ready
    /\ UNCHANGED <<opened, invited, inside, need_input, pictures>>

\* No event in time: TAKE_QUEUED with the picture in and some output in
\* hand, half a second otherwise.  A picture that was not wanted is left out.
NoEventInTime ==
    /\ call.on /\ askedEvent /\ arrived = <<>>
    /\ Returns(call.out)
    /\ UNCHANGED <<opened, transform, askedEvent, arrived, need_input, pictures, typeChanges>>

EncoderNext ==
    \/ CandidateFails \/ Activates \/ TakesDevice \/ TakesTypes \/ StartsStreaming
    \/ WantsInput \/ HasOutput \/ Invoke
    \/ EncodeSync \/ BeginEncode \/ AskForEvent \/ OnNeedInput \/ OnHaveOutput \/ NoEventInTime

EncoderSpec == EncoderInit /\ [][EncoderNext]_encoderVars

-----------------------------------------------------------------------------
EventsOf(kind) == Cardinality({i \in DOMAIN (raised \o arrived) : (raised \o arrived)[i] = kind})

\* "An event asked for in one `encode` and not yet come is waited for in the
\* next, so none is lost" (AsyncEvents): every input the transform wants is
\* an event on its way or counted in need_input, and every output it has is
\* announced by an event still to come.  An invitation lost leaves a
\* transform that waits for input nobody gives it.
NoEventIsLost ==
    /\ invited = need_input + EventsOf("NeedInput")
    /\ Len(ready) = EventsOf("HaveOutput")

\* The Windows encoder across changes of size and options (source.rs, encoder.rs):
\* units fit what was announced, and no event of the transform is lost.
EncodingInStep == UnitsFitTheAnnouncement /\ NoEventIsLost
=============================================================================
