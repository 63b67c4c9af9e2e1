------------------------------- MODULE MCMedia --------------------------------
(* From a window to the picture of it, one part at a time: capture and        *)
(* encoding on Windows and on Linux, the encoder's events, the way of the     *)
(* frames, adaptive quality, the secure screen, the private desktop, and the  *)
(* carriers a window's stream is switched between.                            *)
EXTENDS WindowsCapture, FramePath, SecureScreen, LinuxAgent, WindowCarriers

CONSTANTS
    Parts,      \* the parts that are run
    b1, b2,     \* the brokers
    k1          \* the client of the secure screen

SameUser == [c \in ScreenClients |-> "a"]
TwoRates == {[fps |-> 1, bitrate |-> 1], [fps |-> 1, bitrate |-> 2]}
FullAndHalf == {[half |-> FALSE, fps |-> 0, bitrate |-> 0], [half |-> TRUE, fps |-> 0, bitrate |-> 1]}
AsyncThenSync == <<"async", "sync">>

\* The part that runs; the others stay as they begin.
VARIABLE part

MCInit ==
    /\ part \in Parts
    /\ WinCapInit /\ EncoderInit /\ FrameInit /\ QualityInit /\ ScreenInit
    /\ CaptureInit /\ PrivateInit /\ CarrierInit
    /\ part # "windows" => streamKind = "window" /\ winOptions.o = CHOOSE o \in WinOptions : TRUE
    /\ part # "quality" => network = CHOOSE n \in [clear : BOOLEAN, demand : Demands] : TRUE
    /\ part # "secure" => console = [of |-> NoUser, desktop |-> "Default"] /\ machine.grant = NoUser
    /\ part # "linux" => kind = "frames" /\ cut = "whole" /\ drawn.size = CHOOSE s \in CaptureSizes : TRUE
    /\ part # "private" => system = "linux" /\ ~ offered
    /\ part # "carriers" => calm = CHOOSE c \in Calm : TRUE

MCNext ==
    \/ /\ part = "windows" /\ WinCapNext
       /\ UNCHANGED <<part, encoderVars, frameVars, qualityVars, screenVars,
                    captureVars, privateVars, carrierVars>>
    \/ /\ part = "encoder" /\ EncoderNext
       /\ UNCHANGED <<part, winCapVars, frameVars, qualityVars, screenVars,
                    captureVars, privateVars, carrierVars>>
    \/ /\ part = "path" /\ FrameNext
       /\ UNCHANGED <<part, winCapVars, encoderVars, qualityVars, screenVars,
                    captureVars, privateVars, carrierVars>>
    \/ /\ part = "quality" /\ QualityNext
       /\ UNCHANGED <<part, winCapVars, encoderVars, frameVars, screenVars,
                    captureVars, privateVars, carrierVars>>
    \/ /\ part = "secure" /\ ScreenNext
       /\ UNCHANGED <<part, winCapVars, encoderVars, frameVars, qualityVars,
                    captureVars, privateVars, carrierVars>>
    \/ /\ part = "linux" /\ CaptureNext
       /\ UNCHANGED <<part, winCapVars, encoderVars, frameVars, qualityVars,
                    screenVars, privateVars, carrierVars>>
    \/ /\ part = "private" /\ PrivateNext
       /\ UNCHANGED <<part, winCapVars, encoderVars, frameVars, qualityVars,
                    screenVars, captureVars, carrierVars>>
    \/ /\ part = "carriers" /\ CarrierNext
       /\ UNCHANGED <<part, winCapVars, encoderVars, frameVars, qualityVars,
                    screenVars, captureVars, privateVars>>

MCvars == <<winCapVars, encoderVars, frameVars, qualityVars, screenVars, captureVars,
            privateVars, carrierVars, part>>

MCSpec == MCInit /\ [][MCNext]_MCvars
=============================================================================
