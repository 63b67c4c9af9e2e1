------------------------------- MODULE MCViewer -------------------------------
(* Letting clients in, and the reference app with the windows it shows, one   *)
(* part at a time: pairing, the app's client, its host side with the          *)
(* clipboard, the window of a stream, input and pictures in it, and the sound *)
(* of the windows.                                                            *)
EXTENDS Pairing, ReferenceApp, ViewerWindows, ClientSound, TLC

CONSTANTS
    Parts       \* the parts that are run

\* A window and a popup of it.
WindowAndPopup == "w" :> "none" @@ "p" :> "w"

\* The part that runs; the others stay as they begin.
VARIABLE part

MCInit ==
    /\ part \in Parts
    /\ Init
    /\ AppInit /\ HostAppInit /\ WindowInit /\ WindowInputInit /\ PicturesInit
    /\ SoundInit /\ MicInit
    /\ part # "pairing" => pin = NoPin
    /\ part # "host" => ~ stored["clipboard"]
    /\ part # "input" => desk = "windows" /\ wanted

MCNext ==
    \/ /\ part = "pairing" /\ Next
       /\ UNCHANGED <<part, appVars, hostAppVars, streamWindowVars, windowInputVars,
                    pictureVars, soundVars, micVars>>
    \/ /\ part = "app" /\ AppNext
       /\ UNCHANGED <<part, vars, hostAppVars, streamWindowVars, windowInputVars,
                    pictureVars, soundVars, micVars>>
    \/ /\ part = "host" /\ HostAppNext
       /\ UNCHANGED <<part, vars, appVars, streamWindowVars, windowInputVars, pictureVars,
                    soundVars, micVars>>
    \/ /\ part = "window" /\ WindowNext
       /\ UNCHANGED <<part, vars, appVars, hostAppVars, windowInputVars, pictureVars,
                    soundVars, micVars>>
    \/ /\ part = "input" /\ WindowInputNext
       /\ UNCHANGED <<part, vars, appVars, hostAppVars, streamWindowVars, pictureVars,
                    soundVars, micVars>>
    \/ /\ part = "pictures" /\ PicturesNext
       /\ UNCHANGED <<part, vars, appVars, hostAppVars, streamWindowVars, windowInputVars,
                    soundVars, micVars>>
    \/ /\ part = "sound" /\ SoundNext
       /\ UNCHANGED <<part, vars, appVars, hostAppVars, streamWindowVars, windowInputVars,
                    pictureVars, micVars>>
    \/ /\ part = "microphone" /\ MicNext
       /\ UNCHANGED <<part, vars, appVars, hostAppVars, streamWindowVars, windowInputVars,
                    pictureVars, soundVars>>

MCvars == <<vars, appVars, hostAppVars, streamWindowVars, windowInputVars, pictureVars,
            soundVars, micVars, part>>

MCSpec == MCInit /\ [][MCNext]_MCvars
=============================================================================
