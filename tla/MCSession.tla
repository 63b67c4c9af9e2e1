------------------------------ MODULE MCSession -------------------------------
(* What a session is used for, one part at a time: its tracks, the command    *)
(* channel, files and watched folders, input, the lists of windows and the    *)
(* pointer, and the client that connects, pairs and forgets.                  *)
EXTENDS Session, Commands, Files, SessionViews, ClientConnect, TLC

CONSTANTS
    Parts,      \* the parts that are run
    c1, c2      \* the file channels

\* A host that sends a window's video and audio, a client that may send its microphone.
WithMicrophone == [s \in Sides |-> IF s = "host" THEN {"video", "audio"} ELSE {"microphone"}]
HostTalks == [s \in Sides |-> IF s = "host" THEN 1 ELSE 0]

\* One channel only uploads, the other does all there is.
UploaderAndAll == [c \in FileChannels |-> IF c = c1 THEN {"upload"} ELSE {"ask", "download", "upload"}]

\* A window and a popup of it.
WindowAndPopup == "w" :> "none" @@ "p" :> "w"

\* The part that runs; the others stay as they begin.
VARIABLE part

MCInit ==
    /\ part \in Parts
    /\ Init /\ CommandsInit /\ FilesInit /\ WatchInit /\ InputInit /\ ViewsInit
    /\ ConnectInit
    /\ part # "files" => target = NoPart
    /\ part # "watch" => saveFile = NoFile
    /\ part # "input" => platform = CHOOSE p \in Platforms : TRUE
    /\ part # "views" => desk = {} /\ ~ hostState.locked
    /\ part # "connect" => savedHosts = {} /\ admits = {} /\ pairingOpen = {}

MCNext ==
    \/ /\ part = "tracks" /\ Next
       /\ UNCHANGED <<part, commandVars, fileVars, watchVars, inputVars, viewVars,
                    connectVars>>
    \/ /\ part = "channels" /\ CommandsNext
       /\ UNCHANGED <<part, vars, fileVars, watchVars, inputVars, viewVars,
                    connectVars>>
    \/ /\ part = "files" /\ FilesNext
       /\ UNCHANGED <<part, vars, commandVars, watchVars, inputVars, viewVars,
                    connectVars>>
    \/ /\ part = "watch" /\ WatchNext
       /\ UNCHANGED <<part, vars, commandVars, fileVars, inputVars, viewVars,
                    connectVars>>
    \/ /\ part = "input" /\ InputNext
       /\ UNCHANGED <<part, vars, commandVars, fileVars, watchVars, viewVars,
                    connectVars>>
    \/ /\ part = "views" /\ ViewsNext
       /\ UNCHANGED <<part, vars, commandVars, fileVars, watchVars, inputVars,
                    connectVars>>
    \/ /\ part = "connect" /\ ConnectNext
       /\ UNCHANGED <<part, vars, commandVars, fileVars, watchVars, inputVars,
                    viewVars>>

MCvars == <<vars, commandVars, fileVars, watchVars, inputVars, viewVars, connectVars,
            part>>

MCSpec == MCInit /\ [][MCNext]_MCvars
=============================================================================
