-------------------------------- MODULE MCLink --------------------------------
(* What carries the bytes, one part at a time: the sealed packets of bud      *)
(* beside the bitmap in words its window is kept in, the frames it recovers,  *)
(* GameStream's video and sound, and   *)
(* the terminal with its SSH logins, and a host that is found from away.      *)
EXTENDS SealedPackets, ReplayWords, FrameRecovery, GameMedia, Terminal,
        RemoteHost

CONSTANTS
    Parts       \* the parts that are run

\* Frames numbered across the wrap: a far link on which only parity helps, and a
\* near one on which a NACK is answered in time.
FarAndNear == {[frames |-> 3, parity |-> 1, rtt |-> 3], [frames |-> 2, parity |-> 0, rtt |-> 1]}

\* The host's address at first; the addresses are alike.
Home == CHOOSE a \in Addresses : TRUE

\* The link beside the bitmap of its window, in words.
SealedInit == Init /\ words = NoWords
SealedNext ==
    \/ (Seal \/ Sample \/ \E p \in Packets : Lose(p)) /\ UNCHANGED words
    \/ \E p \in Packets : Arrive(p) /\ AcceptWords(p)
sealedVars == <<vars, words>>

\* The part that runs; the others stay as they begin.
VARIABLE part

MCInit ==
    /\ part \in Parts
    /\ SealedInit /\ RecoveryInit /\ GameVideoInit /\ GameAudioInit
    /\ TermInit /\ LoginsInit /\ RemoteHostInit
    /\ part # "frames" => link = CHOOSE l \in Links : TRUE
    /\ part # "remote" => resolved
    /\ nat = Home

MCNext ==
    \/ /\ part = "sealed" /\ SealedNext
       /\ UNCHANGED <<part, recoveryVars, videoVars, audioVars, termVars,
                    loginVars, remoteHostVars>>
    \/ /\ part = "frames" /\ RecoveryNext
       /\ UNCHANGED <<part, sealedVars, videoVars, audioVars, termVars,
                    loginVars, remoteHostVars>>
    \/ /\ part = "video" /\ GameVideoNext
       /\ UNCHANGED <<part, sealedVars, recoveryVars, audioVars,
                    termVars, loginVars, remoteHostVars>>
    \/ /\ part = "sound" /\ GameAudioNext
       /\ UNCHANGED <<part, sealedVars, recoveryVars, videoVars,
                    termVars, loginVars, remoteHostVars>>
    \/ /\ part = "terminal" /\ TermNext
       /\ UNCHANGED <<part, sealedVars, recoveryVars, videoVars,
                    audioVars, loginVars, remoteHostVars>>
    \/ /\ part = "logins" /\ LoginsNext
       /\ UNCHANGED <<part, sealedVars, recoveryVars, videoVars,
                    audioVars, termVars, remoteHostVars>>
    \/ /\ part = "remote" /\ RemoteHostNext
       /\ UNCHANGED <<part, sealedVars, recoveryVars, videoVars,
                    audioVars, termVars, loginVars>>

MCvars == <<sealedVars, recoveryVars, videoVars, audioVars, termVars,
            loginVars, remoteHostVars, part>>

MCSpec == MCInit /\ [][MCNext]_MCvars
=============================================================================
