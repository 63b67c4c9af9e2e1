------------------------------- MODULE MCPeers --------------------------------
(* What the host speaks besides its own protocol, one part at a time:         *)
(* GameStream and its pairing, RemoteApps and the accounts they run as, RDP   *)
(* and VNC, accounts and the flows that sign in to them.                      *)
EXTENDS GameHost, RemoteApps, RemoteServers, Accounts

CONSTANTS
    Parts       \* the parts that are run

\* GameStream clients that all name themselves alike, as Moonlight's do.
OneUniqueId == [d \in GameClients |-> "u"]

AccountsAsNamed == [p \in Principals |-> p]

LocalThenLdap == <<"local", "ldap">>
OneRule == <<[who |-> {"pin", "password", "corp"}, allow |-> TRUE, windows |-> Windows]>>

\* The part that runs; the others stay as they begin.
VARIABLE part

MCInit ==
    /\ part \in Parts
    /\ GameInit /\ GamePairInit /\ RemoteInit /\ LaunchesInit /\ RdpInit /\ VncInit
    /\ AccountsInit /\ FlowInit

MCNext ==
    \/ /\ part = "stream" /\ GameNext
       /\ UNCHANGED <<part, gamePairVars, remoteVars, launchVars, rdpVars, vncVars,
                    accountVars, flowVars>>
    \/ /\ part = "gamepairing" /\ GamePairNext
       /\ UNCHANGED <<part, gameVars, remoteVars, launchVars, rdpVars, vncVars,
                    accountVars, flowVars>>
    \/ /\ part = "apps" /\ RemoteNext
       /\ UNCHANGED <<part, gameVars, gamePairVars, launchVars, rdpVars, vncVars,
                    accountVars, flowVars>>
    \/ /\ part = "launches" /\ LaunchesNext
       /\ UNCHANGED <<part, gameVars, gamePairVars, remoteVars, rdpVars, vncVars,
                    accountVars, flowVars>>
    \/ /\ part = "rdp" /\ RdpNext
       /\ UNCHANGED <<part, gameVars, gamePairVars, remoteVars, launchVars, vncVars,
                    accountVars, flowVars>>
    \/ /\ part = "vnc" /\ VncNext
       /\ UNCHANGED <<part, gameVars, gamePairVars, remoteVars, launchVars, rdpVars,
                    accountVars, flowVars>>
    \/ /\ part = "accounts" /\ AccountsNext
       /\ UNCHANGED <<part, gameVars, gamePairVars, remoteVars, launchVars, rdpVars,
                    vncVars, flowVars>>
    \/ /\ part = "flows" /\ FlowNext
       /\ UNCHANGED <<part, gameVars, gamePairVars, remoteVars, launchVars, rdpVars,
                    vncVars, accountVars>>

MCvars == <<gameVars, gamePairVars, remoteVars, launchVars, rdpVars, vncVars,
            accountVars, flowVars, part>>

MCSpec == MCInit /\ [][MCNext]_MCvars
=============================================================================
