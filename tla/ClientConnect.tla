---------------------------- MODULE ClientConnect ----------------------------
(***************************************************************************)
(* The client's connections (client-core Client): to an address, over a     *)
(* conduit, or away from the LAN.  Each works on a copy of the trusted      *)
(* hosts taken at its start; a pairing pins its host in the list itself and *)
(* saves that.  Connections run beside each other and beside `forget`.      *)
(***************************************************************************)
EXTENDS Naturals

CONSTANTS
    Connections,        \* calls of the app
    DialedHosts,        \* hosts
    MaxConnectEvents    \* bound: calls, forgets, and changes at the hosts

VARIABLES
    trustedHosts,   \* Client.trust
    savedHosts,     \* the file
    awayHosts,      \* remote_hosts: discovery ids the hosts told
    admits,         \* hosts that have this client pinned
    pairingOpen,    \* hosts whose pairing is open, with the PIN the user has
    connectCall,           \* each call: where it is, its host, its way, its PIN, its copy of the trust
    kept,           \* history: paired, saved and not forgotten since
    connectEvents

connectVars == <<trustedHosts, savedHosts, awayHosts, admits, pairingOpen, connectCall, kept, connectEvents>>
hostVars == <<admits, pairingOpen, awayHosts>>
listVars == <<trustedHosts, savedHosts, kept>>

NoConnect == [at |-> "idle", host |-> "none", way |-> "none", pin |-> FALSE, trusted |-> {}]

ConnectInit ==
    /\ savedHosts \in SUBSET DialedHosts
    /\ trustedHosts = savedHosts /\ kept = savedHosts
    /\ awayHosts = {}
    /\ admits \in SUBSET DialedHosts
    /\ pairingOpen \in SUBSET DialedHosts
    /\ connectCall = [c \in Connections |-> NoConnect]
    /\ connectEvents = 0

ConnectHappens == connectEvents < MaxConnectEvents /\ connectEvents' = connectEvents + 1
Moves(c, to) == connectCall' = [connectCall EXCEPT ![c].at = to]

\* connect, connect_over.
StartsCall(c, h, way, pin) == connectCall' = [connectCall EXCEPT ![c] =
    [at |-> "dialing", host |-> h, way |-> way, pin |-> pin, trusted |-> trustedHosts]]
Connect(c) ==
    /\ ConnectHappens /\ connectCall[c].at \in {"idle", "failed", "up"}
    /\ \E h \in DialedHosts, pin \in BOOLEAN, way \in {"address", "conduit"} :
          (way = "conduit" => ~pin) /\ StartsCall(c, h, way, pin)
    /\ UNCHANGED <<listVars, hostVars>>

\* connect_away: only to a pinned host that told its discovery id; found and
\* punched through to, before the deadline.
ReachableAway(h) == h \in trustedHosts /\ h \in awayHosts
ConnectAway(c) ==
    /\ ConnectHappens /\ connectCall[c].at \in {"idle", "failed", "up"}
    /\ \E h \in DialedHosts : ReachableAway(h) /\ StartsCall(c, h, "away", FALSE)
    /\ UNCHANGED <<listVars, hostVars>>

Unreachable(c) ==
    /\ connectCall[c].at \in {"dialing", "pairing"}
    /\ Moves(c, "failed")
    /\ UNCHANGED <<listVars, hostVars, connectEvents>>

\* connect_once with the pinned identity: both ends know each other.
Resumed(c) == connectCall[c].host \in connectCall[c].trusted /\ connectCall[c].host \in admits

\* ClientSession::start tells this client's discovery id; the host's comes in
\* its session.
Started(c) == Moves(c, "up")
Resumes(c) ==
    /\ connectCall[c].at = "dialing" /\ Resumed(c)
    /\ Started(c)
    /\ UNCHANGED <<listVars, hostVars, connectEvents>>
TellsDiscovery(c) ==
    /\ connectCall[c].at = "up" /\ connectCall[c].host \notin awayHosts
    /\ awayHosts' = awayHosts \union {connectCall[c].host}
    /\ UNCHANGED <<listVars, admits, pairingOpen, connectCall, connectEvents>>

\* pairing_could_help: turned away for want of trust, a PIN is tried.
PairingCouldHelp(c) == ~Resumed(c)
TurnedAway(c) ==
    /\ connectCall[c].at = "dialing" /\ PairingCouldHelp(c)
    /\ Moves(c, IF connectCall[c].pin THEN "pairing" ELSE "failed")
    /\ UNCHANGED <<listVars, hostVars, connectEvents>>
Pairs(c) ==
    /\ connectCall[c].at = "pairing" /\ connectCall[c].host \in pairingOpen
    /\ admits' = admits \union {connectCall[c].host}
    /\ pairingOpen' = pairingOpen \ {connectCall[c].host}
    /\ Moves(c, "paired")
    /\ UNCHANGED <<listVars, awayHosts, connectEvents>>

\* The host is pinned and the list saved, in one turn of the lock.
PinnedInCopy(c) == connectCall[c].trusted \union {connectCall[c].host}
Pinned(c) == trustedHosts \union {connectCall[c].host}
PinsHost(c) ==
    /\ connectCall[c].at = "paired"
    /\ trustedHosts' = Pinned(c)
    /\ \/ /\ savedHosts' = trustedHosts'
          /\ kept' = kept \union {connectCall[c].host}
          /\ Started(c)
       \/ Moves(c, "failed") /\ UNCHANGED <<savedHosts, kept>>
    /\ UNCHANGED <<hostVars, connectEvents>>

\* forget: the list is changed even where it cannot be saved.
Forget(h) ==
    /\ ConnectHappens
    /\ trustedHosts' = trustedHosts \ {h}
    /\ kept' = kept \ {h}
    /\ savedHosts' \in {trustedHosts', savedHosts}
    /\ UNCHANGED <<hostVars, connectCall>>

HostForgets(h) ==
    /\ ConnectHappens
    /\ admits' = admits \ {h}
    /\ UNCHANGED <<listVars, awayHosts, pairingOpen, connectCall>>
HostOpensPairing(h) ==
    /\ ConnectHappens
    /\ pairingOpen' = pairingOpen \union {h}
    /\ UNCHANGED <<listVars, awayHosts, admits, connectCall>>

\* Client::new: the list is the file's.
RestartsClient ==
    /\ ConnectHappens
    /\ trustedHosts' = savedHosts
    /\ connectCall' = [c \in Connections |-> NoConnect]
    /\ UNCHANGED <<savedHosts, kept, hostVars>>

ConnectNext ==
    \/ \E c \in Connections :
          \/ Connect(c) \/ ConnectAway(c) \/ Unreachable(c) \/ Resumes(c) \/ TellsDiscovery(c)
          \/ TurnedAway(c) \/ Pairs(c) \/ PinsHost(c)
    \/ \E h \in DialedHosts : Forget(h) \/ HostForgets(h) \/ HostOpensPairing(h)
    \/ RestartsClient

ConnectSpec == ConnectInit /\ [][ConnectNext]_connectVars

(* A host that was paired and not forgotten since is trusted, now and after *)
(* a restart, whatever pairings and forgets ran beside it (client-core      *)
(* connect, forget, Client::new).                                           *)
PairingsAreKept == kept \subseteq trustedHosts /\ kept \subseteq savedHosts
=============================================================================
