----------------------------- MODULE RemoteHost -----------------------------
(***************************************************************************)
(* A host reachable away from the LAN: host-core/src/remote.rs keeps the      *)
(* mapping of its rendezvous socket with STUN (rendezvous' StunKeeper),       *)
(* announces it to the discovery servers, looks up the clients it trusts and  *)
(* punches towards them.  The NAT and the servers are external.  Time is in   *)
(* turns of the loop (PUNCH_EVERY).                                           *)
(***************************************************************************)
EXTENDS Integers, Sequences, FiniteSets, FiniteSetsExt

CONSTANTS
    Addresses,      \* what the NAT may map the socket to
    DiscoveryIds,        \* the discovery IDs clients told the host
    SETTLE, NOT_FOUND_CACHE, FOUND_CACHE, STUN_RETRY, KEEPALIVE_START, KEEPALIVE_MIN,
    SERVERS,        \* the servers it announces to, one after another
    Reannounce,     \* the waits a server answers with when it took the address
    Waits,          \* the waits it answers with when it did not
    MaxTime,        \* bound: the clock
    MaxChanges      \* bound: times the NAT gives another address

PUNCH_FOR == FOUND_CACHE
NoAddress == "none"

ASSUME RemoteAssumption ==
    /\ {SETTLE, NOT_FOUND_CACHE, FOUND_CACHE, STUN_RETRY, KEEPALIVE_START, KEEPALIVE_MIN} \subseteq Nat
    /\ KEEPALIVE_MIN <= KEEPALIVE_START /\ NOT_FOUND_CACHE <= FOUND_CACHE
    /\ SERVERS \in Nat \ {0}
    /\ Reannounce \subseteq Nat \ {0} /\ Waits \subseteq Nat \ {0}
    /\ MaxTime \in Nat /\ MaxChanges \in Nat
    /\ NoAddress \notin Addresses
    /\ DiscoveryIds \cap {"sleep", "announcing", "looking"} = {}

Servers == 1 .. SERVERS

VARIABLES
    clock, nat, changes,
    resolved,       \* whether any STUN server's name resolved when the task started
    stunSent, waiting, interval, mapped,    \* StunKeeper; mapped is RemoteStatus.mapped too
    replies,        \* STUN replies on their way, by the time of their request
    pc, now, asked, \* announce_and_punch: where it is, the turn's `now` and `mapped`
    announced, candidate, announce_after, retry_after,
    answers,        \* this turn's announcement: the servers' answers so far
    lookup_after, punch,                \* by client: the next lookup, and punched until
    todo,           \* the clients this turn still looks at
    trusted,        \* Control::admitted, among Clients
    notBefore,      \* history, by server: when its last Retry-After ends
    overruled,      \* history: servers whose Retry-After a server of the same turn overruled
    taken,          \* history: the request whose reply gave mapped
    lookedAt        \* history, by client: last looked up; -1 for never

natVars == <<nat, changes, resolved>>
stunVars == <<stunSent, waiting, interval, mapped, replies, taken>>
announceVars == <<announced, candidate, announce_after, retry_after, answers, notBefore, overruled>>
lookupVars == <<lookup_after, punch, todo, lookedAt>>
remoteHostVars == <<clock, natVars, stunVars, pc, now, asked, announceVars, lookupVars, trusted>>

RemoteHostTypes ==
    /\ clock \in 0 .. MaxTime /\ now \in 0 .. clock
    /\ nat \in Addresses /\ mapped \in Addresses \cup {NoAddress}
    /\ interval \in KEEPALIVE_MIN .. KEEPALIVE_START
    /\ waiting => stunSent >= 0
    /\ pc \in {"sleep", "announcing", "looking"} \cup DiscoveryIds
    /\ announced \in Addresses \cup {NoAddress}
    /\ announce_after \in Nat /\ retry_after \in Nat
    /\ Len(answers) <= IF pc = "announcing" THEN SERVERS ELSE 0
    /\ lookup_after \in [DiscoveryIds -> Nat]
    /\ todo \subseteq DiscoveryIds /\ resolved \in BOOLEAN

RemoteHostInit ==
    /\ clock = 0 /\ nat \in Addresses /\ changes = 0 /\ resolved \in BOOLEAN
    /\ stunSent = -1 /\ waiting = FALSE /\ interval = KEEPALIVE_START /\ mapped = NoAddress
    /\ replies = {} /\ taken = -1
    /\ pc = "sleep" /\ now = 0 /\ asked = NoAddress
    /\ announced = NoAddress /\ candidate = [at |-> NoAddress, since |-> 0]
    /\ announce_after = 0 /\ retry_after = 0
    /\ answers = <<>> /\ notBefore = [s \in Servers |-> 0] /\ overruled = {}
    /\ lookup_after = [c \in DiscoveryIds |-> 0] /\ punch = [c \in DiscoveryIds |-> -1]
    /\ todo = {} /\ trusted = DiscoveryIds
    /\ lookedAt = [c \in DiscoveryIds |-> -1]

-----------------------------------------------------------------------------
ClockTicks ==
    /\ clock < MaxTime
    /\ clock' = clock + 1
    /\ UNCHANGED <<natVars, stunVars, pc, now, asked, announceVars, lookupVars, trusted>>

NatChanges ==
    /\ changes < MaxChanges
    /\ \E a \in Addresses \ {nat} : nat' = a
    /\ changes' = changes + 1
    /\ UNCHANGED <<clock, resolved, stunVars, pc, now, asked, announceVars, lookupVars, trusted>>

\* The user pairs a client or revokes it.
TrustsClient(c) ==
    /\ trusted' = IF c \in trusted THEN trusted \ {c} ELSE trusted \cup {c}
    /\ UNCHANGED <<clock, natVars, stunVars, pc, now, asked, announceVars, lookupVars>>

\* StunKeeper::due, and keep_mapping sends the request.  A reply may come back.
Due ==
    /\ resolved
    /\ \/ stunSent = -1
       \/ waiting /\ clock - stunSent > STUN_RETRY
       \/ ~ waiting /\ clock - stunSent > interval
    /\ stunSent' = clock /\ waiting' = TRUE
    /\ replies' \in {replies, replies \cup {[request |-> clock, address |-> nat]}}
    /\ UNCHANGED <<clock, natVars, interval, mapped, taken, pc, now, asked, announceVars, lookupVars, trusted>>

\* What a reply that counts does.
Mapped(r) ==
    /\ interval' = IF mapped \notin {NoAddress, r.address}
                     THEN Max({interval \div 2, KEEPALIVE_MIN}) ELSE interval
    /\ mapped' = r.address
    /\ taken' = r.request
    /\ waiting' = FALSE

\* Bug to catch: a reply to an earlier request counts.
HeardAny(r) ==
    /\ replies' = replies \ {r}
    /\ IF waiting THEN Mapped(r) ELSE UNCHANGED <<interval, mapped, taken, waiting>>
    /\ UNCHANGED <<clock, natVars, stunSent, pc, now, asked, announceVars, lookupVars, trusted>>

\* StunKeeper::heard: only a reply to the request it waits for counts.
Heard(r) ==
    /\ replies' = replies \ {r}
    /\ IF waiting /\ r.request = stunSent THEN Mapped(r)
       ELSE UNCHANGED <<interval, mapped, taken, waiting>>
    /\ UNCHANGED <<clock, natVars, stunSent, pc, now, asked, announceVars, lookupVars, trusted>>

-----------------------------------------------------------------------------
(* announce_and_punch. *)

\* The candidate after this turn looked at the mapping.
Candidate ==
    IF mapped = NoAddress \/ mapped = announced \/ candidate.at = mapped THEN candidate
    ELSE [at |-> mapped, since |-> clock]

ToAnnounce ==
    /\ mapped # NoAddress
    /\ \/ mapped = announced /\ clock >= announce_after
       \/ /\ mapped # announced
          /\ clock - Candidate.since >= SETTLE
          /\ clock >= retry_after

\* A turn begins; it may ask the servers to take the mapping.
RoundBegins ==
    /\ pc = "sleep"
    /\ clock > now \/ clock = 0
    /\ now' = clock
    /\ candidate' = Candidate
    /\ asked' = mapped
    /\ pc' = IF ToAnnounce THEN "announcing" ELSE "looking"
    /\ todo' = IF ToAnnounce THEN {} ELSE trusted
    /\ UNCHANGED <<clock, natVars, stunVars, announced, announce_after, retry_after, answers,
                   notBefore, overruled, lookup_after, punch, lookedAt, trusted>>

\* announce posts to a server, and it answers: it took the address, or it says when
\* to come back.
Post(took, after) ==
    LET s == Len(answers) + 1 IN
    /\ pc = "announcing" /\ s \in Servers
    /\ answers' = Append(answers, [took |-> took, after |-> after])
    /\ notBefore' = [notBefore EXCEPT ![s] = IF took THEN 0 ELSE clock + after]
    /\ UNCHANGED <<clock, natVars, stunVars, pc, now, asked, announced, candidate,
                   announce_after, retry_after, overruled, lookupVars, trusted>>

Took == \E s \in Servers : answers[s].took

\* s said the shortest wait, or one of them.
Shortest(s) == \A r \in Servers : answers[s].after <= answers[r].after

\* announce's answer: of all servers' waits only the shortest.  It counts as taken if
\* any server took the address; else nobody is asked before retry_after.
Answer ==
    /\ pc = "announcing" /\ Len(answers) = SERVERS
    /\ \E s \in Servers :
          /\ Shortest(s)
          /\ announce_after' = clock + answers[s].after
          /\ retry_after' = IF Took THEN retry_after ELSE clock + answers[s].after
    /\ announced' = IF Took THEN asked ELSE announced
    /\ overruled' = {s \in Servers : Took \/ ~ Shortest(s)}
    /\ answers' = <<>>
    /\ pc' = "looking"
    /\ todo' = trusted              \* read after the answer
    /\ UNCHANGED <<clock, natVars, stunVars, now, asked, candidate, notBefore, lookup_after,
                   punch, lookedAt, trusted>>

\* A client is looked up when its wait is over, as of the turn's beginning.
LookUp(c) ==
    /\ pc = "looking" /\ c \in todo
    /\ todo' = todo \ {c}
    /\ \/ now < lookup_after[c] /\ UNCHANGED <<pc, lookedAt>>
       \/ /\ now >= lookup_after[c]
          /\ pc' = c
          /\ lookedAt' = [lookedAt EXCEPT ![c] = clock]
    /\ UNCHANGED <<clock, natVars, stunVars, now, asked, announceVars, lookup_after, punch, trusted>>

NotFound(c) ==
    /\ pc = c
    /\ pc' = "looking"
    /\ \E after \in Waits :
          lookup_after' = [lookup_after EXCEPT ![c] = clock + Max({after, NOT_FOUND_CACHE})]
    /\ UNCHANGED <<clock, natVars, stunVars, now, asked, announceVars, punch, todo, lookedAt, trusted>>

Found(c) ==
    /\ pc = c
    /\ pc' = "looking"
    /\ punch' = [punch EXCEPT ![c] = clock + PUNCH_FOR]
    /\ lookup_after' = [lookup_after EXCEPT ![c] = clock + FOUND_CACHE]
    /\ UNCHANGED <<clock, natVars, stunVars, now, asked, announceVars, todo, lookedAt, trusted>>

\* punch.retain: which clients' addresses are still fresh.
AddressFresh(c) == punch[c] # -1 /\ clock < punch[c]

\* The end of a turn.
Punch ==
    /\ pc = "looking" /\ todo = {}
    /\ pc' = "sleep"
    /\ punch' = [c \in DiscoveryIds |-> IF AddressFresh(c) THEN punch[c] ELSE -1]
    /\ UNCHANGED <<clock, natVars, stunVars, now, asked, announceVars, lookup_after, todo, lookedAt, trusted>>

RemoteHostNext ==
    \/ ClockTicks \/ NatChanges \/ Due \/ RoundBegins \/ Answer \/ Punch
    \/ \E r \in replies : Heard(r)
    \/ \E after \in Reannounce : Post(TRUE, after)
    \/ \E after \in Waits : Post(FALSE, after)
    \/ \E c \in DiscoveryIds : TrustsClient(c) \/ LookUp(c) \/ NotFound(c) \/ Found(c)

RemoteHostSpec == RemoteHostInit /\ [][RemoteHostNext]_remoteHostVars

-----------------------------------------------------------------------------
\* The mapping never goes back to what an earlier request saw, however late its
\* reply comes (StunKeeper::heard).
NoOldAddress == [][mapped' # mapped => taken' > taken]_remoteHostVars

\* "never before a server's Retry-After" (announce_and_punch), whichever mapping is
\* announced and however it changed meanwhile.  The exception, against that comment,
\* is a server another one overruled: `announce` asks every server and keeps one wait,
\* the shortest, and none for a new mapping once any of them took the old one.
ServersAreLeftAlone ==
    [][pc = "sleep" /\ pc' = "announcing" =>
          \A s \in Servers \ overruled : clock >= notBefore[s]]_remoteHostVars

\* A client is not looked up twice within NOT_FOUND_CACHE, whatever the servers say
\* and however long they take.
LookupsAreSpaced ==
    [][\A c \in DiscoveryIds :
          pc # c /\ pc' = c /\ lookedAt[c] # -1 => clock - lookedAt[c] >= NOT_FOUND_CACHE]_remoteHostVars

\* What the announcing loop asks of the network (remote.rs), while it blocks on
\* servers that refuse and replies come late: the mapping follows the newest request,
\* no server is asked before its Retry-After, if no other server overruled it, and no
\* client is looked up too soon.
AsksInTime == []RemoteHostTypes /\ NoOldAddress /\ ServersAreLeftAlone /\ LookupsAreSpaced
=============================================================================
