----------------------------- MODULE RemoteProofs -----------------------------
(* Proofs about a host that is reached from away, the terminal it may be     *)
(* used with, the windows of its RemoteApps and the accounts they log in to,  *)
(* and the way of a frame, for every number of addresses, clients, waits,    *)
(* keys, launches, principals, windows, orders and packets.                  *)
EXTENDS RemoteHost, Terminal, RemoteApps, FramePath, SequenceTheorems,
        FiniteSetTheorems, TLAPS

-----------------------------------------------------------------------------
(* A host reachable away from the LAN.                                       *)

\* What the types of the checked invariant leave open.
HistoryTypes ==
    /\ stunSent \in Int /\ -1 <= stunSent /\ stunSent <= clock
    /\ taken \in Int /\ -1 <= taken
    /\ replies \subseteq [request : Int, address : Addresses]
    /\ answers \in Seq([took : BOOLEAN, after : Nat])
    /\ notBefore \in [Servers -> Nat] /\ overruled \subseteq Servers
    /\ lookedAt \in [DiscoveryIds -> Int]
    /\ waiting \in BOOLEAN
    /\ trusted \subseteq DiscoveryIds /\ asked \in Addresses \cup {NoAddress}

\* The reply taken is to an earlier request than the one waited for.
TakenIsOlder ==
    /\ taken <= stunSent
    /\ waiting => taken < stunSent

\* Both times the loop announces at respect the last word of a server that no other
\* overruled.  While it announces, a server that answered waits from then at the
\* latest for what it said.
AnnouncesAfter ==
    /\ pc # "announcing" => \A s \in Servers \ overruled :
                               notBefore[s] <= announce_after /\ notBefore[s] <= retry_after
    /\ pc = "announcing" => \A s \in 1 .. Len(answers) :
                               answers[s].took \/ notBefore[s] <= clock + answers[s].after

\* A client not being looked up has its next look-up far enough after its last.
NextLookupIsLater ==
    \A c \in DiscoveryIds :
        /\ lookedAt[c] <= clock
        /\ pc # c /\ lookedAt[c] # -1 => lookup_after[c] >= lookedAt[c] + NOT_FOUND_CACHE

RemoteIInv ==
    RemoteHostTypes /\ HistoryTypes /\ TakenIsOlder /\ AnnouncesAfter /\ NextLookupIsLater

\* The greater of two numbers.
LEMMA GreaterOfTwo ==
    ASSUME NEW x \in Nat, NEW y \in Nat
    PROVE  Max({x, y}) \in {x, y} /\ Max({x, y}) >= x /\ Max({x, y}) >= y
<1>1. \E z \in {x, y} : \A w \in {x, y} : z >= w
  <2>1. CASE x >= y
    BY <2>1
  <2>2. CASE y >= x
    BY <2>2
  <2> QED
    BY <2>1, <2>2
<1> QED
  BY <1>1 DEF Max

\* The keepalive is halved, down to its minimum.
LEMMA HalvedInterval ==
    ASSUME interval \in KEEPALIVE_MIN .. KEEPALIVE_START
    PROVE  Max({interval \div 2, KEEPALIVE_MIN}) \in KEEPALIVE_MIN .. KEEPALIVE_START
<1>1. /\ KEEPALIVE_MIN \in Nat /\ KEEPALIVE_START \in Nat /\ KEEPALIVE_MIN <= KEEPALIVE_START
      /\ interval \in Nat
  BY RemoteAssumption
<1>2. interval \div 2 \in Nat /\ interval \div 2 <= interval
  BY <1>1
<1>3. /\ Max({interval \div 2, KEEPALIVE_MIN}) \in {interval \div 2, KEEPALIVE_MIN}
      /\ Max({interval \div 2, KEEPALIVE_MIN}) >= KEEPALIVE_MIN
  BY <1>1, <1>2, GreaterOfTwo
<1> DEFINE m == Max({interval \div 2, KEEPALIVE_MIN})
<1> HIDE DEF m
<1>4. m \in {interval \div 2, KEEPALIVE_MIN} /\ m >= KEEPALIVE_MIN
  BY <1>3 DEF m
<1>5. m \in KEEPALIVE_MIN .. KEEPALIVE_START
  BY <1>1, <1>2, <1>4
<1> QED
  BY <1>5 DEF m

\* The steps of the mapping: the announcing loop does not see them.
LEMMA MappingKeeps ==
    ASSUME RemoteIInv, NatChanges \/ Due \/ (\E r \in replies : Heard(r))
    PROVE  RemoteIInv'
<1>0. RemoteHostTypes /\ HistoryTypes /\ TakenIsOlder /\ AnnouncesAfter /\ NextLookupIsLater
  BY DEF RemoteIInv
<1>1. UNCHANGED <<clock, pc, now, asked, announceVars, lookupVars, trusted, resolved>>
  BY DEF NatChanges, Due, Heard, natVars
<1>2. AnnouncesAfter' /\ NextLookupIsLater'
  BY <1>0, <1>1 DEF AnnouncesAfter, NextLookupIsLater, announceVars, lookupVars
<1>3. ASSUME /\ nat' \in Addresses /\ mapped' \in Addresses \cup {NoAddress}
             /\ interval' \in KEEPALIVE_MIN .. KEEPALIVE_START
             /\ waiting' \in BOOLEAN /\ stunSent' \in Int /\ -1 <= stunSent' /\ stunSent' <= clock
             /\ waiting' => stunSent' >= 0
             /\ taken' \in Int /\ -1 <= taken'
             /\ replies' \subseteq [request : Int, address : Addresses]
      PROVE  RemoteHostTypes' /\ HistoryTypes'
  BY <1>0, <1>1, <1>3 DEF RemoteHostTypes, HistoryTypes, announceVars, lookupVars
<1>4. CASE NatChanges
  <2>1. RemoteHostTypes' /\ HistoryTypes'
    BY <1>0, <1>3, <1>4 DEF NatChanges, stunVars, RemoteHostTypes, HistoryTypes
  <2> QED
    BY <1>0, <1>2, <1>4, <2>1 DEF RemoteIInv, NatChanges, stunVars, TakenIsOlder
<1>5. CASE Due
  <2>1. clock \in Nat /\ stunSent < clock
    BY <1>0, <1>5, RemoteAssumption DEF Due, RemoteHostTypes, HistoryTypes
  <2>2. [request |-> clock, address |-> nat] \in [request : Int, address : Addresses]
    BY <1>0, <2>1 DEF RemoteHostTypes
  <2>3. RemoteHostTypes' /\ HistoryTypes'
    BY <1>0, <1>3, <1>5, <2>1, <2>2 DEF Due, natVars, RemoteHostTypes, HistoryTypes
  <2>4. TakenIsOlder'
    BY <1>0, <1>5, <2>1 DEF Due, TakenIsOlder, HistoryTypes
  <2> QED
    BY <1>2, <2>3, <2>4 DEF RemoteIInv
<1>6. ASSUME NEW r \in replies, Heard(r)
      PROVE  RemoteIInv'
  <2>1. r \in [request : Int, address : Addresses]
    BY <1>0 DEF HistoryTypes
  <2>2. replies' = replies \ {r} /\ stunSent' = stunSent /\ nat' = nat
    BY <1>6 DEF Heard, natVars
  <2>3. CASE waiting /\ r.request = stunSent
    <3>1. /\ mapped' = r.address /\ taken' = stunSent /\ waiting' = FALSE
          /\ interval' \in {interval, Max({interval \div 2, KEEPALIVE_MIN})}
      BY <1>6, <2>3 DEF Heard, Mapped
    <3>2. interval' \in KEEPALIVE_MIN .. KEEPALIVE_START
      BY <1>0, <3>1, HalvedInterval DEF RemoteHostTypes
    <3>3. RemoteHostTypes' /\ HistoryTypes'
      BY <1>0, <1>3, <2>1, <2>2, <3>1, <3>2 DEF RemoteHostTypes, HistoryTypes
    <3>4. TakenIsOlder'
      BY <1>0, <2>2, <3>1 DEF TakenIsOlder, HistoryTypes
    <3> QED
      BY <1>2, <3>3, <3>4 DEF RemoteIInv
  <2>4. CASE ~ (waiting /\ r.request = stunSent)
    <3>1. UNCHANGED <<interval, mapped, taken, waiting>>
      BY <1>6, <2>4 DEF Heard
    <3>2. RemoteHostTypes' /\ HistoryTypes'
      BY <1>0, <1>3, <2>2, <3>1 DEF RemoteHostTypes, HistoryTypes
    <3> QED
      BY <1>0, <1>2, <2>2, <3>1, <3>2 DEF RemoteIInv, TakenIsOlder
  <2> QED
    BY <2>3, <2>4
<1> QED
  BY <1>4, <1>5, <1>6

\* Time passes, and devices are paired and revoked.
LEMMA TimeKeeps ==
    ASSUME RemoteIInv, ClockTicks \/ (\E c \in DiscoveryIds : TrustsClient(c))
    PROVE  RemoteIInv'
<1>0. RemoteHostTypes /\ HistoryTypes /\ TakenIsOlder /\ AnnouncesAfter /\ NextLookupIsLater
  BY DEF RemoteIInv
<1>1. UNCHANGED <<natVars, stunVars, pc, now, asked, announceVars, lookupVars>>
  BY DEF ClockTicks, TrustsClient
<1>2. clock \in Nat /\ clock' \in 0 .. MaxTime /\ clock <= clock'
  BY <1>0, RemoteAssumption DEF ClockTicks, TrustsClient, RemoteHostTypes
<1>3. RemoteHostTypes'
  BY <1>0, <1>1, <1>2 DEF RemoteHostTypes, natVars, stunVars, announceVars, lookupVars
<1>4. HistoryTypes' /\ TakenIsOlder'
  <2>1. trusted' \subseteq DiscoveryIds
    BY <1>0 DEF ClockTicks, TrustsClient, HistoryTypes
  <2>2. stunSent' = stunSent /\ stunSent \in Int /\ stunSent <= clock
    BY <1>0, <1>1 DEF HistoryTypes, stunVars
  <2>3. stunSent' <= clock'
    BY <1>2, <2>2
  <2> QED
    BY <1>0, <1>1, <2>1, <2>3 DEF HistoryTypes, TakenIsOlder, stunVars, announceVars, lookupVars
<1>5. AnnouncesAfter'
  <2>1. pc' = pc /\ answers' = answers /\ notBefore' = notBefore /\ overruled' = overruled
        /\ announce_after' = announce_after /\ retry_after' = retry_after
    BY <1>1 DEF announceVars
  <2>2. ASSUME NEW s \in 1 .. Len(answers), notBefore[s] <= clock + answers[s].after,
               pc = "announcing"
        PROVE  notBefore[s] <= clock' + answers[s].after
    <3>1. answers[s].after \in Nat /\ s \in Servers
      <4>1. PICK n \in Nat : n = Len(answers)
        BY <1>0 DEF HistoryTypes
      <4>2. n <= SERVERS
        BY <1>0, <2>2, <4>1 DEF RemoteHostTypes
      <4>3. s \in 1 .. SERVERS
        BY <2>2, <4>1, <4>2, RemoteAssumption
      <4>4. answers[s] \in [took : BOOLEAN, after : Nat]
        BY <1>0, <2>2, ElementOfSeq DEF HistoryTypes
      <4> QED
        BY <4>3, <4>4 DEF Servers
    <3>2. notBefore[s] \in Nat
      BY <1>0, <3>1 DEF HistoryTypes
    <3> QED
      BY <1>2, <2>2, <3>1, <3>2
  <2> QED
    BY <1>0, <2>1, <2>2 DEF AnnouncesAfter
<1>6. NextLookupIsLater'
  BY <1>0, <1>1, <1>2 DEF NextLookupIsLater, HistoryTypes, lookupVars
<1> QED
  BY <1>3, <1>4, <1>5, <1>6 DEF RemoteIInv

\* The steps of the loop leave the clock and the mapping alone.
LEMMA LoopKeeps ==
    ASSUME RemoteIInv, UNCHANGED <<clock, natVars, stunVars>>,
           now' \in 0 .. clock,
           pc' \in {"sleep", "announcing", "looking"} \cup DiscoveryIds,
           announced' \in Addresses \cup {NoAddress},
           announce_after' \in Nat, retry_after' \in Nat,
           answers' \in Seq([took : BOOLEAN, after : Nat]),
           Len(answers') <= IF pc' = "announcing" THEN SERVERS ELSE 0,
           notBefore' \in [Servers -> Nat], overruled' \subseteq Servers,
           lookup_after' \in [DiscoveryIds -> Nat], lookedAt' \in [DiscoveryIds -> Int],
           todo' \subseteq DiscoveryIds, trusted' = trusted, asked' \in {asked, mapped},
           AnnouncesAfter', NextLookupIsLater'
    PROVE  RemoteIInv'
<1>1. RemoteHostTypes' /\ HistoryTypes'
  BY DEF RemoteIInv, RemoteHostTypes, HistoryTypes, natVars, stunVars
<1>2. TakenIsOlder'
  BY DEF RemoteIInv, TakenIsOlder, stunVars
<1> QED
  BY <1>1, <1>2 DEF RemoteIInv

\* A turn announces only after what the servers asked for that no other overruled.
LEMMA AnnouncesWhenDue ==
    ASSUME RemoteIInv, pc = "sleep", ToAnnounce, NEW s \in Servers \ overruled
    PROVE  notBefore[s] <= clock
BY DEF RemoteIInv, ToAnnounce, AnnouncesAfter, HistoryTypes, RemoteHostTypes

\* A server answers: what it says counts from now.
LEMMA PostKeeps ==
    ASSUME RemoteIInv, NEW took \in BOOLEAN, NEW after \in Nat, Post(took, after)
    PROVE  RemoteIInv'
<1>0. RemoteHostTypes /\ HistoryTypes /\ AnnouncesAfter /\ NextLookupIsLater
  BY DEF RemoteIInv
<1>1. PICK answer : answer = [took |-> took, after |-> after]
  OBVIOUS
<1>2. answer \in [took : BOOLEAN, after : Nat] /\ answer.took = took /\ answer.after = after
  BY <1>1
<1>3. PICK n \in Nat : n = Len(answers)
  BY <1>0 DEF HistoryTypes
<1>4. /\ pc = "announcing" /\ n + 1 \in Servers
      /\ answers' = Append(answers, answer)
      /\ notBefore' = [notBefore EXCEPT ![n + 1] = IF took THEN 0 ELSE clock + after]
      /\ UNCHANGED <<clock, natVars, stunVars, pc, now, asked, announced, candidate,
                     announce_after, retry_after, overruled, lookupVars, trusted>>
  BY <1>1, <1>3 DEF Post
<1>5. /\ answers' \in Seq([took : BOOLEAN, after : Nat]) /\ Len(answers') = n + 1
      /\ \A s \in 1 .. n : answers'[s] = answers[s]
      /\ answers'[n + 1] = answer
  BY <1>0, <1>2, <1>3, <1>4 DEF HistoryTypes
<1>6. n + 1 <= SERVERS
  BY <1>4, RemoteAssumption DEF Servers
<1>7. clock \in Nat
  BY <1>0 DEF RemoteHostTypes
<1>8. /\ notBefore' \in [Servers -> Nat]
      /\ notBefore'[n + 1] = IF took THEN 0 ELSE clock + after
      /\ \A s \in 1 .. n : notBefore'[s] = notBefore[s]
  <2>1. \A s \in 1 .. n : s \in Servers /\ s # n + 1
    BY <1>3, <1>6, RemoteAssumption DEF Servers
  <2> QED
    BY <1>0, <1>4, <1>7, <2>1 DEF HistoryTypes
<1>9. AnnouncesAfter'
  <2> SUFFICES ASSUME NEW s \in 1 .. n + 1
               PROVE  answers'[s].took \/ notBefore'[s] <= clock + answers'[s].after
    BY <1>4, <1>5 DEF AnnouncesAfter
  <2>1. CASE s \in 1 .. n
    BY <1>0, <1>3, <1>4, <1>5, <1>8, <2>1 DEF AnnouncesAfter
  <2>2. CASE s = n + 1
    BY <1>2, <1>5, <1>7, <1>8, <2>2
  <2> QED
    BY <1>3, <2>1, <2>2
<1>10. NextLookupIsLater'
  BY <1>0, <1>4 DEF NextLookupIsLater, lookupVars
<1>11. Len(answers') <= IF pc' = "announcing" THEN SERVERS ELSE 0
  BY <1>4, <1>5, <1>6
<1> QED
  BY <1>0, <1>4, <1>5, <1>8, <1>9, <1>10, <1>11, LoopKeeps
  DEF RemoteHostTypes, HistoryTypes, lookupVars

LEMMA AnnouncingKeeps ==
    ASSUME RemoteIInv, RoundBegins \/ Answer \/ Punch
    PROVE  RemoteIInv'
<1>0. RemoteHostTypes /\ HistoryTypes /\ AnnouncesAfter /\ NextLookupIsLater
  BY DEF RemoteIInv
<1>1. CASE RoundBegins
  <2>1. /\ UNCHANGED <<clock, natVars, stunVars, announced, announce_after, retry_after, answers,
                       notBefore, overruled, lookup_after, lookedAt, trusted>>
        /\ asked' = mapped
        /\ now' = clock /\ pc = "sleep" /\ pc' \in {"announcing", "looking"}
        /\ todo' \in {{}, trusted}
    BY <1>1 DEF RoundBegins
  <2>2. Len(answers) = 0
    BY <1>0, <2>1 DEF RemoteHostTypes, HistoryTypes
  <2>3. AnnouncesAfter'
    BY <1>0, <2>1, <2>2 DEF AnnouncesAfter
  <2>4. NextLookupIsLater'
    BY <1>0, <2>1, RemoteAssumption DEF NextLookupIsLater
  <2>5. Len(answers') <= IF pc' = "announcing" THEN SERVERS ELSE 0
    BY <2>1, <2>2, RemoteAssumption
  <2> QED
    BY <1>0, <2>1, <2>3, <2>4, <2>5, LoopKeeps DEF RemoteHostTypes, HistoryTypes
<1>2. CASE Answer
  <2>1. PICK s \in Servers :
          /\ Shortest(s)
          /\ announce_after' = clock + answers[s].after
          /\ retry_after' = IF Took THEN retry_after ELSE clock + answers[s].after
    BY <1>2 DEF Answer
  <2>2. /\ UNCHANGED <<clock, natVars, stunVars, now, asked, trusted, notBefore, lookup_after,
                       lookedAt>>
        /\ pc = "announcing" /\ pc' = "looking" /\ todo' = trusted
        /\ announced' \in {asked, announced}
        /\ overruled' = {r \in Servers : Took \/ ~ Shortest(r)}
        /\ answers' = <<>> /\ Len(answers) = SERVERS
    BY <1>2 DEF Answer
  <2>3. clock \in Nat /\ \A r \in Servers : answers[r].after \in Nat /\ notBefore[r] \in Nat
    <3>1. ASSUME NEW r \in Servers
          PROVE  answers[r] \in [took : BOOLEAN, after : Nat]
      <4>1. r \in 1 .. Len(answers) /\ answers \in Seq([took : BOOLEAN, after : Nat])
        BY <1>0, <2>2 DEF HistoryTypes, Servers
      <4> QED
        BY <4>1, ElementOfSeq
    <3>2. \A r \in Servers : notBefore[r] \in Nat
      BY <1>0 DEF HistoryTypes
    <3> QED
      BY <1>0, <3>1, <3>2 DEF RemoteHostTypes
  <2>4. announce_after' \in Nat /\ retry_after' \in Nat
    BY <1>0, <2>1, <2>3 DEF RemoteHostTypes
  <2>5. ASSUME NEW r \in Servers \ overruled'
        PROVE  notBefore'[r] <= announce_after' /\ notBefore'[r] <= retry_after'
    <3>1. ~ Took /\ Shortest(r)
      BY <2>2, <2>5
    <3>2. ~ answers[r].took
      BY <3>1 DEF Took
    <3>3. notBefore[r] <= clock + answers[r].after
      BY <1>0, <2>2, <3>2 DEF AnnouncesAfter, Servers
    <3>4. answers[r].after <= answers[s].after
      BY <3>1 DEF Shortest
    <3> QED
      BY <2>1, <2>2, <2>3, <3>1, <3>3, <3>4
  <2>6. AnnouncesAfter'
    BY <2>2, <2>5 DEF AnnouncesAfter
  <2>7. NextLookupIsLater'
    BY <1>0, <2>2, RemoteAssumption DEF NextLookupIsLater
  <2>8. /\ answers' \in Seq([took : BOOLEAN, after : Nat]) /\ overruled' \subseteq Servers
        /\ Len(answers') <= IF pc' = "announcing" THEN SERVERS ELSE 0
    BY <2>2
  <2> QED
    BY <1>0, <2>2, <2>4, <2>6, <2>7, <2>8, LoopKeeps DEF RemoteHostTypes, HistoryTypes
<1>3. CASE Punch
  <2>1. /\ UNCHANGED <<clock, natVars, stunVars, now, asked, trusted, announceVars, lookup_after, todo, lookedAt>>
        /\ pc = "looking" /\ pc' = "sleep"
    BY <1>3 DEF Punch
  <2>2. AnnouncesAfter'
    BY <1>0, <2>1 DEF AnnouncesAfter, announceVars
  <2>3. NextLookupIsLater'
    BY <1>0, <2>1, RemoteAssumption DEF NextLookupIsLater
  <2> QED
    BY <1>0, <2>1, <2>2, <2>3, LoopKeeps DEF RemoteHostTypes, HistoryTypes, announceVars
<1> QED
  BY <1>1, <1>2, <1>3

LEMMA LookupsKeep ==
    ASSUME RemoteIInv, NEW c \in DiscoveryIds, LookUp(c) \/ NotFound(c) \/ Found(c)
    PROVE  RemoteIInv'
<1>0. RemoteHostTypes /\ HistoryTypes /\ AnnouncesAfter /\ NextLookupIsLater
  BY DEF RemoteIInv
<1>1. /\ UNCHANGED <<clock, natVars, stunVars, now, asked, trusted, announceVars>>
      /\ pc' \in {"looking", c} /\ pc \in {"looking", c}
  BY DEF LookUp, NotFound, Found
<1>2. AnnouncesAfter'
  BY <1>0, <1>1, RemoteAssumption DEF AnnouncesAfter, announceVars
<1>3. clock \in Nat
  BY <1>0 DEF RemoteHostTypes
<1>8. answers' = answers /\ Len(answers') <= IF pc' = "announcing" THEN SERVERS ELSE 0
  <2>1. answers' = answers /\ pc # "announcing" /\ pc' # "announcing"
    BY <1>1, RemoteAssumption DEF announceVars
  <2> QED
    BY <1>0, <2>1 DEF RemoteHostTypes
<1>4. CASE LookUp(c)
  <2>1. lookup_after' = lookup_after /\ todo' = todo \ {c} /\ pc = "looking"
    BY <1>4 DEF LookUp
  <2>2. CASE pc' = pc /\ lookedAt' = lookedAt
    BY <1>0, <1>1, <1>2, <1>8, <2>1, <2>2, LoopKeeps
    DEF RemoteHostTypes, HistoryTypes, NextLookupIsLater, announceVars
  <2>3. CASE pc' = c /\ lookedAt' = [lookedAt EXCEPT ![c] = clock]
    <3>1. lookedAt' \in [DiscoveryIds -> Int]
      BY <1>0, <1>3, <2>3 DEF HistoryTypes
    <3>2. \A d \in DiscoveryIds : d # c => lookedAt'[d] = lookedAt[d] /\ pc # d
      BY <1>0, <2>1, <2>3, RemoteAssumption DEF HistoryTypes
    <3>3. lookedAt'[c] = clock
      BY <1>0, <2>3 DEF HistoryTypes
    <3>4. NextLookupIsLater'
      BY <1>0, <1>1, <1>3, <2>1, <2>3, <3>2, <3>3 DEF NextLookupIsLater
    <3> QED
      BY <1>0, <1>1, <1>2, <1>8, <2>1, <2>3, <3>1, <3>4, LoopKeeps
      DEF RemoteHostTypes, HistoryTypes, announceVars
  <2> QED
    BY <1>4, <2>2, <2>3 DEF LookUp
<1>5. ASSUME NEW wait \in Nat, wait >= NOT_FOUND_CACHE,
             lookup_after' = [lookup_after EXCEPT ![c] = clock + wait],
             pc = c, pc' = "looking", UNCHANGED <<todo, lookedAt>>
      PROVE  RemoteIInv'
  <2>1. lookup_after' \in [DiscoveryIds -> Nat] /\ lookup_after'[c] = clock + wait
    BY <1>0, <1>3, <1>5 DEF RemoteHostTypes
  <2>2. \A d \in DiscoveryIds : d # c => lookup_after'[d] = lookup_after[d] /\ pc # d
    BY <1>0, <1>5 DEF RemoteHostTypes
  <2>3. NOT_FOUND_CACHE \in Nat
    BY RemoteAssumption
  <2>4. NextLookupIsLater'
    BY <1>0, <1>1, <1>3, <1>5, <2>1, <2>2, <2>3 DEF NextLookupIsLater, HistoryTypes
  <2> QED
    BY <1>0, <1>1, <1>2, <1>5, <1>8, <2>1, <2>4, LoopKeeps
    DEF RemoteHostTypes, HistoryTypes, announceVars
<1>6. CASE NotFound(c)
  <2>1. PICK after \in Waits :
          lookup_after' = [lookup_after EXCEPT ![c] = clock + Max({after, NOT_FOUND_CACHE})]
    BY <1>6 DEF NotFound
  <2>2. after \in Nat /\ NOT_FOUND_CACHE \in Nat
    BY RemoteAssumption
  <2>3. Max({after, NOT_FOUND_CACHE}) \in Nat /\ Max({after, NOT_FOUND_CACHE}) >= NOT_FOUND_CACHE
    BY <2>2, GreaterOfTwo
  <2> QED
    BY <1>5, <1>6, <2>1, <2>3 DEF NotFound
<1>7. CASE Found(c)
  BY <1>5, <1>7, RemoteAssumption DEF Found
<1> QED
  BY <1>4, <1>6, <1>7

LEMMA RemoteInitial == RemoteHostInit => RemoteIInv
<1> SUFFICES ASSUME RemoteHostInit
             PROVE  RemoteIInv
  OBVIOUS
<1>1. RemoteHostTypes /\ HistoryTypes
  <2>1. 0 \in 0 .. MaxTime /\ KEEPALIVE_START \in KEEPALIVE_MIN .. KEEPALIVE_START
    BY RemoteAssumption
  <2>2. clock = 0 /\ now = 0 /\ now \in 0 .. clock
    BY DEF RemoteHostInit
  <2>3. /\ lookup_after \in [DiscoveryIds -> Nat] /\ lookedAt \in [DiscoveryIds -> Int]
        /\ announce_after \in Nat /\ retry_after \in Nat /\ notBefore \in [Servers -> Nat]
    BY DEF RemoteHostInit
  <2>4. /\ stunSent \in Int /\ -1 <= stunSent /\ stunSent <= clock
        /\ taken \in Int /\ -1 <= taken
    BY <2>2 DEF RemoteHostInit
  <2>5. answers \in Seq([took : BOOLEAN, after : Nat]) /\ Len(answers) = 0
    BY DEF RemoteHostInit
  <2>6. Len(answers) <= IF pc = "announcing" THEN SERVERS ELSE 0
    BY <2>5, RemoteAssumption
  <2> QED
    BY <2>1, <2>2, <2>3, <2>4, <2>5, <2>6 DEF RemoteHostInit, RemoteHostTypes, HistoryTypes
<1>2. TakenIsOlder /\ AnnouncesAfter /\ NextLookupIsLater
  BY DEF RemoteHostInit, TakenIsOlder, AnnouncesAfter, NextLookupIsLater
<1> QED
  BY <1>1, <1>2 DEF RemoteIInv

LEMMA RemoteStep == RemoteIInv /\ [RemoteHostNext]_remoteHostVars => RemoteIInv'
<1> SUFFICES ASSUME RemoteIInv, [RemoteHostNext]_remoteHostVars
             PROVE  RemoteIInv'
  OBVIOUS
<1>1. CASE UNCHANGED remoteHostVars
  BY <1>1
  DEF remoteHostVars, natVars, stunVars, announceVars, lookupVars, RemoteIInv, RemoteHostTypes,
      HistoryTypes, TakenIsOlder, AnnouncesAfter, NextLookupIsLater
<1>2. CASE NatChanges \/ Due \/ (\E r \in replies : Heard(r))
  BY <1>2, MappingKeeps
<1>3. CASE ClockTicks \/ (\E c \in DiscoveryIds : TrustsClient(c))
  BY <1>3, TimeKeeps
<1>4. CASE RoundBegins \/ Answer \/ Punch
  BY <1>4, AnnouncingKeeps
<1>6. CASE (\E after \in Reannounce : Post(TRUE, after)) \/ (\E after \in Waits : Post(FALSE, after))
  BY <1>6, PostKeeps, RemoteAssumption
<1>5. ASSUME NEW c \in DiscoveryIds, LookUp(c) \/ NotFound(c) \/ Found(c)
      PROVE  RemoteIInv'
  BY <1>5, LookupsKeep
<1> QED
  BY <1>1, <1>2, <1>3, <1>4, <1>5, <1>6 DEF RemoteHostNext

\* What a step may do to the mapping and ask of the servers.
LEMMA RemoteStepAsksInTime ==
    ASSUME RemoteIInv, [RemoteHostNext]_remoteHostVars
    PROVE  /\ mapped' # mapped => taken' > taken
           /\ pc = "sleep" /\ pc' = "announcing" =>
                 \A s \in Servers \ overruled : clock >= notBefore[s]
           /\ \A c \in DiscoveryIds :
                 pc # c /\ pc' = c /\ lookedAt[c] # -1 => clock - lookedAt[c] >= NOT_FOUND_CACHE
<1>0. RemoteHostTypes /\ HistoryTypes /\ TakenIsOlder /\ AnnouncesAfter /\ NextLookupIsLater
  BY DEF RemoteIInv
<1>1. ASSUME mapped' # mapped
      PROVE  taken' > taken
  <2>1. PICK r \in replies : Heard(r)
    BY <1>1
    DEF RemoteHostNext, ClockTicks, NatChanges, Due, RoundBegins, Post, Answer, Punch,
        TrustsClient, LookUp, NotFound, Found, stunVars, remoteHostVars
  <2>2. waiting /\ taken' = stunSent
    BY <1>1, <2>1 DEF Heard, Mapped
  <2> QED
    BY <1>0, <2>2 DEF TakenIsOlder, HistoryTypes
<1>2. ASSUME pc = "sleep", pc' = "announcing"
      PROVE  \A s \in Servers \ overruled : clock >= notBefore[s]
  <2>1. RoundBegins
    BY <1>2, RemoteAssumption
    DEF RemoteHostNext, ClockTicks, NatChanges, Due, Post, Answer, Punch, TrustsClient, LookUp, Heard,
        NotFound, Found, remoteHostVars
  <2>2. ToAnnounce
    BY <1>2, <2>1 DEF RoundBegins
  <2> QED
    BY <1>2, <2>2, AnnouncesWhenDue
<1>3. ASSUME NEW c \in DiscoveryIds, pc # c, pc' = c, lookedAt[c] # -1
      PROVE  clock - lookedAt[c] >= NOT_FOUND_CACHE
  <2>1. LookUp(c)
    BY <1>3, RemoteAssumption
    DEF RemoteHostNext, ClockTicks, NatChanges, Due, RoundBegins, Post, Answer, Punch,
        TrustsClient, LookUp, Heard, NotFound, Found, remoteHostVars
  <2>2. now >= lookup_after[c]
    BY <1>3, <2>1 DEF LookUp
  <2>3. lookup_after[c] \in Nat /\ lookedAt[c] \in Int /\ clock \in Nat /\ now \in Nat
        /\ now <= clock /\ NOT_FOUND_CACHE \in Nat
    BY <1>0, RemoteAssumption DEF RemoteHostTypes, HistoryTypes
  <2>4. lookup_after[c] >= lookedAt[c] + NOT_FOUND_CACHE
    BY <1>0, <1>3 DEF NextLookupIsLater
  <2> QED
    BY <2>2, <2>3, <2>4
<1> QED
  BY <1>1, <1>2, <1>3

\* What the announcing loop asks of the network, however late replies and
\* answers come and however many servers it announces to: the mapping follows the
\* newest request, a server that no other of its turn overruled is not asked before
\* its Retry-After, and no client is looked up too soon.
THEOREM RemoteHostAsksInTime == RemoteHostSpec => AsksInTime
<1>1. RemoteIInv => RemoteHostTypes
  BY DEF RemoteIInv
<1>2. RemoteIInv /\ [RemoteHostNext]_remoteHostVars =>
        /\ [mapped' # mapped => taken' > taken]_remoteHostVars
        /\ [pc = "sleep" /\ pc' = "announcing" =>
               \A s \in Servers \ overruled : clock >= notBefore[s]]_remoteHostVars
        /\ [\A c \in DiscoveryIds :
               pc # c /\ pc' = c /\ lookedAt[c] # -1 =>
                 clock - lookedAt[c] >= NOT_FOUND_CACHE]_remoteHostVars
  BY RemoteStepAsksInTime
<1> QED
  BY <1>1, <1>2, RemoteInitial, RemoteStep, PTL
  DEF RemoteHostSpec, AsksInTime, NoOldAddress, ServersAreLeftAlone, LookupsAreSpaced

-----------------------------------------------------------------------------
(* A terminal.  A change of the screen, its size or the shell's end is made  *)
(* before the version grows; the view asks for the version before it looks.  *)
(* So a view that holds the present version drew after every change that     *)
(* has been told, and a change not told yet still has its version to come.   *)

FromServer == [t : {"data"}, n : Nat] \cup [t : {"exit", "close"}]
FromDrive == [t : {"data"}, n : Nat] \cup [t : {"exited"}, code : {NoExit, "code"}] \cup [t : {"closed"}]
Shells == [written : Nat, got : Nat, sent : Nat, phase : {"off", "on", "over"}]
Drives == [phase : {"on", "over"}, code : {NoExit, "code"}, closing : BOOLEAN]
Screens == [taken : Nat, replies : 0 .. 1, size : Sizes, resized : BOOLEAN]
Ends == {NoExit} \cup Seq({NoExit, "code"})
Views == [phase : {"unopened", "waiting", "changed", "drawing", "drawn", "closed"}, seen : Nat,
          taken : Nat, ended : Ends, next : Nat, size : Sizes \cup {0}]

LineTypes ==
    /\ shell \in Shells /\ drive \in Drives
    /\ sshNet \in Seq(FromServer) /\ events \in Seq(FromDrive)

ScreenTypes ==
    /\ screenShown \in Screens
    /\ reader \in {"waiting", "replying", "bumping", "last", "over"}
    /\ version \in Nat \ {0} /\ endedWith \in Ends
    /\ drawn \in Views

ToBeTold == reader \in {"replying", "bumping", "last"} \/ screenShown.resized

VersionsArePast ==
    /\ drawn.seen <= version /\ drawn.next <= version
    /\ drawn.phase = "unopened" => drawn.seen = 0

\* A picture of the present version, with nothing to be told, is of the screen.
DrawnIsFresh ==
    drawn.phase = "drawn" /\ drawn.next = version /\ ~ ToBeTold =>
        drawn.taken = screenShown.taken /\ drawn.size = screenShown.size

TermIInv == LineTypes /\ ScreenTypes /\ VersionsArePast /\ DrawnIsFresh /\ NothingIsMissed

LEMMA TermInitial == TermInit => TermIInv
<1> SUFFICES ASSUME TermInit
             PROVE  TermIInv
  OBVIOUS
<1>1. LineTypes
  BY EmptySeq DEF TermInit, LineTypes, Shells, Drives
<1>2. ScreenTypes
  BY DEF TermInit, ScreenTypes, Screens, Views, Ends, Sizes
<1> QED
  BY <1>1, <1>2 DEF TermInit, TermIInv, VersionsArePast, DrawnIsFresh, NothingIsMissed

\* Whatever happens before the reader leaves the screen and the view alone.
LEMMA LineKeeps ==
    ASSUME TermIInv, LineTypes', UNCHANGED <<screenShown, reader, version, endedWith, drawn>>
    PROVE  TermIInv'
BY DEF TermIInv, ScreenTypes, VersionsArePast, DrawnIsFresh, NothingIsMissed, ToBeTold

\* A change of the screen that is still to be told.
LEMMA ChangeKeeps ==
    ASSUME TermIInv, LineTypes', ScreenTypes', ToBeTold', UNCHANGED <<version, drawn>>
    PROVE  TermIInv'
BY DEF TermIInv, ScreenTypes, VersionsArePast, DrawnIsFresh, NothingIsMissed, ToBeTold

\* It is told: every picture is of an earlier version.
LEMMA TellingKeeps ==
    ASSUME TermIInv, LineTypes', ScreenTypes', version' = version + 1, drawn' = drawn
    PROVE  TermIInv'
<1>1. /\ drawn.seen \in Nat /\ drawn.next \in Nat /\ version \in Nat
      /\ drawn.seen <= version /\ drawn.next <= version
  BY DEF TermIInv, ScreenTypes, VersionsArePast, Views
<1>2. drawn.seen < version' /\ drawn.next < version'
  BY <1>1
<1>3. drawn'.seen # version' /\ drawn'.next # version'
  BY <1>1, <1>2
<1>4. VersionsArePast'
  BY <1>1, <1>2 DEF TermIInv, VersionsArePast
<1> QED
  BY <1>3, <1>4 DEF TermIInv, DrawnIsFresh, NothingIsMissed

LEMMA ServerKeeps ==
    ASSUME TermIInv, ShellWrites \/ ShellEnds \/ UserSends \/ UserPastes
    PROVE  TermIInv'
<1>0. LineTypes
  BY DEF TermIInv
<1>1. /\ UNCHANGED <<screenShown, reader, version, endedWith, drawn>>
      /\ UNCHANGED <<drive, events>>
  BY DEF ShellWrites, ShellEnds, UserSends, UserPastes
<1>2. CASE ShellWrites
  <2>1. shell' \in Shells /\ [t |-> "data", n |-> shell.written + 1] \in FromServer
    <3>1. shell' = [shell EXCEPT !.written = @ + 1]
      BY <1>2 DEF ShellWrites
    <3>2. shell \in Shells
      BY <1>0 DEF LineTypes, Shells
    <3>3. shell.written \in Nat
      BY <3>2 DEF Shells
    <3>4. shell' \in Shells
      BY <3>1, <3>2, <3>3 DEF Shells
    <3> QED
      BY <3>3, <3>4 DEF FromServer
  <2>2. sshNet' \in Seq(FromServer)
    BY <1>0, <1>2, <2>1, AppendProperties DEF ShellWrites, LineTypes
  <2> QED
    BY <1>0, <1>1, <2>1, <2>2, LineKeeps DEF LineTypes
<1>3. CASE ShellEnds
  <2>1. PICK codes \in {<<>>, <<[t |-> "exit"]>>} :
          sshNet' = sshNet \o codes \o <<[t |-> "close"]>>
    BY <1>3 DEF ShellEnds
  <2>2. [t |-> "exit"] \in FromServer /\ [t |-> "close"] \in FromServer
    BY DEF FromServer
  <2>3. codes \in Seq(FromServer) /\ <<[t |-> "close"]>> \in Seq(FromServer)
    <3>1. <<>> \in Seq(FromServer) /\ <<[t |-> "exit"]>> \in Seq(FromServer)
      BY <2>2, EmptySeq
    <3>2. <<[t |-> "close"]>> \in Seq(FromServer)
      BY <2>2
    <3> QED
      BY <3>1, <3>2
  <2>4. sshNet \o codes \in Seq(FromServer)
    BY <1>0, <2>3, ConcatProperties DEF LineTypes
  <2>5. sshNet' \in Seq(FromServer)
    BY <2>1, <2>3, <2>4, ConcatProperties
  <2>6. shell' \in Shells
    BY <1>0, <1>3 DEF ShellEnds, LineTypes, Shells
  <2> QED
    BY <1>0, <1>1, <2>5, <2>6, LineKeeps DEF LineTypes
<1>4. CASE UserSends \/ UserPastes
  <2>1. shell' = [shell EXCEPT !.sent = @ + 1] /\ shell \in Shells /\ sshNet' = sshNet
    BY <1>0, <1>4 DEF UserSends, UserPastes, LineTypes
  <2>2. shell' \in Shells
    BY <2>1 DEF Shells
  <2> QED
    BY <1>0, <1>1, <2>1, <2>2, LineKeeps DEF LineTypes
<1> QED
  BY <1>2, <1>3, <1>4

\* What the drive tells the reader at its end.
LEMMA DriveEndsTyped ==
    ASSUME LineTypes, DriveEnds
    PROVE  drive' \in Drives /\ events' \in Seq(FromDrive)
<1>1. drive' = [drive EXCEPT !.phase = "over"] /\ drive \in Drives
  BY DEF LineTypes, DriveEnds
<1>2. drive' \in Drives /\ drive.code \in {NoExit, "code"}
  BY <1>1 DEF Drives
<1>3. [t |-> "exited", code |-> drive.code] \in FromDrive /\ [t |-> "closed"] \in FromDrive
  BY <1>2 DEF FromDrive
<1>4. <<[t |-> "exited", code |-> drive.code], [t |-> "closed"]>> \in Seq(FromDrive)
  BY <1>3
<1>5. events' \in Seq(FromDrive)
  BY <1>4, ConcatProperties DEF LineTypes, DriveEnds
<1> QED
  BY <1>2, <1>5

LEMMA DriveKeeps ==
    ASSUME TermIInv, DriveCommand \/ DriveMessage
    PROVE  TermIInv'
<1>0. LineTypes
  BY DEF TermIInv
<1>1. UNCHANGED <<screenShown, reader, version, endedWith, drawn>>
  BY DEF DriveCommand, DriveMessage
<1>2. CASE DriveCommand
  <2>1. sshNet' = sshNet
    BY <1>2 DEF DriveCommand
  <2>2. CASE shell' = [shell EXCEPT !.got = @ + 1] /\ UNCHANGED <<drive, events>>
    <3>1. shell' \in Shells
      <4>1. shell \in Shells
        BY <1>0 DEF LineTypes, Shells
      <4> QED
        BY <2>2, <4>1 DEF Shells
    <3> QED
      BY <1>0, <1>1, <2>1, <2>2, <3>1, LineKeeps DEF LineTypes
  <2>3. CASE DriveEnds /\ UNCHANGED shell
    BY <1>0, <1>1, <2>1, <2>3, DriveEndsTyped, LineKeeps DEF LineTypes
  <2>4. CASE UNCHANGED <<shell, drive, events>>
    BY <1>0, <1>1, <2>1, <2>4, LineKeeps DEF LineTypes
  <2>5. CASE drive' = [drive EXCEPT !.closing = TRUE] /\ UNCHANGED <<shell, events>>
    <3>1. drive' \in Drives
      BY <1>0, <2>5 DEF LineTypes, Drives
    <3> QED
      BY <1>0, <1>1, <2>1, <2>5, <3>1, LineKeeps DEF LineTypes
  <2> QED
    BY <1>2, <2>2, <2>3, <2>4, <2>5 DEF DriveCommand
<1>3. CASE DriveMessage
  <2>1. sshNet' \in Seq(FromServer) /\ Head(sshNet) \in FromServer /\ shell' = shell
    BY <1>0, <1>3, HeadTailProperties DEF DriveMessage, LineTypes
  <2>2. CASE Head(sshNet).t = "data"
    <3>1. events' = Append(events, Head(sshNet)) /\ drive' = drive
      BY <1>3, <2>2 DEF DriveMessage
    <3>2. Head(sshNet) \in FromDrive
      BY <2>1, <2>2 DEF FromServer, FromDrive
    <3>3. events' \in Seq(FromDrive)
      BY <1>0, <3>1, <3>2, AppendProperties DEF LineTypes
    <3> QED
      BY <1>0, <1>1, <2>1, <3>1, <3>3, LineKeeps DEF LineTypes
  <2>3. CASE Head(sshNet).t = "exit"
    <3>1. events' = events /\ drive' = [drive EXCEPT !.code = "code"]
      BY <1>3, <2>3 DEF DriveMessage
    <3>2. drive' \in Drives
      BY <1>0, <3>1 DEF LineTypes, Drives
    <3> QED
      BY <1>0, <1>1, <2>1, <3>1, <3>2, LineKeeps DEF LineTypes
  <2>4. CASE Head(sshNet).t = "close"
    <3>1. DriveEnds
      BY <1>3, <2>4 DEF DriveMessage
    <3> QED
      BY <1>0, <1>1, <2>1, <3>1, DriveEndsTyped, LineKeeps DEF LineTypes
  <2>5. Head(sshNet).t \in {"data", "exit", "close"}
    BY <2>1 DEF FromServer
  <2> QED
    BY <2>2, <2>3, <2>4, <2>5
<1> QED
  BY <1>2, <1>3

LEMMA ReaderKeeps ==
    ASSUME TermIInv, ReaderTakes \/ ReaderReplies \/ ReaderBumps
    PROVE  TermIInv'
<1>0. LineTypes /\ ScreenTypes
  BY DEF TermIInv
<1>1. CASE ReaderTakes
  <2>1. /\ events' \in Seq(FromDrive) /\ Head(events) \in FromDrive
        /\ UNCHANGED <<shell, sshNet, drive, version, drawn>>
    BY <1>0, <1>1, HeadTailProperties DEF ReaderTakes, LineTypes
  <2>2. LineTypes'
    BY <1>0, <2>1 DEF LineTypes
  <2>3. CASE Head(events).t = "data"
    <3>1. PICK r \in 0 .. 1 : screenShown' = [screenShown EXCEPT !.taken = Head(events).n, !.replies = r]
      BY <1>1, <2>3 DEF ReaderTakes
    <3>2. Head(events).n \in Nat
      BY <2>1, <2>3 DEF FromDrive
    <3>3. screenShown' \in Screens
      BY <1>0, <3>1, <3>2 DEF ScreenTypes, Screens
    <3>4. reader' = "replying" /\ endedWith' = endedWith
      BY <1>1, <2>3 DEF ReaderTakes
    <3> QED
      BY <1>0, <2>1, <2>2, <3>3, <3>4, ChangeKeeps DEF ScreenTypes, ToBeTold
  <2>4. CASE Head(events).t = "exited"
    <3>1. /\ endedWith' = IF endedWith = NoExit THEN <<Head(events).code>> ELSE endedWith
          /\ reader' = "bumping" /\ screenShown' = screenShown
      BY <1>1, <2>4 DEF ReaderTakes
    <3>2. Head(events).code \in {NoExit, "code"}
      BY <2>1, <2>4 DEF FromDrive
    <3>3. <<Head(events).code>> \in Seq({NoExit, "code"})
      BY <3>2
    <3>4. endedWith' \in Ends
      BY <1>0, <3>1, <3>3 DEF ScreenTypes, Ends
    <3> QED
      BY <1>0, <2>1, <2>2, <3>1, <3>4, ChangeKeeps DEF ScreenTypes, ToBeTold
  <2>5. CASE Head(events).t = "closed"
    <3>1. /\ endedWith' = IF endedWith = NoExit THEN <<NoExit>> ELSE endedWith
          /\ reader' = "last" /\ screenShown' = screenShown
      BY <1>1, <2>5 DEF ReaderTakes
    <3>2. <<NoExit>> \in Seq({NoExit, "code"})
      OBVIOUS
    <3>3. endedWith' \in Ends
      BY <1>0, <3>1, <3>2 DEF ScreenTypes, Ends
    <3> QED
      BY <1>0, <2>1, <2>2, <3>1, <3>3, ChangeKeeps DEF ScreenTypes, ToBeTold
  <2>6. Head(events).t \in {"data", "exited", "closed"}
    BY <2>1 DEF FromDrive
  <2> QED
    BY <2>3, <2>4, <2>5, <2>6
<1>2. CASE ReaderReplies
  <2>1. /\ screenShown' = [screenShown EXCEPT !.replies = 0] /\ reader' = "bumping"
        /\ UNCHANGED <<shell, sshNet, drive, events, version, endedWith, drawn>>
    BY <1>2 DEF ReaderReplies
  <2>2. screenShown' \in Screens
    BY <1>0, <2>1 DEF ScreenTypes, Screens
  <2> QED
    BY <1>0, <2>1, <2>2, ChangeKeeps DEF LineTypes, ScreenTypes, ToBeTold
<1>3. CASE ReaderBumps
  BY <1>0, <1>3, TellingKeeps DEF ReaderBumps, LineTypes, ScreenTypes
<1> QED
  BY <1>1, <1>2, <1>3

LEMMA ViewKeeps ==
    ASSUME TermIInv,
           OpenShell \/ UserResizes \/ ResizeBumps \/ UserCloses
             \/ WaitChange \/ SnapshotVersion \/ Snapshot \/ ShowsEnd
    PROVE  TermIInv'
<1>0. LineTypes /\ ScreenTypes /\ VersionsArePast /\ DrawnIsFresh /\ NothingIsMissed
  BY DEF TermIInv
<1>1. CASE UserResizes
  <2>1. PICK z \in Sizes : screenShown' = [screenShown EXCEPT !.size = z, !.resized = TRUE]
    BY <1>1 DEF UserResizes
  <2>2. screenShown' \in Screens /\ screenShown'.resized
    BY <1>0, <2>1 DEF ScreenTypes, Screens
  <2>3. shell' \in Shells
    <3>1. shell' = [shell EXCEPT !.sent = @ + 1] /\ shell \in Shells
      BY <1>0, <1>1 DEF UserResizes, LineTypes
    <3> QED
      BY <3>1 DEF Shells
  <2> QED
    BY <1>0, <1>1, <2>2, <2>3, ChangeKeeps DEF UserResizes, LineTypes, ScreenTypes, ToBeTold
<1>2. CASE ResizeBumps
  <2>1. screenShown' \in Screens
    BY <1>0, <1>2 DEF ResizeBumps, ScreenTypes, Screens
  <2> QED
    BY <1>0, <1>2, <2>1, TellingKeeps DEF ResizeBumps, LineTypes, ScreenTypes
<1>3. CASE OpenShell \/ UserCloses \/ WaitChange \/ SnapshotVersion \/ Snapshot \/ ShowsEnd
  <2>1. UNCHANGED <<sshNet, drive, events, screenShown, reader, version, endedWith>>
    BY <1>3 DEF OpenShell, UserCloses, WaitChange, SnapshotVersion, Snapshot, ShowsEnd
  <2>2. shell' \in Shells
    BY <1>0, <1>3
    DEF OpenShell, UserCloses, WaitChange, SnapshotVersion, Snapshot, ShowsEnd, LineTypes, Shells
  <2>3. LineTypes'
    BY <1>0, <2>1, <2>2 DEF LineTypes
  <2>4. ToBeTold' = ToBeTold
    BY <2>1 DEF ToBeTold
  <2>5. ASSUME drawn' \in Views, VersionsArePast', DrawnIsFresh', NothingIsMissed'
        PROVE  TermIInv'
    BY <1>0, <2>1, <2>3, <2>5 DEF TermIInv, ScreenTypes
  <2>6. drawn \in Views /\ version \in Nat \ {0} /\ endedWith \in Ends
    BY <1>0 DEF ScreenTypes
  <2>7. CASE OpenShell
    <3>1. drawn' = [drawn EXCEPT !.phase = "waiting"] /\ drawn.phase = "unopened"
      BY <2>7 DEF OpenShell
    <3>2. drawn' \in Views /\ drawn'.phase = "waiting" /\ drawn'.seen = 0 /\ drawn'.next = drawn.next
      BY <1>0, <2>6, <3>1 DEF Views, VersionsArePast
    <3> QED
      BY <1>0, <2>1, <2>5, <2>6, <3>2 DEF VersionsArePast, DrawnIsFresh, NothingIsMissed
  <2>8. CASE UserCloses \/ WaitChange
    <3>1. PICK p \in {"closed", "changed"} : drawn' = [drawn EXCEPT !.phase = p]
      BY <2>8 DEF UserCloses, WaitChange
    <3>2. drawn' \in Views /\ drawn'.phase = p /\ drawn'.seen = drawn.seen /\ drawn'.next = drawn.next
      BY <2>6, <3>1 DEF Views
    <3> QED
      BY <1>0, <2>1, <2>5, <3>2 DEF VersionsArePast, DrawnIsFresh, NothingIsMissed
  <2>9. CASE SnapshotVersion
    <3>1. drawn' = [drawn EXCEPT !.phase = "drawing", !.next = version]
      BY <2>9 DEF SnapshotVersion
    <3>2. drawn' \in Views /\ drawn'.phase = "drawing" /\ drawn'.seen = drawn.seen /\ drawn'.next = version
      BY <2>6, <3>1 DEF Views
    <3> QED
      BY <1>0, <2>1, <2>5, <2>6, <3>2 DEF VersionsArePast, DrawnIsFresh, NothingIsMissed
  <2>10. CASE Snapshot
    <3>1. drawn' = [drawn EXCEPT !.phase = "drawn", !.taken = screenShown.taken,
                                 !.size = screenShown.size]
      BY <2>10 DEF Snapshot
    <3>2. screenShown.taken \in Nat /\ screenShown.size \in Sizes
      BY <1>0 DEF ScreenTypes, Screens
    <3>3. /\ drawn' \in Views /\ drawn'.phase = "drawn" /\ drawn'.seen = drawn.seen
          /\ drawn'.next = drawn.next
          /\ drawn'.taken = screenShown.taken /\ drawn'.size = screenShown.size
      BY <2>6, <3>1, <3>2 DEF Views
    <3> QED
      BY <1>0, <2>1, <2>5, <3>3 DEF VersionsArePast, DrawnIsFresh, NothingIsMissed
  <2>11. CASE ShowsEnd
    <3>1. drawn' = [drawn EXCEPT !.phase = "waiting", !.ended = endedWith, !.seen = drawn.next]
          /\ drawn.phase = "drawn"
      BY <2>11 DEF ShowsEnd, VersionTaken
    <3>2. /\ drawn' \in Views /\ drawn'.phase = "waiting" /\ drawn'.seen = drawn.next
          /\ drawn'.next = drawn.next /\ drawn'.ended = endedWith
          /\ drawn'.taken = drawn.taken /\ drawn'.size = drawn.size
      BY <2>6, <3>1 DEF Views
    <3>3. NothingIsMissed'
      BY <1>0, <2>1, <3>1, <3>2 DEF DrawnIsFresh, NothingIsMissed, ToBeTold
    <3> QED
      BY <1>0, <2>1, <2>5, <3>2, <3>3 DEF VersionsArePast, DrawnIsFresh
  <2> QED
    BY <1>3, <2>7, <2>8, <2>9, <2>10, <2>11
<1> QED
  BY <1>1, <1>2, <1>3

LEMMA TermStep == TermIInv /\ [TermNext]_termVars => TermIInv'
<1> SUFFICES ASSUME TermIInv, [TermNext]_termVars
             PROVE  TermIInv'
  OBVIOUS
<1>1. CASE UNCHANGED termVars
  BY <1>1
  DEF termVars, TermIInv, LineTypes, ScreenTypes, VersionsArePast, DrawnIsFresh, NothingIsMissed, ToBeTold
<1>2. CASE ShellWrites \/ ShellEnds \/ UserSends \/ UserPastes
  BY <1>2, ServerKeeps
<1>3. CASE DriveCommand \/ DriveMessage
  BY <1>3, DriveKeeps
<1>4. CASE ReaderTakes \/ ReaderReplies \/ ReaderBumps
  BY <1>4, ReaderKeeps
<1>5. CASE OpenShell \/ UserResizes \/ ResizeBumps \/ UserCloses
             \/ WaitChange \/ SnapshotVersion \/ Snapshot \/ ShowsEnd
  BY <1>5, ViewKeeps
<1> QED
  BY <1>1, <1>2, <1>3, <1>4, <1>5 DEF TermNext

\* Terminal and its view: a view that waits, with nothing more to be told, shows
\* all the output taken, the size and the shell's end.
THEOREM TerminalMissesNothing == TermSpec => []NothingIsMissed
<1>1. TermIInv => NothingIsMissed
  BY DEF TermIInv
<1> QED
  BY <1>1, TermInitial, TermStep, PTL DEF TermSpec

-----------------------------------------------------------------------------
(* The accounts RemoteApps log in to.  While launches come one at a time, a  *)
(* launch at the file holds what is in it, and makes a password only where   *)
(* none is kept or the user is gone.                                         *)

Kepts == [Names -> Nat]
AppLaunches ==
    [phase : {"idle", "look", "make", "keep", "login"}, name : Names \union {"none"},
     read : Kepts \union {<<>>}, password : Nat, typed : BOOLEAN,
     result : {"none", "screen", "refused", "password_needed", "running"}]

LaunchTypes ==
    /\ users \in Kepts /\ kept \in Kepts
    /\ launch \in [LaunchThreads -> AppLaunches]
    /\ \A t \in LaunchThreads : AtTheFile(t) => launch[t].name \in Names /\ launch[t].read \in Kepts
    /\ made \in Nat

\* At most one launch is at the file, and the file is what it read.
OneAtTheFile ==
    \A t \in LaunchThreads : AtTheFile(t) =>
        /\ \A o \in LaunchThreads : AtTheFile(o) => o = t
        /\ launch[t].read = kept

\* What is not to be relied on is about to be replaced.
MadeWhenGone ==
    \A t \in LaunchThreads :
        /\ LaunchAt(t, "make") =>
             kept[launch[t].name] = NoPassword \/ users[launch[t].name] = NoPassword
        /\ LaunchAt(t, "keep") =>
             users[launch[t].name] \in {launch[t].password, NoPassword}

LaunchesIInv ==
    /\ LaunchTypes
    /\ ~unkept => OneAtTheFile /\ MadeWhenGone
    /\ KeptPasswordLogsIn

LEMMA LaunchesInitial == LaunchesInit => LaunchesIInv
  BY DEF LaunchesInit, LaunchesIInv, LaunchTypes, OneAtTheFile, MadeWhenGone, KeptPasswordLogsIn,
         Kepts, AppLaunches, NoAppLaunch, NoPassword, AtTheFile, LaunchAt

\* A launch leaves the file, or never was at it.
LEMMA LeavesTheFile ==
    ASSUME LaunchesIInv, NEW t \in LaunchThreads, NEW l \in AppLaunches,
           launch' = [launch EXCEPT ![t] = l],
           l.phase \in {"idle", "login"},
           LaunchAt(t, "keep") => unkept',
           UNCHANGED <<kept, users>>, made' \in Nat,
           unkept => unkept'
    PROVE  LaunchesIInv'
<1>1. launch'[t] = l /\ \A o \in LaunchThreads : o # t => launch'[o] = launch[o]
  BY DEF LaunchesIInv, LaunchTypes
<1>2. LaunchTypes'
  BY <1>1 DEF LaunchesIInv, LaunchTypes, AtTheFile
<1>3. \A o \in LaunchThreads : /\ AtTheFile(o)' => AtTheFile(o) /\ o # t /\ launch'[o] = launch[o]
                               /\ LaunchAt(o, "make")' => LaunchAt(o, "make") /\ launch'[o] = launch[o]
                               /\ LaunchAt(o, "keep")' => LaunchAt(o, "keep") /\ launch'[o] = launch[o]
  BY <1>1 DEF AtTheFile, LaunchAt
<1>4. ASSUME ~unkept' PROVE OneAtTheFile'
  BY <1>3, <1>4 DEF LaunchesIInv, OneAtTheFile
<1>5. ASSUME ~unkept' PROVE MadeWhenGone'
  BY <1>3, <1>5 DEF LaunchesIInv, MadeWhenGone
<1>6. KeptPasswordLogsIn'
  <2> SUFFICES ASSUME ~unkept', NEW n \in Names, kept[n] # NoPassword, users[n] # NoPassword,
                      \A o \in LaunchThreads : ~(LaunchAt(o, "keep")' /\ launch'[o].name = n)
               PROVE  kept[n] = users[n]
    BY DEF KeptPasswordLogsIn
  <2>1. \A o \in LaunchThreads : ~(LaunchAt(o, "keep") /\ launch[o].name = n)
    BY <1>1 DEF LaunchAt
  <2> QED
    BY <2>1 DEF LaunchesIInv, KeptPasswordLogsIn
<1> QED
  BY <1>2, <1>4, <1>5, <1>6 DEF LaunchesIInv

\* A launch that ends.
LEMMA FinishLeaves ==
    ASSUME LaunchesIInv, NEW t \in LaunchThreads,
           NEW result \in {"screen", "refused", "password_needed", "running"}, Finish(t, result),
           LaunchAt(t, "keep") => unkept',
           UNCHANGED <<kept, users>>, made' \in Nat,
           unkept => unkept'
    PROVE  LaunchesIInv'
<1> DEFINE l == [NoAppLaunch EXCEPT !.result = result]
<1>1. l \in AppLaunches /\ l.phase = "idle"
  BY DEF NoAppLaunch, AppLaunches, NoPassword
<1>2. launch' = [launch EXCEPT ![t] = l]
  BY DEF Finish
<1> HIDE DEF l
<1> QED
  BY <1>1, <1>2, LeavesTheFile

LEMMA ReadsKeptKeeps ==
    ASSUME LaunchesIInv, NEW t \in LaunchThreads, ReadsKept(t)
    PROVE  LaunchesIInv'
<1>1. PICK p \in Principals :
        launch' = [launch EXCEPT ![t] =
          [NoAppLaunch EXCEPT !.phase = "look", !.name = AccountNameOf[p], !.read = kept]]
  BY DEF ReadsKept
<1> DEFINE looking == [NoAppLaunch EXCEPT !.phase = "look"]
           named   == [looking EXCEPT !.name = AccountNameOf[p]]
           l       == [named EXCEPT !.read = kept]
<1>2. l \in AppLaunches /\ l.name \in Names /\ l.read = kept /\ l.phase = "look" /\ kept \in Kepts
  <2>1. AccountNameOf[p] \in Names /\ kept \in Kepts
    BY DEF Names, LaunchesIInv, LaunchTypes
  <2>2. NoAppLaunch \in AppLaunches
    BY DEF NoAppLaunch, AppLaunches, NoPassword
  <2>3. looking \in AppLaunches /\ looking.phase = "look"
    BY <2>2 DEF AppLaunches
  <2> HIDE DEF looking
  <2>4. named \in AppLaunches /\ named.phase = "look" /\ named.name = AccountNameOf[p]
    BY <2>1, <2>3 DEF AppLaunches
  <2> HIDE DEF named
  <2> QED
    BY <2>1, <2>4 DEF AppLaunches
<1>3. launch' = [launch EXCEPT ![t] = l]
  BY <1>1
<1> HIDE DEF l
<1>4. launch'[t] = l /\ \A o \in LaunchThreads : o # t => launch'[o] = launch[o]
  BY <1>3 DEF LaunchesIInv, LaunchTypes
<1>5. UNCHANGED <<kept, users, made>> /\ launch[t].phase = "idle"
  BY DEF ReadsKept, LaunchAt
<1>6. LaunchTypes'
  BY <1>2, <1>3, <1>4, <1>5 DEF LaunchesIInv, LaunchTypes, AtTheFile
<1>7. ASSUME ~unkept' PROVE OneAtTheFile'
  <2>1. \A o \in LaunchThreads : ~AtTheFile(o)
    BY <1>7 DEF ReadsKept
  <2>2. \A o \in LaunchThreads : AtTheFile(o)' => o = t
    BY <1>4, <2>1 DEF AtTheFile
  <2> QED
    BY <1>2, <1>4, <1>5, <2>2 DEF OneAtTheFile
<1>8. ASSUME ~unkept' PROVE MadeWhenGone'
  <2>1. ~unkept
    BY <1>8 DEF ReadsKept
  <2> QED
    BY <1>2, <1>4, <1>5, <2>1 DEF LaunchesIInv, MadeWhenGone, LaunchAt
<1>9. KeptPasswordLogsIn'
  <2> SUFFICES ASSUME ~unkept', NEW n \in Names, kept[n] # NoPassword, users[n] # NoPassword,
                      \A o \in LaunchThreads : ~(LaunchAt(o, "keep")' /\ launch'[o].name = n)
               PROVE  kept[n] = users[n]
    BY <1>5 DEF KeptPasswordLogsIn
  <2>1. ~unkept
    BY DEF ReadsKept
  <2>2. \A o \in LaunchThreads : ~(LaunchAt(o, "keep") /\ launch[o].name = n)
    BY <1>4, <1>5 DEF LaunchAt
  <2> QED
    BY <2>1, <2>2 DEF LaunchesIInv, KeptPasswordLogsIn
<1> QED
  BY <1>6, <1>7, <1>8, <1>9 DEF LaunchesIInv

LEMMA LooksUpKeeps ==
    ASSUME LaunchesIInv, NEW t \in LaunchThreads, LooksUp(t)
    PROVE  LaunchesIInv'
<1> DEFINE l == launch[t]
<1>1. l \in AppLaunches /\ l.name \in Names /\ l.read \in Kepts /\ l.phase = "look"
  BY DEF LooksUp, LaunchesIInv, LaunchTypes, AtTheFile, LaunchAt
<1>2. UNCHANGED <<kept, users, made, unkept>>
  BY DEF LooksUp
<1>3. CASE l.read[l.name] # NoPassword /\ users[l.name] # NoPassword
  <2> DEFINE k == [l EXCEPT !.phase = "login", !.password = l.read[l.name]]
  <2>1. launch' = [launch EXCEPT ![t] = k]
    BY <1>3 DEF LooksUp
  <2>2. l.read[l.name] \in Nat
    BY <1>1 DEF Kepts
  <2>3. k = [[l EXCEPT !.phase = "login"] EXCEPT !.password = l.read[l.name]]
    OBVIOUS
  <2>4. [l EXCEPT !.phase = "login"] \in AppLaunches /\ [l EXCEPT !.phase = "login"].phase = "login"
    BY <1>1 DEF AppLaunches
  <2>5. k \in AppLaunches /\ k.phase = "login"
    BY <2>2, <2>3, <2>4 DEF AppLaunches
  <2>6. made' \in Nat /\ ~LaunchAt(t, "keep")
    BY <1>1, <1>2 DEF LaunchesIInv, LaunchTypes, LaunchAt
  <2> HIDE DEF k
  <2> QED
    BY <1>2, <2>1, <2>5, <2>6, LeavesTheFile
<1>4. CASE ~(l.read[l.name] # NoPassword /\ users[l.name] # NoPassword)
  <2>1. launch' = [launch EXCEPT ![t] = [l EXCEPT !.phase = "make"]]
    BY <1>4 DEF LooksUp
  <2>2. launch'[t] = [l EXCEPT !.phase = "make"] /\ \A o \in LaunchThreads : o # t => launch'[o] = launch[o]
    BY <2>1 DEF LaunchesIInv, LaunchTypes
  <2>3. /\ launch'[t] \in AppLaunches /\ launch'[t].phase = "make"
        /\ launch'[t].name = l.name /\ launch'[t].read = l.read
    BY <1>1, <2>2 DEF AppLaunches
  <2>4. LaunchTypes'
    BY <1>1, <1>2, <2>1, <2>2, <2>3 DEF LaunchesIInv, LaunchTypes, AtTheFile
  <2>5. \A o \in LaunchThreads : /\ AtTheFile(o)' <=> AtTheFile(o)
                                 /\ launch'[o].read = launch[o].read /\ launch'[o].name = launch[o].name
                                 /\ LaunchAt(o, "keep")' <=> LaunchAt(o, "keep")
                                 /\ LaunchAt(o, "make")' => o = t \/ LaunchAt(o, "make")
                                 /\ LaunchAt(o, "keep")' => launch'[o].password = launch[o].password
    BY <1>1, <2>2, <2>3 DEF AtTheFile, LaunchAt
  <2>6. ASSUME ~unkept PROVE OneAtTheFile'
    BY <1>2, <2>5, <2>6 DEF LaunchesIInv, OneAtTheFile
  <2>7. ASSUME ~unkept PROVE MadeWhenGone'
    <3>1. l.read = kept
      BY <1>1, <2>7 DEF LaunchesIInv, OneAtTheFile, AtTheFile
    <3> QED
      BY <1>2, <1>4, <2>5, <2>7, <3>1 DEF LaunchesIInv, MadeWhenGone
  <2>8. KeptPasswordLogsIn'
    BY <1>2, <2>5 DEF LaunchesIInv, KeptPasswordLogsIn
  <2> QED
    BY <1>2, <2>4, <2>6, <2>7, <2>8 DEF LaunchesIInv
<1> QED
  BY <1>3, <1>4

\* The password of a user is set: it is about to be kept, or is given up.
LEMMA MakesUserKeeps ==
    ASSUME LaunchesIInv, NEW t \in LaunchThreads, MakesUser(t)
    PROVE  LaunchesIInv'
<1> DEFINE l == launch[t]
<1>1. l \in AppLaunches /\ l.name \in Names /\ l.read \in Kepts /\ l.phase = "make" /\ made \in Nat
  BY DEF MakesUser, LaunchesIInv, LaunchTypes, AtTheFile, LaunchAt
<1>2. UNCHANGED kept /\ ~LaunchAt(t, "keep")
  BY <1>1 DEF MakesUser, LaunchAt
<1>3. CASE Finish(t, "refused") /\ UNCHANGED <<users, made, unkept>>
  BY <1>1, <1>2, <1>3, FinishLeaves
<1>4. ASSUME users' = [users EXCEPT ![l.name] = made + 1], made' = made + 1
      PROVE  users' \in Kepts /\ users'[l.name] = made + 1 /\ made' \in Nat
  BY <1>1, <1>4 DEF LaunchesIInv, LaunchTypes, Kepts
<1>5. CASE /\ users' = [users EXCEPT ![l.name] = made + 1] /\ made' = made + 1
           /\ Finish(t, "refused") /\ unkept' = TRUE
  <2>1. NoAppLaunch \in AppLaunches /\ [NoAppLaunch EXCEPT !.result = "refused"] \in AppLaunches
        /\ [NoAppLaunch EXCEPT !.result = "refused"].phase = "idle"
    BY DEF NoAppLaunch, AppLaunches, NoPassword
  <2>2. LaunchTypes'
    BY <1>2, <1>4, <1>5, <2>1 DEF LaunchesIInv, LaunchTypes, AtTheFile, Finish
  <2> QED
    BY <1>5, <2>2 DEF LaunchesIInv, KeptPasswordLogsIn
<1>6. CASE /\ users' = [users EXCEPT ![l.name] = made + 1] /\ made' = made + 1
           /\ launch' = [launch EXCEPT ![t].phase = "keep", ![t].password = made + 1]
           /\ UNCHANGED unkept
  <2> DEFINE k == [[l EXCEPT !.phase = "keep"] EXCEPT !.password = made + 1]
  <2>1. /\ [l EXCEPT !.phase = "keep"] \in AppLaunches /\ [l EXCEPT !.phase = "keep"].phase = "keep"
        /\ [l EXCEPT !.phase = "keep"].name = l.name /\ [l EXCEPT !.phase = "keep"].read = l.read
    BY <1>1 DEF AppLaunches
  <2>2. /\ k \in AppLaunches /\ k.phase = "keep" /\ k.name = l.name /\ k.read = l.read
        /\ k.password = made + 1
    <3>1. made + 1 \in Nat
      BY <1>1
    <3> QED
      BY <2>1, <3>1 DEF AppLaunches
  <2>3. launch' = [launch EXCEPT ![t] = k]
    BY <1>6 DEF LaunchesIInv, LaunchTypes
  <2> HIDE DEF k
  <2>4. launch'[t] = k /\ \A o \in LaunchThreads : o # t => launch'[o] = launch[o]
    BY <2>3 DEF LaunchesIInv, LaunchTypes
  <2>5. LaunchTypes'
    BY <1>1, <1>2, <1>4, <1>6, <2>2, <2>3, <2>4 DEF LaunchesIInv, LaunchTypes, AtTheFile
  <2>6. \A o \in LaunchThreads : /\ AtTheFile(o)' <=> AtTheFile(o)
                                 /\ launch'[o].read = launch[o].read /\ launch'[o].name = launch[o].name
                                 /\ LaunchAt(o, "make")' => LaunchAt(o, "make") /\ o # t
                                 /\ LaunchAt(o, "keep")' => o = t \/ LaunchAt(o, "keep")
    BY <1>1, <2>2, <2>4 DEF AtTheFile, LaunchAt
  <2>7. ASSUME ~unkept PROVE OneAtTheFile'
    BY <1>2, <2>6, <2>7 DEF LaunchesIInv, OneAtTheFile
  <2>8. ASSUME ~unkept PROVE \A o \in LaunchThreads : AtTheFile(o) => o = t
    BY <1>1, <2>8 DEF LaunchesIInv, OneAtTheFile, AtTheFile
  <2>9. ASSUME ~unkept PROVE MadeWhenGone'
    <3>1. \A o \in LaunchThreads : AtTheFile(o)' => o = t
      BY <2>6, <2>8, <2>9
    <3> QED
      BY <1>4, <1>6, <2>2, <2>4, <3>1 DEF MadeWhenGone, AtTheFile, LaunchAt
  <2>10. KeptPasswordLogsIn'
    <3> SUFFICES ASSUME ~unkept, NEW n \in Names, kept[n] # NoPassword, users'[n] # NoPassword,
                        \A o \in LaunchThreads : ~(LaunchAt(o, "keep")' /\ launch'[o].name = n)
                 PROVE  kept[n] = users'[n]
      BY <1>2, <1>6 DEF KeptPasswordLogsIn
    <3>1. n # l.name
      BY <2>2, <2>4 DEF LaunchAt
    <3>2. users'[n] = users[n]
      BY <1>6, <3>1 DEF LaunchesIInv, LaunchTypes, Kepts
    <3>3. \A o \in LaunchThreads : ~LaunchAt(o, "keep")
      BY <1>1, <2>8 DEF AtTheFile, LaunchAt
    <3> QED
      BY <3>2, <3>3 DEF LaunchesIInv, KeptPasswordLogsIn
  <2> QED
    BY <1>6, <2>5, <2>7, <2>9, <2>10 DEF LaunchesIInv
<1> QED
  BY <1>3, <1>5, <1>6 DEF MakesUser

\* What is in the file once a launch wrote it, or part of it.
LEMMA WrittenIs ==
    ASSUME LaunchesIInv, NEW t \in LaunchThreads, LaunchAt(t, "keep")
    PROVE  /\ KeptWith(t) \in Kepts
           /\ ~unkept => \A n \in Names :
                /\ KeptWith(t)[n] # NoPassword /\ users[n] # NoPassword => KeptWith(t)[n] = users[n]
                /\ \A o \in LaunchThreads : AtTheFile(o) => o = t
<1>1. launch[t] \in AppLaunches /\ launch[t].name \in Names /\ launch[t].read \in Kepts /\ AtTheFile(t)
      /\ launch[t].password \in Nat
  BY DEF LaunchesIInv, LaunchTypes, AtTheFile, LaunchAt, AppLaunches
<1>2. KeptWith(t) \in Kepts /\ \A n \in Names :
        KeptWith(t)[n] = IF n = launch[t].name THEN launch[t].password ELSE launch[t].read[n]
  BY <1>1 DEF KeptWith, Kepts
<1>3. ASSUME ~unkept, NEW n \in Names
      PROVE  /\ KeptWith(t)[n] # NoPassword /\ users[n] # NoPassword => KeptWith(t)[n] = users[n]
             /\ \A o \in LaunchThreads : AtTheFile(o) => o = t
  <2>1. \A o \in LaunchThreads : AtTheFile(o) => o = t
    BY <1>1, <1>3 DEF LaunchesIInv, OneAtTheFile
  <2>2. CASE n = launch[t].name
    BY <1>2, <1>3, <2>1, <2>2 DEF LaunchesIInv, MadeWhenGone
  <2>3. CASE n # launch[t].name
    <3>1. KeptWith(t)[n] = kept[n]
      BY <1>1, <1>2, <1>3, <2>3 DEF LaunchesIInv, OneAtTheFile
    <3>2. \A o \in LaunchThreads : ~(LaunchAt(o, "keep") /\ launch[o].name = n)
      BY <2>1, <2>3 DEF AtTheFile, LaunchAt
    <3> QED
      BY <1>3, <2>1, <3>1, <3>2 DEF LaunchesIInv, KeptPasswordLogsIn
  <2> QED
    BY <2>1, <2>2, <2>3
<1> QED
  BY <1>2, <1>3

LEMMA KeepsKeeps ==
    ASSUME LaunchesIInv, NEW t \in LaunchThreads, Keeps(t)
    PROVE  LaunchesIInv'
<1> DEFINE l == launch[t]
<1>1. l \in AppLaunches /\ l.phase = "keep" /\ made \in Nat
  BY DEF Keeps, LaunchesIInv, LaunchTypes, LaunchAt
<1>2. UNCHANGED <<users, made>>
  BY DEF Keeps
<1>3. LaunchAt(t, "keep") /\ KeptWith(t) \in Kepts
  BY WrittenIs DEF Keeps
<1>4. CASE Finish(t, "refused") /\ unkept' = TRUE /\ (UNCHANGED kept \/ CutShort(t))
  <2>1. kept' \in Kepts
    <3>1. CASE UNCHANGED kept
      BY <3>1 DEF LaunchesIInv, LaunchTypes
    <3>2. CASE CutShort(t)
      <4>1. PICK lines \in SUBSET Names :
              kept' = [n \in Names |-> IF n \in lines THEN KeptWith(t)[n] ELSE NoPassword]
        BY <3>2 DEF CutShort
      <4> QED
        BY <1>3, <4>1 DEF Kepts, NoPassword
    <3> QED
      BY <1>4, <3>1, <3>2
  <2>2. [NoAppLaunch EXCEPT !.result = "refused"] \in AppLaunches
        /\ [NoAppLaunch EXCEPT !.result = "refused"].phase = "idle"
    BY DEF NoAppLaunch, AppLaunches, NoPassword
  <2>3. LaunchTypes'
    BY <1>2, <1>4, <2>1, <2>2 DEF LaunchesIInv, LaunchTypes, AtTheFile, Finish
  <2> QED
    BY <1>4, <2>3 DEF LaunchesIInv, KeptPasswordLogsIn
<1>5. CASE kept' = KeptWith(t) /\ launch' = [launch EXCEPT ![t].phase = "login"] /\ UNCHANGED unkept
  <2> DEFINE k == [l EXCEPT !.phase = "login"]
  <2>0. k \in AppLaunches /\ k.phase = "login"
    BY <1>1 DEF AppLaunches
  <2>00. launch' = [launch EXCEPT ![t] = k]
    BY <1>5 DEF LaunchesIInv, LaunchTypes
  <2> HIDE DEF k
  <2>1. /\ launch'[t] \in AppLaunches /\ launch'[t].phase = "login"
        /\ \A o \in LaunchThreads : o # t => launch'[o] = launch[o]
    BY <2>0, <2>00 DEF LaunchesIInv, LaunchTypes
  <2>2. LaunchTypes'
    <3>1. launch' = [launch EXCEPT ![t] = launch'[t]]
      BY <1>5, <2>1 DEF LaunchesIInv, LaunchTypes
    <3>2. launch' \in [LaunchThreads -> AppLaunches]
      BY <2>1, <3>1 DEF LaunchesIInv, LaunchTypes
    <3> QED
      BY <1>2, <1>3, <1>5, <2>1, <3>2 DEF LaunchesIInv, LaunchTypes, AtTheFile
  <2>3. ASSUME ~unkept PROVE \A o \in LaunchThreads : ~AtTheFile(o)'
    <3>1. \A o \in LaunchThreads : AtTheFile(o) => o = t
      BY <1>1, <2>3 DEF LaunchesIInv, OneAtTheFile, AtTheFile
    <3> QED
      BY <2>1, <3>1 DEF AtTheFile
  <2>4. ASSUME ~unkept PROVE OneAtTheFile' /\ MadeWhenGone'
    BY <2>3, <2>4 DEF OneAtTheFile, MadeWhenGone, AtTheFile, LaunchAt
  <2>5. KeptPasswordLogsIn'
    BY <1>2, <1>3, <1>5, WrittenIs DEF KeptPasswordLogsIn
  <2> QED
    BY <1>5, <2>2, <2>4, <2>5 DEF LaunchesIInv
<1> QED
  BY <1>4, <1>5 DEF Keeps

LEMMA HostKilledKeeps == LaunchesIInv /\ HostKilled => LaunchesIInv'
<1> SUFFICES ASSUME LaunchesIInv, HostKilled PROVE LaunchesIInv'
  OBVIOUS
<1>1. /\ launch' = [t \in LaunchThreads |-> NoAppLaunch] /\ UNCHANGED <<users, made>>
      /\ NoAppLaunch \in AppLaunches /\ NoAppLaunch.phase = "idle"
  BY DEF HostKilled, NoAppLaunch, AppLaunches, NoPassword
<1>2. \A t \in LaunchThreads : ~AtTheFile(t)' /\ launch'[t].phase = "idle"
  BY <1>1 DEF AtTheFile
<1>3. OneAtTheFile' /\ MadeWhenGone'
  BY <1>2 DEF OneAtTheFile, MadeWhenGone, LaunchAt
<1>4. CASE unkept' = (unkept \/ \E t \in LaunchThreads : LaunchAt(t, "keep")) /\ UNCHANGED kept
  <2>1. LaunchTypes'
    BY <1>1, <1>2, <1>4 DEF LaunchesIInv, LaunchTypes
  <2>2. KeptPasswordLogsIn'
    BY <1>1, <1>4 DEF LaunchesIInv, KeptPasswordLogsIn
  <2> QED
    BY <1>3, <2>1, <2>2 DEF LaunchesIInv
<1>5. ASSUME NEW t \in LaunchThreads, LaunchAt(t, "keep"), CutShort(t), UNCHANGED unkept
      PROVE  LaunchesIInv'
  <2>1. PICK lines \in SUBSET Names :
          kept' = [n \in Names |-> IF n \in lines THEN KeptWith(t)[n] ELSE NoPassword]
    BY <1>5 DEF CutShort
  <2>2. KeptWith(t) \in Kepts
    BY <1>5, WrittenIs
  <2>3. kept' \in Kepts
    BY <2>1, <2>2 DEF Kepts, NoPassword
  <2>4. LaunchTypes'
    BY <1>1, <1>2, <2>3 DEF LaunchesIInv, LaunchTypes
  <2>5. KeptPasswordLogsIn'
    <3>1. \A n \in Names : kept'[n] \in {KeptWith(t)[n], NoPassword}
      BY <2>1
    <3> QED
      BY <1>1, <1>5, <3>1, WrittenIs DEF KeptPasswordLogsIn
  <2> QED
    BY <1>3, <2>4, <2>5 DEF LaunchesIInv
<1> QED
  BY <1>4, <1>5 DEF HostKilled

LEMMA UserRemovedKeeps ==
    ASSUME LaunchesIInv, NEW n \in Names, UserRemoved(n)
    PROVE  LaunchesIInv'
<1>1. /\ users' \in Kepts /\ \A m \in Names : users'[m] = users[m] \/ users'[m] = NoPassword
      /\ UNCHANGED <<kept, launch, made, unkept>>
  BY DEF UserRemoved, LaunchesIInv, LaunchTypes, Kepts, NoPassword
<1>2. LaunchTypes'
  BY <1>1 DEF LaunchesIInv, LaunchTypes, AtTheFile
<1>3. ASSUME ~unkept PROVE OneAtTheFile'
  BY <1>1, <1>3 DEF LaunchesIInv, OneAtTheFile, AtTheFile
<1>4. ASSUME ~unkept PROVE MadeWhenGone'
  <2>1. ASSUME NEW t \in LaunchThreads, LaunchAt(t, "make") \/ LaunchAt(t, "keep")
        PROVE  launch[t].name \in Names
    BY <2>1 DEF LaunchesIInv, LaunchTypes, AtTheFile, LaunchAt
  <2> QED
    BY <1>1, <1>4, <2>1 DEF LaunchesIInv, MadeWhenGone, LaunchAt
<1>5. KeptPasswordLogsIn'
  BY <1>1 DEF LaunchesIInv, KeptPasswordLogsIn, LaunchAt
<1> QED
  BY <1>1, <1>2, <1>3, <1>4, <1>5 DEF LaunchesIInv

LEMMA LaunchesInductive == LaunchesIInv /\ [LaunchesNext]_launchVars => LaunchesIInv'
<1> SUFFICES ASSUME LaunchesIInv, [LaunchesNext]_launchVars PROVE LaunchesIInv'
  OBVIOUS
<1>1. ASSUME UNCHANGED <<users, kept, launch, made, unkept>> PROVE LaunchesIInv'
  BY <1>1 DEF LaunchesIInv, LaunchTypes, OneAtTheFile, MadeWhenGone, KeptPasswordLogsIn, AtTheFile, LaunchAt
<1>2. CASE Set \/ StatusChanges \/ UNCHANGED launchVars
  BY <1>1, <1>2 DEF Set, StatusChanges, launchVars
<1>3. made \in Nat
  BY DEF LaunchesIInv, LaunchTypes
<1>4. ASSUME NEW t \in LaunchThreads, NotServed(t) PROVE LaunchesIInv'
  <2>1. Finish(t, "screen") /\ UNCHANGED <<users, kept, made, unkept>> /\ ~LaunchAt(t, "keep")
    BY <1>4 DEF NotServed, LaunchAt
  <2> QED
    BY <1>3, <2>1, FinishLeaves
<1>5. ASSUME NEW t \in LaunchThreads, Runs(t) PROVE LaunchesIInv'
  <2>1. UNCHANGED <<users, kept, made, unkept>> /\ ~LaunchAt(t, "keep")
    BY <1>5 DEF Runs, LaunchAt
  <2>2. CASE Finish(t, "refused") \/ Finish(t, "password_needed")
    BY <1>3, <2>1, <2>2, FinishLeaves
  <2>3. CASE launch' = [launch EXCEPT ![t] = [NoAppLaunch EXCEPT !.phase = "login", !.typed = TRUE]]
    <3> DEFINE l == [NoAppLaunch EXCEPT !.phase = "login", !.typed = TRUE]
    <3>1. l \in AppLaunches /\ l.phase = "login"
      BY DEF NoAppLaunch, AppLaunches, NoPassword
    <3> HIDE DEF l
    <3>2. launch' = [launch EXCEPT ![t] = l]
      BY <2>3 DEF l
    <3> QED
      BY <1>3, <2>1, <3>1, <3>2, LeavesTheFile
  <2> QED
    BY <1>5, <2>2, <2>3 DEF Runs
<1>6. ASSUME NEW t \in LaunchThreads, LogsIn(t) PROVE LaunchesIInv'
  <2>1. UNCHANGED <<users, kept, made, unkept>> /\ ~LaunchAt(t, "keep")
    BY <1>6 DEF LogsIn, LaunchAt
  <2>2. Finish(t, "running") \/ Finish(t, "password_needed") \/ Finish(t, "refused")
    BY <1>6 DEF LogsIn
  <2> QED
    BY <1>3, <2>1, <2>2, FinishLeaves
<1>7. ASSUME NEW t \in LaunchThreads, ReadsKept(t) \/ LooksUp(t) \/ MakesUser(t) \/ Keeps(t)
      PROVE  LaunchesIInv'
  BY <1>7, ReadsKeptKeeps, LooksUpKeeps, MakesUserKeeps, KeepsKeeps
<1>8. CASE HostKilled
  BY <1>8, HostKilledKeeps
<1>9. ASSUME NEW n \in Names, UserRemoved(n) PROVE LaunchesIInv'
  BY <1>9, UserRemovedKeeps
<1> QED
  BY <1>2, <1>4, <1>5, <1>6, <1>7, <1>8, <1>9 DEF LaunchesNext

\* The password kept for a host-made account is the one Windows has, for all
\* principals, threads and bounds, while launches come one at a time and none
\* leaves a password it set unkept: users may be removed and the host die at
\* any step (remoteapp_host.rs, host_account).
THEOREM KeptPasswordsLogIn == LaunchesSpec => []KeptPasswordLogsIn
<1>1. LaunchesIInv => KeptPasswordLogsIn
  BY DEF LaunchesIInv
<1> QED
  BY <1>1, LaunchesInitial, LaunchesInductive, PTL DEF LaunchesSpec

-----------------------------------------------------------------------------
(* The list of windows.  Of every window the last order about it that is     *)
(* not read yet tells whether it is there and shown; where there is none the *)
(* table has what Windows has.  The listing is that of the table, and the    *)
(* watch has it once it has seen its number.                                 *)

\* What Only keeps of a sequence: the members that are in S, each as often as before.
LEMMA OnlyIs ==
    ASSUME NEW T, NEW s \in Seq(T), NEW S
    PROVE  /\ Only(s, S) \in Seq(T)
           /\ Range(Only(s, S)) = Range(s) \cap S
           /\ IsInjective(s) => IsInjective(Only(s, S))
<1> DEFINE members == {i \in DOMAIN s : s[i] \in S}
           upTo(i) == {j \in members : j <= i}
           C == Cardinality(members)
           at(n) == CHOOSE i \in members : Cardinality(upTo(i)) = n
<1>1. members \subseteq 1 .. Len(s) /\ DOMAIN s = 1 .. Len(s) /\ Len(s) \in Nat
  OBVIOUS
<1>2. IsFiniteSet(members) /\ C \in Nat
  <2>1. IsFiniteSet(1 .. Len(s))
    BY <1>1, FS_Interval
  <2>2. IsFiniteSet(members)
    BY <1>1, <2>1, FS_Subset
  <2> QED
    BY <2>2, FS_CardinalityType
<1>3. Only(s, S) = [n \in 1 .. C |-> s[at(n)]]
  BY DEF Only
<1>4. \A i \in members : i \in Nat /\ i \in DOMAIN s /\ s[i] \in S /\ s[i] \in T
  BY <1>1
<1>5. \A x \in DOMAIN s : s[x] \in S => x \in members
  OBVIOUS
<1> HIDE DEF members
<1>6. ASSUME NEW i \in members
      PROVE  /\ IsFiniteSet(upTo(i)) /\ Cardinality(upTo(i)) \in 1 .. C
             /\ Cardinality(upTo(i)) \in Nat
             /\ i \in upTo(i) /\ upTo(i) \subseteq members
  <2>1. IsFiniteSet(upTo(i)) /\ Cardinality(upTo(i)) <= C
    BY <1>2, FS_Subset
  <2>2. i \in upTo(i) /\ upTo(i) \subseteq members
    BY <1>4
  <2>3. Cardinality(upTo(i)) \in Nat /\ Cardinality(upTo(i)) # 0
    BY <2>1, <2>2, FS_CardinalityType, FS_EmptySet
  <2> QED
    BY <2>1, <2>2, <2>3, <1>2
<1>7. ASSUME NEW i \in members, NEW j \in members, i < j
      PROVE  Cardinality(upTo(i)) < Cardinality(upTo(j))
  <2>1. upTo(i) \subseteq upTo(j) /\ j \notin upTo(i) /\ j \in upTo(j)
    BY <1>4, <1>7
  <2>2. /\ Cardinality(upTo(i)) <= Cardinality(upTo(j))
        /\ Cardinality(upTo(i)) # Cardinality(upTo(j))
    <3>1. ASSUME NEW A, NEW B, IsFiniteSet(B), A \subseteq B, A # B
          PROVE  Cardinality(A) <= Cardinality(B) /\ Cardinality(A) # Cardinality(B)
      BY <3>1, FS_Subset
    <3>2. IsFiniteSet(upTo(j)) /\ upTo(i) \subseteq upTo(j) /\ upTo(i) # upTo(j)
      BY <2>1, <1>6
    <3> HIDE DEF upTo
    <3> QED
      BY <3>1, <3>2
  <2> HIDE DEF upTo, C
  <2>3. Cardinality(upTo(i)) \in Nat /\ Cardinality(upTo(j)) \in Nat
    BY <1>6
  <2> QED
    BY <2>2, <2>3
<1> DEFINE rank == [i \in members |-> Cardinality(upTo(i))]
<1>8. \A i \in members : rank[i] = Cardinality(upTo(i)) /\ rank[i] \in 1 .. C
  BY <1>6
<1>9. ASSUME NEW i \in members, NEW j \in members, rank[i] = rank[j]
      PROVE  i = j
  <2>1. Cardinality(upTo(i)) = Cardinality(upTo(j)) /\ Cardinality(upTo(i)) \in Nat
    BY <1>8, <1>9
  <2>2. i < j => Cardinality(upTo(i)) < Cardinality(upTo(j))
    BY <1>7
  <2>3. j < i => Cardinality(upTo(j)) < Cardinality(upTo(i))
    BY <1>7
  <2>4. PICK a, b : a = Cardinality(upTo(i)) /\ b = Cardinality(upTo(j))
    OBVIOUS
  <2>5. a = b /\ a \in Nat /\ (i < j => a < b) /\ (j < i => b < a)
    BY <2>1, <2>2, <2>3, <2>4
  <2> QED
    BY <2>5, <1>4
<1>10. \A n \in 1 .. C : \E i \in members : rank[i] = n
  <2>1. rank \in [members -> 1 .. C]
    BY <1>8
  <2>2. rank \in Injection(members, 1 .. C)
    <3>1. \A i, j \in members : rank[i] = rank[j] => i = j
      BY <1>9
    <3> HIDE DEF rank, C, upTo
    <3> QED
      BY <2>1, <3>1 DEF Injection, IsInjective
  <2>3. IsFiniteSet(1 .. C) /\ Cardinality(1 .. C) = C
    BY <1>2, FS_Interval
  <2>4. rank \in Surjection(members, 1 .. C)
    BY <2>2, <2>3, FS_Injection
  <2> HIDE DEF rank
  <2> QED
    BY <2>4 DEF Surjection
<1>11. \A n \in 1 .. C : at(n) \in members /\ rank[at(n)] = n
  <2> SUFFICES ASSUME NEW n \in 1 .. C PROVE at(n) \in members /\ rank[at(n)] = n
    OBVIOUS
  <2>1. \E i \in members : Cardinality(upTo(i)) = n
    BY <1>8, <1>10
  <2>2. at(n) \in members /\ Cardinality(upTo(at(n))) = n
    BY <2>1
  <2> QED
    BY <2>2, <1>8
<1> HIDE DEF upTo, C, at, rank
<1>12. Only(s, S) \in Seq(T)
  BY <1>2, <1>3, <1>4, <1>11
<1>13. DOMAIN Only(s, S) = 1 .. C /\ \A n \in 1 .. C : Only(s, S)[n] = s[at(n)]
  BY <1>3
<1>14. Range(Only(s, S)) = Range(s) \cap S
  <2>1. ASSUME NEW n \in 1 .. C PROVE s[at(n)] \in Range(s) \cap S
    BY <1>4, <1>11 DEF Range
  <2>2. ASSUME NEW i \in DOMAIN s, s[i] \in S PROVE \E n \in 1 .. C : s[at(n)] = s[i]
    <3>1. i \in members /\ rank[i] \in 1 .. C
      BY <2>2, <1>5, <1>8
    <3>2. at(rank[i]) = i
      BY <3>1, <1>9, <1>11
    <3> QED
      BY <3>1, <3>2
  <2> QED
    BY <1>13, <2>1, <2>2 DEF Range
<1>15. ASSUME IsInjective(s) PROVE IsInjective(Only(s, S))
  <2> SUFFICES ASSUME NEW m \in 1 .. C, NEW n \in 1 .. C, Only(s, S)[m] = Only(s, S)[n]
               PROVE  m = n
    BY <1>13 DEF IsInjective
  <2>1. at(m) = at(n)
    BY <1>4, <1>11, <1>13, <1>15 DEF IsInjective
  <2> QED
    BY <2>1, <1>11
<1> QED
  BY <1>12, <1>14, <1>15

WindowFields == {"owner", "style", "show"}

About(o, id) == o.t \in {"window", "deleted"} /\ o.id = id

WindowPdu(o) ==
    /\ o.t \in {"window", "deleted"} => o.id \in RemoteIds
    /\ o.t = "window" => "show" \in o.fields

\* The windows w of the one and d of the other agree on id.
SameWindow(w, d, id) ==
    /\ id \in DOMAIN w <=> id \in DOMAIN d
    /\ id \in DOMAIN d => w[id].show = d[id].show

\* The order o says of its window what d has of it.
Tells(o, d) ==
    /\ o.t = "window" <=> o.id \in DOMAIN d
    /\ o.t = "window" => o.window.show = d[o.id].show

\* The orders q, read into the windows w, lead to d.
Told(q, w, d) ==
    \A id \in RemoteIds :
        /\ (\A i \in 1 .. Len(q) : ~About(q[i], id)) => SameWindow(w, d, id)
        /\ \A i \in 1 .. Len(q) :
             About(q[i], id) /\ (\A j \in i + 1 .. Len(q) : ~About(q[j], id)) => Tells(q[i], d)

WindowTable(k) ==
    /\ k \in [windows : {k.windows}, order : Seq(RemoteIds), active : {k.active}]
    /\ DOMAIN k.windows \subseteq RemoteIds
    /\ \A id \in DOMAIN k.windows : DOMAIN k.windows[id] = WindowFields
    /\ Range(k.order) = DOMAIN k.windows
    /\ IsInjective(k.order)

WireIs(q) == (\E P : q \in Seq(P)) /\ \A i \in 1 .. Len(q) : WindowPdu(q[i])

\* A listing is in the host's list once the watch has its number.
ListingTaken ==
    /\ shared \in [number : Nat, listed : {shared.listed}]
    /\ watcher \in [phase : {"off", "on", "done"}, number : Nat, had : BOOLEAN,
                   empty : {"no", "since", "over"}]
    /\ watcher.number <= shared.number
    /\ shared.listed = Listed(table)
    /\ shared.number = 0 => shared.listed = <<>>
    /\ conn \in [on : BOOLEAN, listed : {conn.listed}]
    /\ conn.on /\ watcher.number = shared.number => conn.listed = shared.listed

RdpTyped ==
    rdp \in [phase : {"off", "connecting", "waiting", "held", "refused"}, stop : BOOLEAN,
             ended : BOOLEAN, tapped : {rdp.tapped}, started : BOOLEAN,
             exec : {rdp.exec}, orders : Nat, events : Nat]

\* The launch: nothing comes before the connection, nothing is watched before
\* the program runs.
LaunchOrder ==
    /\ rdp.phase \in {"off", "connecting", "waiting"} => watcher.number = 0 /\ watcher.phase = "off"
    /\ rdp.phase \in {"off", "connecting"} => wire = <<>>

ListIInv ==
    /\ RdpTyped
    /\ DOMAIN desk \subseteq RemoteIds
    /\ WireIs(wire)
    /\ WindowTable(table)
    /\ Told(wire, table.windows, desk)
    /\ ListingTaken
    /\ LaunchOrder

\* An order is read.
LEMMA ReadingKeepsTold ==
    ASSUME NEW q, WireIs(q), q # <<>>, NEW w, NEW d, Told(q, w, d), NEW v,
           \A id \in RemoteIds : About(Head(q), id) =>
               /\ Head(q).t = "window" <=> id \in DOMAIN v
               /\ Head(q).t = "window" => v[id].show = Head(q).window.show,
           \A id \in RemoteIds : ~About(Head(q), id) => SameWindow(v, w, id)
    PROVE  WireIs(Tail(q)) /\ Told(Tail(q), v, d)
<1>1. PICK P : q \in Seq(P)
  BY DEF WireIs
<1>2. /\ Len(q) \in Nat /\ Len(q) >= 1 /\ Tail(q) \in Seq(P) /\ Len(Tail(q)) = Len(q) - 1
      /\ Head(q) = q[1]
  BY <1>1
<1>3. \A i \in 1 .. Len(Tail(q)) : Tail(q)[i] = q[i + 1] /\ i + 1 \in 1 .. Len(q)
  BY <1>1, <1>2
<1>4. \A i \in 2 .. Len(q) : q[i] = Tail(q)[i - 1] /\ i - 1 \in 1 .. Len(Tail(q))
  BY <1>1, <1>2
<1>5. WireIs(Tail(q))
  BY <1>2, <1>3 DEF WireIs
<1>6. ASSUME NEW id \in RemoteIds, \A i \in 1 .. Len(Tail(q)) : ~About(Tail(q)[i], id)
      PROVE  SameWindow(v, d, id)
  <2>1. \A i \in 2 .. Len(q) : ~About(q[i], id)
    BY <1>4, <1>6
  <2>2. CASE About(Head(q), id)
    <3>1. 1 \in 1 .. Len(q) /\ \A j \in 1 + 1 .. Len(q) : ~About(q[j], id)
      BY <2>1, <1>2
    <3>2. Tells(q[1], d)
      BY <3>1, <2>2, <1>2 DEF Told
    <3>3. Head(q).id = id
      BY <2>2 DEF About
    <3> QED
      BY <3>2, <3>3, <2>2, <1>2 DEF Tells, SameWindow
  <2>3. CASE ~About(Head(q), id)
    <3>1. \A i \in 1 .. Len(q) : ~About(q[i], id)
      BY <2>1, <2>3, <1>2
    <3>2. SameWindow(w, d, id)
      BY <3>1 DEF Told
    <3> QED
      BY <3>2, <2>3 DEF SameWindow
  <2> QED
    BY <2>2, <2>3
<1>7. ASSUME NEW id \in RemoteIds, NEW i \in 1 .. Len(Tail(q)), About(Tail(q)[i], id),
             \A j \in i + 1 .. Len(Tail(q)) : ~About(Tail(q)[j], id)
      PROVE  Tells(Tail(q)[i], d)
  <2>1. Tail(q)[i] = q[i + 1] /\ i + 1 \in 1 .. Len(q)
    BY <1>3
  <2>2. ASSUME NEW j \in (i + 1) + 1 .. Len(q) PROVE ~About(q[j], id)
    <3>1. j \in 2 .. Len(q) /\ j - 1 \in i + 1 .. Len(Tail(q))
      BY <1>2
    <3> QED
      BY <3>1, <1>4, <1>7
  <2> QED
    BY <2>1, <2>2, <1>7 DEF Told
<1> QED
  BY <1>5, <1>6, <1>7 DEF Told

\* An order is sent.
LEMMA SendingKeepsTold ==
    ASSUME NEW q, WireIs(q), NEW w, NEW d, Told(q, w, d), NEW o, WindowPdu(o), NEW e,
           \A id \in RemoteIds : About(o, id) => Tells(o, e),
           \A id \in RemoteIds : ~About(o, id) => SameWindow(d, e, id)
    PROVE  WireIs(Append(q, o)) /\ Told(Append(q, o), w, e)
<1>1. PICK P : q \in Seq(P)
  BY DEF WireIs
<1> DEFINE r == Append(q, o)
<1>2. Len(q) \in Nat /\ r \in Seq(P \cup {o}) /\ Len(r) = Len(q) + 1
  <2>1. q \in Seq(P \cup {o})
    BY <1>1
  <2> QED
    BY <2>1
<1>3. r[Len(q) + 1] = o /\ \A i \in 1 .. Len(q) : r[i] = q[i]
  BY <1>1
<1> HIDE DEF r
<1>4. WireIs(r)
  <2>1. ASSUME NEW i \in 1 .. Len(r) PROVE WindowPdu(r[i])
    <3>1. i \in 1 .. Len(q) \/ i = Len(q) + 1
      BY <1>2
    <3> QED
      BY <3>1, <1>3 DEF WireIs
  <2> QED
    BY <2>1, <1>2 DEF WireIs
<1>5. ASSUME NEW id \in RemoteIds, \A i \in 1 .. Len(r) : ~About(r[i], id)
      PROVE  SameWindow(w, e, id)
  <2>1. Len(q) + 1 \in 1 .. Len(r) /\ \A i \in 1 .. Len(q) : i \in 1 .. Len(r)
    BY <1>2
  <2>2. ~About(o, id) /\ \A i \in 1 .. Len(q) : ~About(q[i], id)
    BY <2>1, <1>3, <1>5
  <2>3. SameWindow(w, d, id) /\ SameWindow(d, e, id)
    BY <2>2 DEF Told
  <2> QED
    BY <2>3 DEF SameWindow
<1>6. ASSUME NEW id \in RemoteIds, NEW i \in 1 .. Len(r), About(r[i], id),
             \A j \in i + 1 .. Len(r) : ~About(r[j], id)
      PROVE  Tells(r[i], e)
  <2>1. CASE i = Len(q) + 1
    BY <2>1, <1>3, <1>6
  <2>2. CASE i \in 1 .. Len(q)
    <3>1. Len(q) + 1 \in i + 1 .. Len(r) /\ \A j \in i + 1 .. Len(q) : j \in i + 1 .. Len(r) /\ j \in 1 .. Len(q)
      BY <2>2, <1>2
    <3>2. ~About(o, id) /\ \A j \in i + 1 .. Len(q) : ~About(q[j], id)
      BY <3>1, <1>3, <1>6
    <3>3. r[i] = q[i] /\ q[i].id = id
      BY <2>2, <1>3, <1>6 DEF About
    <3>4. Tells(q[i], d) /\ SameWindow(d, e, id)
      BY <2>2, <3>2, <3>3, <1>6 DEF Told
    <3> QED
      BY <3>3, <3>4 DEF Tells, SameWindow
  <2> QED
    BY <2>1, <2>2, <1>2
<1> QED
  BY <1>4, <1>5, <1>6 DEF Told, r

\* A listing names each shown window once, and as an owner a window that is there.
LEMMA ListedIs ==
    ASSUME NEW k, WindowTable(k)
    PROVE  /\ DOMAIN Listed(k) = 1 .. Len(Listed(k)) /\ Len(Listed(k)) \in Nat
           /\ IsInjective([i \in DOMAIN Listed(k) |-> Listed(k)[i].id])
           /\ {Listed(k)[i].id : i \in DOMAIN Listed(k)}
                = {id \in DOMAIN k.windows : k.windows[id].show}
           /\ \A i \in DOMAIN Listed(k) :
                Listed(k)[i].owner \in DOMAIN k.windows \union {Nobody}
<1>1. PICK S : S = {id \in DOMAIN k.windows : k.windows[id].show}
  OBVIOUS
<1>2. PICK shown : shown = Only(k.order, S)
  OBVIOUS
<1>3. /\ shown \in Seq(RemoteIds) /\ Range(shown) = S /\ IsInjective(shown)
  <2>1. k.order \in Seq(RemoteIds) /\ Range(k.order) = DOMAIN k.windows /\ IsInjective(k.order)
    BY DEF WindowTable
  <2> QED
    BY <2>1, <1>1, <1>2, OnlyIs
<1>4. Listed(k) = [i \in DOMAIN shown |->
                     [id |-> shown[i], owner |-> OwnerOf(k, shown[i]), kind |-> KindOf(k, shown[i])]]
  BY <1>1, <1>2 DEF Listed
<1>5. DOMAIN shown = 1 .. Len(shown) /\ Len(shown) \in Nat
  BY <1>3
<1>6. DOMAIN Listed(k) = DOMAIN shown
      /\ \A i \in DOMAIN shown : Listed(k)[i].id = shown[i] /\ Listed(k)[i].owner = OwnerOf(k, shown[i])
  BY <1>4
<1>7. \A id : OwnerOf(k, id) \in DOMAIN k.windows \union {Nobody}
  BY DEF OwnerOf
<1>8. DOMAIN Listed(k) = 1 .. Len(Listed(k)) /\ Len(Listed(k)) \in Nat
  BY <1>4, <1>5
<1>9. IsInjective([i \in DOMAIN Listed(k) |-> Listed(k)[i].id])
  BY <1>3, <1>6 DEF IsInjective
<1>10. {Listed(k)[i].id : i \in DOMAIN Listed(k)} = S
  BY <1>3, <1>6 DEF Range
<1> QED
  BY <1>1, <1>6, <1>7, <1>8, <1>9, <1>10

LEMMA ListInitial == RemoteInit => ListIInv
<1> SUFFICES ASSUME RemoteInit PROVE ListIInv
  OBVIOUS
<1>0. DOMAIN <<>> = {} /\ <<>> \in Seq(RemoteIds) /\ <<>> \in Seq(STRING) /\ Len(<<>>) = 0
      /\ 1 .. 0 = {}
  OBVIOUS
<1>1. RdpTyped
  BY DEF RemoteInit, RdpTyped
<1>2. table.windows = <<>> /\ table.order = <<>> /\ desk = <<>> /\ wire = <<>>
  BY DEF RemoteInit
<1>3. WindowTable(table)
  <2>1. table \in [windows : {table.windows}, order : Seq(RemoteIds), active : {table.active}]
    BY <1>0 DEF RemoteInit
  <2> QED
    BY <2>1, <1>0, <1>2 DEF WindowTable, Range, IsInjective
<1>4. WireIs(wire) /\ Told(wire, table.windows, desk)
  BY <1>0, <1>2 DEF WireIs, Told, SameWindow
<1>5. Listed(table) = <<>>
  <2>1. Len(Listed(table)) \in Nat /\ DOMAIN Listed(table) = 1 .. Len(Listed(table))
        /\ {Listed(table)[i].id : i \in DOMAIN Listed(table)} = {}
    BY <1>3, <1>2, <1>0, ListedIs
  <2>2. DOMAIN Listed(table) = {}
    BY <2>1
  <2>3. \E S : Listed(table) = [i \in DOMAIN S |-> Listed(table)[i]]
    BY DEF Listed
  <2> QED
    BY <2>2, <2>3
<1>6. ListingTaken
  BY <1>5 DEF RemoteInit, ListingTaken, NoConn
<1>7. LaunchOrder
  BY DEF RemoteInit, LaunchOrder
<1> QED
  BY <1>0, <1>1, <1>2, <1>3, <1>4, <1>6, <1>7 DEF ListIInv

\* The launch, the input and the views leave the orders and the listing alone.
LEMMA AsideKeepsList ==
    ASSUME ListIInv, RdpTyped',
           UNCHANGED <<desk, wire, table, shared, conn>>,
           watcher' = watcher \/ watcher' = [watcher EXCEPT !.empty = "over"],
           \/ rdp'.phase = rdp.phase
           \/ rdp.phase = "off" /\ rdp'.phase = "connecting"
           \/ rdp'.phase \in {"held", "refused"}
    PROVE  ListIInv'
<1>1. watcher'.number = watcher.number /\ watcher'.phase = watcher.phase
      /\ watcher' \in [phase : {"off", "on", "done"}, number : Nat, had : BOOLEAN, empty : {"no", "since", "over"}]
  BY DEF ListIInv, ListingTaken
<1>2. ListingTaken'
  BY <1>1 DEF ListIInv, ListingTaken
<1>3. LaunchOrder'
  BY <1>1 DEF ListIInv, LaunchOrder, RdpTyped
<1> QED
  BY <1>2, <1>3 DEF ListIInv

LEMMA LaunchKeepsList ==
    ASSUME ListIInv, Rewrites \/ StartApp \/ ConnectFails \/ StartTimesOut \/ SessionEnds
                      \/ RunInput \/ RunStops \/ NextRemotePicture \/ GoneAfter
                      \/ \E id \in RemoteIds : OpenView(id) \/ \E b \in BOOLEAN : RemoteInput(id, b)
    PROVE  ListIInv'
<1>1. RdpTyped
  BY DEF ListIInv
<1>2. /\ UNCHANGED <<desk, wire, table, shared, conn>>
      /\ watcher' = watcher \/ watcher' = [watcher EXCEPT !.empty = "over"]
  BY DEF Rewrites, StartApp, ConnectFails, StartTimesOut, SessionEnds, RunInput, RunStops,
         NextRemotePicture, GoneAfter, OpenView, RemoteInput
<1>3. \/ \E t : rdp' = [rdp EXCEPT !.tapped = t]
      \/ rdp.phase = "off" /\ rdp' = [rdp EXCEPT !.phase = "connecting"]
      \/ rdp' = [rdp EXCEPT !.phase = "refused", !.ended = TRUE]
      \/ rdp' = [rdp EXCEPT !.phase = "refused", !.stop = TRUE]
      \/ rdp' = [rdp EXCEPT !.ended = TRUE]
      \/ rdp' = [rdp EXCEPT !.events = @ + 1]
      \/ rdp' = rdp
  BY DEF Rewrites, StartApp, ConnectFails, StartTimesOut, SessionEnds, RunInput, RunStops,
         NextRemotePicture, GoneAfter, OpenView, RemoteInput
<1>4. /\ RdpTyped'
      /\ \/ rdp'.phase = rdp.phase
         \/ rdp.phase = "off" /\ rdp'.phase = "connecting"
         \/ rdp'.phase \in {"held", "refused"}
  <2>1. CASE \E t : rdp' = [rdp EXCEPT !.tapped = t]
    BY <1>1, <2>1 DEF RdpTyped
  <2>2. CASE rdp.phase = "off" /\ rdp' = [rdp EXCEPT !.phase = "connecting"]
    BY <1>1, <2>2 DEF RdpTyped
  <2>3. CASE \/ rdp' = [rdp EXCEPT !.phase = "refused", !.ended = TRUE]
             \/ rdp' = [rdp EXCEPT !.phase = "refused", !.stop = TRUE]
    BY <1>1, <2>3 DEF RdpTyped
  <2>4. CASE rdp' = [rdp EXCEPT !.ended = TRUE] \/ rdp' = rdp
    BY <1>1, <2>4 DEF RdpTyped
  <2>5. CASE rdp' = [rdp EXCEPT !.events = @ + 1]
    BY <1>1, <2>5 DEF RdpTyped
  <2> QED
    BY <1>3, <2>1, <2>2, <2>3, <2>4, <2>5
<1> QED
  BY <1>2, <1>4, AsideKeepsList

\* The connection is there, and Windows greets.
LEMMA ConnectedKeepsList == ASSUME ListIInv, Connected PROVE ListIInv'
<1>1. PICK n \in 1 .. 2 : wire' = [i \in 1 .. n |-> [t |-> "handshake"]]
  BY DEF Connected
<1>2. /\ rdp' = [rdp EXCEPT !.phase = "waiting"] /\ rdp.phase = "connecting" /\ wire = <<>>
      /\ UNCHANGED <<desk, table, shared, conn, watcher>>
  BY DEF Connected, ListIInv, LaunchOrder
<1>3. wire' \in Seq({[t |-> "handshake"]}) /\ Len(wire') = n
      /\ \A i \in 1 .. n : wire'[i].t = "handshake"
  BY <1>1
<1>4. WireIs(wire)'
  BY <1>3 DEF WireIs, WindowPdu
<1>5. \A id \in RemoteIds : SameWindow(table.windows, desk, id)
  BY <1>2 DEF ListIInv, Told
<1>6. Told(wire, table.windows, desk)'
  BY <1>2, <1>3, <1>5 DEF Told, About, SameWindow
<1>7. RdpTyped' /\ rdp'.phase = "waiting" /\ watcher.number = 0
  BY <1>2 DEF ListIInv, RdpTyped, LaunchOrder
<1> QED
  BY <1>2, <1>4, <1>6, <1>7 DEF ListIInv, ListingTaken, LaunchOrder

\* The program runs and is watched, or does not.
LEMMA ExecKeepsList == ASSUME ListIInv, ExecSeen PROVE ListIInv'
<1>1. /\ RdpTyped /\ rdp.phase = "waiting" /\ watcher.number = 0
      /\ UNCHANGED <<desk, wire, table, shared>>
  BY DEF ExecSeen, ListIInv, LaunchOrder
<1>2. CASE UNCHANGED <<conn, watcher>>
  <2>1. rdp' = [rdp EXCEPT !.phase = "refused", !.stop = TRUE]
        \/ rdp' = [rdp EXCEPT !.phase = "refused"]
        \/ rdp' = [rdp EXCEPT !.phase = "held"]
    BY DEF ExecSeen
  <2>2. RdpTyped' /\ rdp'.phase \in {"held", "refused"}
    BY <1>1, <2>1 DEF RdpTyped
  <2> QED
    BY <1>1, <1>2, <2>2, AsideKeepsList
<1>3. CASE ~UNCHANGED <<conn, watcher>>
  <2>1. /\ rdp' = [rdp EXCEPT !.phase = "held"] /\ conn' = [on |-> TRUE, listed |-> <<>>]
        /\ watcher' = [watcher EXCEPT !.phase = "on"]
    BY <1>3 DEF ExecSeen
  <2>2. RdpTyped' /\ rdp'.phase = "held"
    BY <1>1, <2>1 DEF RdpTyped
  <2>3. ListingTaken'
    BY <1>1, <2>1 DEF ListIInv, ListingTaken
  <2> QED
    BY <1>1, <2>2, <2>3 DEF ListIInv, LaunchOrder
<1> QED
  BY <1>2, <1>3

\* One turn of the watch: it takes the listing with its number, or ends.
LEMMA WatchKeepsList == ASSUME ListIInv, WatchTurn PROVE ListIInv'
<1>1. PICK over \in BOOLEAN, had \in BOOLEAN, empty \in {"no", "since", "over"} :
        /\ watcher' = [phase |-> IF over THEN "done" ELSE "on", number |-> shared.number,
                       had |-> had, empty |-> empty]
        /\ conn' = IF over THEN NoConn
                   ELSE IF shared.number # watcher.number THEN [conn EXCEPT !.listed = shared.listed]
                   ELSE conn
        /\ rdp' = [rdp EXCEPT !.stop = @ \/ over]
  <2>1. watcher.had \in BOOLEAN /\ watcher.empty \in {"no", "since", "over"} /\ rdp.ended \in BOOLEAN
    BY DEF ListIInv, ListingTaken, RdpTyped
  <2> DEFINE had == watcher.had \/ (shared.number # watcher.number /\ shared.listed # <<>>)
             empty == IF shared.number # watcher.number THEN Emptied(had, shared.listed)
                                                        ELSE watcher.empty
             over == rdp.ended \/ empty = "over"
  <2>2. had \in BOOLEAN /\ empty \in {"no", "since", "over"} /\ over \in BOOLEAN
    BY <2>1 DEF Emptied
  <2>3. /\ watcher' = [phase |-> IF over THEN "done" ELSE "on", number |-> shared.number,
                       had |-> had, empty |-> empty]
        /\ conn' = IF over THEN NoConn
                   ELSE IF shared.number # watcher.number THEN [conn EXCEPT !.listed = shared.listed]
                   ELSE conn
        /\ rdp' = [rdp EXCEPT !.stop = @ \/ over]
    BY DEF WatchTurn
  <2> HIDE DEF had, empty, over
  <2> QED
    BY <2>2, <2>3
<1>2. UNCHANGED <<desk, wire, table, shared>>
  BY DEF WatchTurn
<1>3. RdpTyped' /\ rdp'.phase = rdp.phase
  BY <1>1 DEF ListIInv, RdpTyped
<1>4. shared.number \in Nat /\ watcher' \in [phase : {"off", "on", "done"}, number : Nat, had : BOOLEAN,
                                              empty : {"no", "since", "over"}]
      /\ watcher'.number = shared.number
  BY <1>1 DEF ListIInv, ListingTaken
<1>5. conn' \in [on : BOOLEAN, listed : {conn'.listed}] /\ (conn'.on => conn'.listed = shared.listed)
  BY <1>1 DEF ListIInv, ListingTaken, NoConn
<1>6. ListingTaken'
  BY <1>2, <1>4, <1>5 DEF ListIInv, ListingTaken
<1>7. LaunchOrder'
  BY <1>2, <1>3, <1>4 DEF ListIInv, ListingTaken, LaunchOrder, WatchTurn
<1> QED
  BY <1>2, <1>3, <1>6, <1>7 DEF ListIInv

\* Windows opens, shows or hides, closes or activates a window and says so.
LEMMA DeskKeepsList == ASSUME ListIInv, NEW id \in RemoteIds, DeskSteps(id) PROVE ListIInv'
<1>1. /\ rdp' = [rdp EXCEPT !.orders = @ + 1] /\ rdp.phase \in {"waiting", "held"}
      /\ DeskChanges(id) /\ UNCHANGED <<table, shared, conn, watcher>>
  BY DEF DeskSteps, RdpLive
<1>2. RdpTyped' /\ rdp'.phase = rdp.phase
  BY <1>1 DEF ListIInv, RdpTyped
<1>3. ASSUME NEW o, wire' = Append(wire, o), WindowPdu(o), DOMAIN desk' \subseteq RemoteIds,
             \A x \in RemoteIds : About(o, x) => Tells(o, desk'),
             \A x \in RemoteIds : ~About(o, x) => SameWindow(desk, desk', x)
      PROVE  ListIInv'
  <2>1. WireIs(wire) /\ Told(wire, table.windows, desk)
    BY DEF ListIInv
  <2>2. WireIs(Append(wire, o)) /\ Told(Append(wire, o), table.windows, desk')
    BY <2>1, <1>3, SendingKeepsTold
  <2>3. WireIs(wire') /\ Told(wire', table.windows, desk')
    BY <2>2, <1>3
  <2> QED
    BY <1>1, <1>2, <1>3, <2>3 DEF ListIInv, ListingTaken, LaunchOrder
<1>4. ASSUME NEW fields, "show" \in fields, id \in DOMAIN desk', DOMAIN desk' \subseteq RemoteIds,
             wire' = Append(wire, Describes(id, fields)),
             \A x \in RemoteIds : x # id => SameWindow(desk, desk', x)
      PROVE  ListIInv'
  <2>1. PICK o : o = Describes(id, fields)
    OBVIOUS
  <2>2. o.t = "window" /\ o.id = id /\ o.fields = fields /\ o.window.show = desk'[id].show
    BY <2>1, <1>4 DEF Describes
  <2>3. \A x \in RemoteIds : About(o, x) <=> x = id
    BY <2>2 DEF About
  <2>4. WindowPdu(o) /\ Tells(o, desk')
    BY <2>2, <1>4 DEF WindowPdu, Tells
  <2> QED
    BY <2>1, <2>3, <2>4, <1>3, <1>4
<1>5. CASE /\ id \notin DOMAIN desk
           /\ \E w \in RemoteWindow :
                desk' = [j \in DOMAIN desk \union {id} |-> IF j = id THEN w ELSE desk[j]]
           /\ wire' = Append(wire, Describes(id, {"owner", "style", "show"}))
  <2>1. PICK w : desk' = [j \in DOMAIN desk \union {id} |-> IF j = id THEN w ELSE desk[j]]
    BY <1>5
  <2>2. id \in DOMAIN desk' /\ DOMAIN desk' \subseteq RemoteIds
        /\ \A x \in RemoteIds : x # id => SameWindow(desk, desk', x)
    BY <2>1 DEF ListIInv, SameWindow
  <2> QED
    BY <2>2, <1>4, <1>5
<1>6. CASE /\ id \in DOMAIN desk /\ desk' = [desk EXCEPT ![id].show = ~@]
           /\ wire' = Append(wire, Describes(id, {"show"}))
  <2>1. id \in DOMAIN desk' /\ DOMAIN desk' \subseteq RemoteIds
        /\ \A x \in RemoteIds : x # id => SameWindow(desk, desk', x)
    BY <1>6 DEF ListIInv, SameWindow
  <2> QED
    BY <2>1, <1>4, <1>6
<1>7. CASE /\ id \in DOMAIN desk /\ desk' = [j \in DOMAIN desk \ {id} |-> desk[j]]
           /\ wire' = Append(wire, [t |-> "deleted", id |-> id])
  <2>1. PICK o : o = [t |-> "deleted", id |-> id]
    OBVIOUS
  <2>2. o.t = "deleted" /\ o.id = id /\ \A x \in RemoteIds : About(o, x) <=> x = id
    BY <2>1 DEF About
  <2>3. WindowPdu(o) /\ Tells(o, desk') /\ DOMAIN desk' \subseteq RemoteIds
    BY <2>2, <1>7 DEF WindowPdu, Tells, ListIInv
  <2>4. \A x \in RemoteIds : x # id => SameWindow(desk, desk', x)
    BY <1>7 DEF SameWindow
  <2> QED
    BY <2>1, <2>2, <2>3, <2>4, <1>3, <1>7
<1>8. CASE wire' = Append(wire, [t |-> "desktop", active |-> id]) /\ UNCHANGED desk
  <2>1. PICK o : o = [t |-> "desktop", active |-> id]
    OBVIOUS
  <2>2. o.t = "desktop" /\ \A x \in RemoteIds : ~About(o, x) /\ SameWindow(desk, desk', x)
    BY <2>1, <1>8 DEF About, SameWindow
  <2>3. WindowPdu(o) /\ DOMAIN desk' \subseteq RemoteIds
    BY <2>2, <1>8 DEF WindowPdu, ListIInv
  <2> QED
    BY <2>1, <2>2, <2>3, <1>3, <1>8
<1> QED
  BY <1>1, <1>5, <1>6, <1>7, <1>8 DEF DeskChanges, SendsOrder

\* Windows::apply: the table has the windows the order leaves, and says of them what
\* the order says.
LEMMA ApplyIs ==
    ASSUME NEW k, WindowTable(k), NEW o, WindowPdu(o), o.t \in {"window", "deleted", "desktop"}
    PROVE  /\ WindowTable(Apply(k, o))
           /\ \A id \in RemoteIds : About(o, id) =>
               /\ o.t = "window" <=> id \in DOMAIN Apply(k, o).windows
               /\ o.t = "window" => Apply(k, o).windows[id].show = o.window.show
           /\ \A id \in RemoteIds : ~About(o, id) => SameWindow(Apply(k, o).windows, k.windows, id)
<1>0. /\ k \in [windows : {k.windows}, order : Seq(RemoteIds), active : {k.active}]
      /\ DOMAIN k.windows \subseteq RemoteIds
      /\ \A id \in DOMAIN k.windows : DOMAIN k.windows[id] = WindowFields
      /\ Range(k.order) = DOMAIN k.windows /\ IsInjective(k.order)
  BY DEF WindowTable
<1>1. CASE o.t = "desktop"
  <2>1. PICK r : r = Apply(k, o)
    OBVIOUS
  <2>2. r = [k EXCEPT !.active = o.active]
    BY <2>1, <1>1 DEF Apply
  <2>3. r.windows = k.windows /\ r.order = k.order
        /\ r \in [windows : {r.windows}, order : Seq(RemoteIds), active : {r.active}]
    BY <2>2, <1>0
  <2> QED
    BY <2>1, <2>3, <1>0, <1>1 DEF WindowTable, About, SameWindow
<1>2. CASE o.t = "deleted"
  <2>1. PICK r : r = Apply(k, o)
    OBVIOUS
  <2>2. PICK D, left, rest : /\ D = DOMAIN k.windows \ {o.id} /\ left = [j \in D |-> k.windows[j]]
                             /\ rest = Only(k.order, RemoteIds \ {o.id})
    OBVIOUS
  <2>3. r = [k EXCEPT !.windows = left, !.order = rest]
    BY <2>1, <2>2, <1>2 DEF Apply
  <2>4. rest \in Seq(RemoteIds) /\ Range(rest) = D /\ IsInjective(rest)
    <3>1. /\ rest \in Seq(RemoteIds) /\ IsInjective(rest)
          /\ Range(rest) = DOMAIN k.windows \cap (RemoteIds \ {o.id})
      BY <2>2, <1>0, OnlyIs
    <3> QED
      BY <3>1, <2>2, <1>0
  <2>5. r.windows = left /\ r.order = rest
        /\ r \in [windows : {r.windows}, order : Seq(RemoteIds), active : {r.active}]
    BY <2>3, <2>4, <1>0
  <2>6. WindowTable(r)
    <3>1. DOMAIN left = D /\ \A j \in D : left[j] = k.windows[j]
      BY <2>2
    <3>2. D \subseteq DOMAIN k.windows
      BY <2>2
    <3>3. /\ DOMAIN left \subseteq RemoteIds
          /\ \A j \in DOMAIN left : DOMAIN left[j] = WindowFields
          /\ Range(rest) = DOMAIN left /\ IsInjective(rest)
      BY <3>1, <3>2, <2>4, <1>0
    <3> QED
      BY <3>3, <2>4, <2>5 DEF WindowTable
  <2>7. o.id \notin DOMAIN r.windows
    BY <2>2, <2>5
  <2>8. \A id \in RemoteIds : id # o.id => SameWindow(r.windows, k.windows, id)
    BY <2>2, <2>5 DEF SameWindow
  <2> QED
    BY <2>1, <2>6, <2>7, <2>8, <1>2 DEF About
<1>3. CASE o.t = "window"
  <2>1. PICK r : r = Apply(k, o)
    OBVIOUS
  <2>2. PICK old, next, ids :
          /\ old = IF o.id \in DOMAIN k.windows THEN k.windows[o.id] ELSE DefaultWindow
          /\ next = [j \in DOMAIN k.windows \union {o.id} |->
                       IF j = o.id THEN Changed(old, o) ELSE k.windows[j]]
          /\ ids = IF o.id \in DOMAIN k.windows THEN k.order ELSE Append(k.order, o.id)
    OBVIOUS
  <2>3. r = [k EXCEPT !.windows = next, !.order = ids]
    BY <2>1, <2>2, <1>3 DEF Apply
  <2>4. o.id \in RemoteIds /\ "show" \in o.fields
    BY <1>3 DEF WindowPdu
  <2>5. DOMAIN old = WindowFields
    BY <2>2, <1>0 DEF DefaultWindow, WindowFields
  <2>6. DOMAIN Changed(old, o) = WindowFields /\ Changed(old, o).show = o.window.show
    BY <2>4, <2>5 DEF Changed, WindowFields
  <2>7. ids \in Seq(RemoteIds) /\ Range(ids) = DOMAIN k.windows \union {o.id} /\ IsInjective(ids)
    <3>1. CASE o.id \in DOMAIN k.windows
      BY <3>1, <2>2, <1>0
    <3>2. CASE o.id \notin DOMAIN k.windows
      <4>1. PICK n \in Nat : n = Len(k.order) /\ DOMAIN k.order = 1 .. n
        BY <1>0
      <4>2. ids \in Seq(RemoteIds) /\ DOMAIN ids = 1 .. n + 1 /\ ids[n + 1] = o.id
            /\ \A i \in 1 .. n : ids[i] = k.order[i]
        BY <4>1, <3>2, <2>2, <2>4, <1>0
      <4>3. 1 .. n + 1 = (1 .. n) \union {n + 1}
        BY <4>1
      <4>4. \A i \in 1 .. n : k.order[i] # o.id
        BY <4>1, <3>2, <1>0 DEF Range
      <4>5. Range(ids) = Range(k.order) \union {o.id}
        BY <4>1, <4>2, <4>3 DEF Range
      <4>6. IsInjective(ids)
        BY <4>1, <4>2, <4>3, <4>4, <1>0 DEF IsInjective
      <4> QED
        BY <4>2, <4>5, <4>6, <1>0
    <3> QED
      BY <3>1, <3>2
  <2>8. r.windows = next /\ r.order = ids
        /\ r \in [windows : {r.windows}, order : Seq(RemoteIds), active : {r.active}]
    BY <2>3, <2>7, <1>0
  <2>9. DOMAIN next = DOMAIN k.windows \union {o.id} /\ next[o.id] = Changed(old, o)
        /\ \A j \in DOMAIN k.windows : j # o.id => next[j] = k.windows[j]
    BY <2>2
  <2>10. WindowTable(r)
    BY <2>4, <2>6, <2>7, <2>8, <2>9, <1>0 DEF WindowTable
  <2>11. o.id \in DOMAIN r.windows /\ r.windows[o.id].show = o.window.show
    BY <2>6, <2>8, <2>9
  <2>12. \A id \in RemoteIds : id # o.id => SameWindow(r.windows, k.windows, id)
    BY <2>8, <2>9 DEF SameWindow
  <2> QED
    BY <2>1, <2>10, <2>11, <2>12, <1>3 DEF About
<1> QED
  BY <1>1, <1>2, <1>3

\* The RDP thread reads an order, or the rail channel.
LEMMA ReadingKeepsList == ASSUME ListIInv, RunReads PROVE ListIInv'
<1>1. /\ wire # <<>> /\ rdp.phase \in {"waiting", "held", "refused"}
      /\ UNCHANGED <<desk, conn, watcher>>
  BY DEF RunReads
<1>2. PICK P : wire \in Seq(P)
  BY DEF ListIInv, WireIs
<1>3. WireIs(wire) /\ Told(wire, table.windows, desk) /\ WindowTable(table)
  BY DEF ListIInv
<1>4. 1 \in 1 .. Len(wire) /\ Head(wire) = wire[1]
  BY <1>1, <1>2
<1>5. WindowPdu(Head(wire))
  BY <1>3, <1>4 DEF WireIs
<1>6. CASE ReadsOrder
  <2>1. PICK k : k = Apply(table, Head(wire))
    OBVIOUS
  <2>2. /\ Head(wire).t \in {"window", "deleted", "desktop"} /\ table' = k
        /\ shared' = IF shared.listed = Listed(k) THEN shared
                     ELSE [number |-> shared.number + 1, listed |-> Listed(k)]
        /\ wire' = Tail(wire) /\ UNCHANGED rdp
    BY <2>1, <1>6 DEF ReadsOrder
  <2>3. /\ WindowTable(k)
        /\ \A id \in RemoteIds : About(Head(wire), id) =>
             /\ Head(wire).t = "window" <=> id \in DOMAIN k.windows
             /\ Head(wire).t = "window" => k.windows[id].show = Head(wire).window.show
        /\ \A id \in RemoteIds : ~About(Head(wire), id) => SameWindow(k.windows, table.windows, id)
    BY <2>1, <2>2, <1>3, <1>5, ApplyIs
  <2>4. WireIs(Tail(wire)) /\ Told(Tail(wire), k.windows, desk)
    BY <2>3, <1>1, <1>3, ReadingKeepsTold
  <2>5. ListingTaken'
    BY <2>2, <1>1 DEF ListIInv, ListingTaken
  <2> QED
    BY <2>2, <2>3, <2>4, <2>5, <1>1 DEF ListIInv, LaunchOrder, RdpTyped
<1>7. CASE ReadsRail
  <2>1. /\ Head(wire).t \in {"handshake", "exec"} /\ UNCHANGED <<table, shared>>
        /\ wire' = Tail(wire) \/ \E r : wire' = Append(Tail(wire), [t |-> "exec", result |-> r])
        /\ rdp' = rdp \/ rdp' = [rdp EXCEPT !.started = TRUE]
             \/ \E r : rdp' = [rdp EXCEPT !.exec = r]
    BY <1>7 DEF ReadsRail
  <2>2. RdpTyped' /\ rdp'.phase = rdp.phase
    BY <2>1 DEF ListIInv, RdpTyped
  <2>3. \A id \in RemoteIds : ~About(Head(wire), id) /\ SameWindow(table.windows, table.windows, id)
    BY <2>1 DEF About, SameWindow
  <2>4. WireIs(Tail(wire)) /\ Told(Tail(wire), table.windows, desk)
    BY <2>3, <1>1, <1>3, ReadingKeepsTold
  <2>5. ASSUME NEW r PROVE /\ WireIs(Append(Tail(wire), [t |-> "exec", result |-> r]))
                           /\ Told(Append(Tail(wire), [t |-> "exec", result |-> r]), table.windows, desk)
    <3>1. PICK o : o = [t |-> "exec", result |-> r]
      OBVIOUS
    <3>2. WindowPdu(o) /\ \A id \in RemoteIds : ~About(o, id) /\ SameWindow(desk, desk, id)
      BY <3>1 DEF WindowPdu, About, SameWindow
    <3> QED
      BY <3>1, <3>2, <2>4, SendingKeepsTold
  <2>6. WireIs(wire') /\ Told(wire', table.windows, desk)
    BY <2>1, <2>4, <2>5
  <2> QED
    BY <2>1, <2>2, <2>6, <1>1 DEF ListIInv, ListingTaken, LaunchOrder
<1> QED
  BY <1>6, <1>7 DEF RunReads

LEMMA ListInductive == ListIInv /\ [RemoteNext]_remoteVars => ListIInv'
<1> SUFFICES ASSUME ListIInv, [RemoteNext]_remoteVars PROVE ListIInv'
  OBVIOUS
<1>1. CASE UNCHANGED remoteVars
  BY <1>1 DEF remoteVars, ListIInv, RdpTyped, ListingTaken, LaunchOrder
<1>2. CASE RemoteNext
  BY <1>2, LaunchKeepsList, ConnectedKeepsList, ExecKeepsList, DeskKeepsList, ReadingKeepsList,
     WatchKeepsList DEF RemoteNext
<1> QED
  BY <1>1, <1>2

\* The list of windows the host offers is what Windows shows, once all is read and
\* taken, for any windows and any number of orders, in whatever order the threads
\* run (remoteapp.rs, listed).
THEOREM WindowsAreListed == RemoteSpec => []ListIsWhatWindowsShows
<1>1. ListIInv => ListIsWhatWindowsShows
  <2> SUFFICES ASSUME ListIInv, conn.on, wire = <<>>, watcher.number = shared.number
               PROVE  /\ IsInjective([i \in DOMAIN conn.listed |-> conn.listed[i].id])
                      /\ {conn.listed[i].id : i \in DOMAIN conn.listed}
                           = {id \in DOMAIN desk : desk[id].show}
                      /\ \A i \in DOMAIN conn.listed :
                           conn.listed[i].owner \in DOMAIN desk \union {Nobody}
    BY DEF ListIsWhatWindowsShows
  <2>1. PICK w : w = table.windows
    OBVIOUS
  <2>2. \A id \in RemoteIds : SameWindow(w, desk, id)
    BY <2>1 DEF ListIInv, Told
  <2>3. DOMAIN w \subseteq RemoteIds /\ DOMAIN desk \subseteq RemoteIds
    BY <2>1 DEF ListIInv, WindowTable
  <2>4. DOMAIN w = DOMAIN desk
        /\ {id \in DOMAIN w : w[id].show} = {id \in DOMAIN desk : desk[id].show}
    BY <2>2, <2>3 DEF SameWindow
  <2>5. conn.listed = Listed(table) /\ WindowTable(table)
    BY DEF ListIInv, ListingTaken
  <2> QED
    BY <2>1, <2>4, <2>5, ListedIs
<1> QED
  BY <1>1, ListInitial, ListInductive, PTL DEF RemoteSpec

\* What the host keeps of Windows' state is sound in every run of a RemoteApp and of
\* the launches: the windows listed are those shown, the kept password logs in.
THEOREM WindowsStateKept == RemoteSpec /\ LaunchesSpec => []WindowsStateIsKept
<1>1. ListIsWhatWindowsShows /\ KeptPasswordLogsIn => WindowsStateIsKept
  BY DEF WindowsStateIsKept
<1> QED
  BY <1>1, WindowsAreListed, KeptPasswordsLogIn, PTL

-----------------------------------------------------------------------------
(* Frames follow each other.  How long ago a packet was sent is counted in   *)
(* packets, back from the next sequence number: numbers do not come round    *)
(* within the packets that can be under way, so one that succeeds another    *)
(* was sent right after it.                                                  *)

PathFrames == [n : 0 .. FRAMES - 1, key : BOOLEAN, whole : BOOLEAN]
PathPackets == [sequence : 0 .. SEQUENCES - 1, n : 0 .. FRAMES - 1, key : BOOLEAN,
                at : 1 .. KEY_PACKETS, marker : BOOLEAN]

Pictures == {"clean", "torn", "lost"}

NextFrame(n) == (n + 1) % FRAMES
AgeAt(from, s) == IF s < from THEN from - s ELSE from - s + SEQUENCES
AgeOf(s) == AgeAt(feeding.sequence, s)

FrameTypes ==
    /\ feeding \in [want : BOOLEAN, n : 0 .. FRAMES - 1, sequence : 0 .. SEQUENCES - 1, on : BOOLEAN]
    /\ onWire \in Seq(PathPackets) /\ Len(onWire) <= WIRE
    /\ remote \in [last : 0 .. SEQUENCES, pieces : Seq(PathPackets), damaged : BOOLEAN,
                   awaiting : BOOLEAN, on : BOOLEAN]
    /\ pump \in [skipping : BOOLEAN, asked : BOOLEAN]
    /\ slot \in [queue : Seq(PathFrames), held : Seq(PathFrames), open : BOOLEAN]
    /\ viewed \in [frame : PathFrames, picture : Pictures, ended : BOOLEAN]
    /\ faults \in 0 .. MaxFaults

\* Each loss and swap keeps a packet back by one at most.
NothingIsOld ==
    /\ \A i \in 1 .. Len(onWire) : AgeOf(onWire[i].sequence) <= Len(onWire) - i + 1 + faults
    /\ remote.last # NoSequence => AgeOf(remote.last) <= Len(onWire) + 1 + faults

\* Packet q was sent right after packet p.
Succeeds(q, p) ==
    /\ q.n = IF p.marker THEN NextFrame(p.n) ELSE p.n
    /\ q.at = IF p.marker THEN 1 ELSE p.at + 1

PacketsInTurn ==
    \A i, j \in 1 .. Len(onWire) :
        onWire[j].sequence = (onWire[i].sequence + 1) % SEQUENCES => Succeeds(onWire[j], onWire[i])

LastIsSent ==
    \A i \in 1 .. Len(onWire) :
        AgeOf(onWire[i].sequence) = 1 => onWire[i].marker /\ feeding.n = NextFrame(onWire[i].n)

\* The last frame that went to the program.
Newest == IF slot.queue # <<>> THEN slot.queue[Len(slot.queue)].n ELSE viewed.frame.n

\* Where no keyframe is waited for, what comes next is of the frame after it.
NextInTurn ==
    /\ ~remote.awaiting => remote.last # NoSequence
    /\ ~remote.awaiting /\ ~remote.damaged /\ ~pump.skipping =>
         /\ \A i \in 1 .. Len(onWire) :
              onWire[i].sequence = (remote.last + 1) % SEQUENCES => onWire[i].n = NextFrame(Newest)
         /\ AgeOf(remote.last) = 1 => feeding.n = NextFrame(Newest)

\* Where no gap was noticed, the pieces are the beginning of one frame and the
\* next packet is its next piece.
BeginFrame(pieces) ==
    \A i \in 1 .. Len(pieces) : pieces[i].n = pieces[1].n /\ pieces[i].at = i
Continues(p, pieces) == p.at = Len(pieces) + 1 /\ (pieces # <<>> => p.n = pieces[1].n)

PiecesInTurn ==
    ~remote.awaiting /\ ~remote.damaged =>
        /\ BeginFrame(remote.pieces)
        /\ \A i \in 1 .. Len(onWire) :
             onWire[i].sequence = (remote.last + 1) % SEQUENCES => Continues(onWire[i], remote.pieces)
        /\ AgeOf(remote.last) = 1 => remote.pieces = <<>>

\* A frame that may come after frame n.
Builds(frame, n) == frame.key \/ (frame.whole /\ frame.n = NextFrame(n))

SlotInTurn ==
    /\ viewed.picture # "lost"
    /\ slot.queue # <<>> => Builds(slot.queue[1], viewed.frame.n)
    /\ \A i \in 2 .. Len(slot.queue) : Builds(slot.queue[i], slot.queue[i - 1].n)
    /\ slot.held # <<>> => slot.held = <<viewed.frame>>

FrameIInv ==
    /\ FrameTypes /\ NothingIsOld /\ PacketsInTurn /\ LastIsSent /\ NextInTurn /\ PiecesInTurn
    /\ SlotInTurn

LEMMA ModSame == ASSUME NEW W \in Nat \ {0}, NEW a \in Int, 0 <= a, a < W PROVE a % W = a
  OBVIOUS
LEMMA ModAbove == ASSUME NEW W \in Nat \ {0}, NEW a \in Int, W <= a, a < 2 * W PROVE a % W = a - W
  OBVIOUS

LEMMA FrameSizes ==
    /\ FRAMES \in Nat /\ FRAMES > 0 /\ SEQUENCES \in Nat /\ SEQUENCES > 0
    /\ KEY_PACKETS \in Nat /\ KEY_PACKETS > 0 /\ WIRE \in Nat /\ MaxFaults \in Nat
    /\ WIRE + MaxFaults < SEQUENCES
    /\ FRAME_QUEUE \in Nat
  BY FramesAssumption

\* The number reached by counting on.
LEMMA Onward ==
    ASSUME NEW from \in 0 .. SEQUENCES - 1, NEW k \in Nat, k <= SEQUENCES
    PROVE  (from + k) % SEQUENCES = IF from + k < SEQUENCES THEN from + k ELSE from + k - SEQUENCES
<1>1. SEQUENCES \in Nat \ {0} /\ from \in Int /\ 0 <= from /\ from < SEQUENCES /\ from + k \in Int /\ 0 <= from + k
  BY FrameSizes
<1>2. CASE from + k < SEQUENCES
  BY <1>1, <1>2, ModSame
<1>3. CASE ~(from + k < SEQUENCES)
  <2>1. PICK a \in Int : a = from + k
    BY <1>1
  <2>2. SEQUENCES <= a /\ a < 2 * SEQUENCES
    BY <1>1, <1>3, <2>1
  <2>3. a % SEQUENCES = a - SEQUENCES
    BY <1>1, <2>2, ModAbove
  <2> QED
    BY <1>1, <1>3, <2>1, <2>3
<1> QED
  BY <1>2, <1>3

LEMMA AgeIs ==
    ASSUME NEW from \in 0 .. SEQUENCES - 1, NEW s \in 0 .. SEQUENCES - 1
    PROVE  /\ AgeAt(from, s) \in 1 .. SEQUENCES
           /\ (s + 1) % SEQUENCES \in 0 .. SEQUENCES - 1
           /\ AgeAt(from, (s + 1) % SEQUENCES)
                = IF AgeAt(from, s) = 1 THEN SEQUENCES ELSE AgeAt(from, s) - 1
<1>1. (s + 1) % SEQUENCES = IF s + 1 < SEQUENCES THEN s + 1 ELSE s + 1 - SEQUENCES
  BY Onward, FrameSizes
<1> QED
  BY <1>1, FrameSizes DEF AgeAt

LEMMA AgeLater ==
    ASSUME NEW from \in 0 .. SEQUENCES - 1, NEW s \in 0 .. SEQUENCES - 1, NEW k \in Nat,
           AgeAt(from, s) + k <= SEQUENCES
    PROVE  /\ (from + k) % SEQUENCES \in 0 .. SEQUENCES - 1
           /\ AgeAt((from + k) % SEQUENCES, s) = AgeAt(from, s) + k
<1>1. k <= SEQUENCES
  BY AgeIs, FrameSizes
<1>2. (from + k) % SEQUENCES = IF from + k < SEQUENCES THEN from + k ELSE from + k - SEQUENCES
  BY <1>1, Onward
<1> QED
  BY <1>1, <1>2, FrameSizes DEF AgeAt

LEMMA AgeOfNew ==
    ASSUME NEW from \in 0 .. SEQUENCES - 1, NEW k \in Nat, k < SEQUENCES, NEW i \in 1 .. k
    PROVE  /\ (from + k) % SEQUENCES \in 0 .. SEQUENCES - 1
           /\ (from + i - 1) % SEQUENCES \in 0 .. SEQUENCES - 1
           /\ AgeAt((from + k) % SEQUENCES, (from + i - 1) % SEQUENCES) = k - i + 1
<1>1. (from + k) % SEQUENCES = IF from + k < SEQUENCES THEN from + k ELSE from + k - SEQUENCES
  BY Onward, FrameSizes
<1>2. (from + (i - 1)) % SEQUENCES
        = IF from + (i - 1) < SEQUENCES THEN from + (i - 1) ELSE from + (i - 1) - SEQUENCES
  BY Onward, FrameSizes
<1>3. from + i - 1 = from + (i - 1)
  BY FrameSizes
<1> QED
  BY <1>1, <1>2, <1>3, FrameSizes DEF AgeAt

LEMMA NextFrameIs == ASSUME NEW n \in 0 .. FRAMES - 1 PROVE NextFrame(n) \in 0 .. FRAMES - 1
<1>1. FRAMES \in Nat \ {0} /\ n + 1 \in Nat
  BY FrameSizes
<1> QED
  BY <1>1 DEF NextFrame

LEMMA FrameInitial == FrameInit => FrameIInv
<1> SUFFICES ASSUME FrameInit PROVE FrameIInv
  OBVIOUS
<1>1. FrameTypes
  <2>1. NoFrame \in PathFrames
    BY FrameSizes DEF NoFrame, PathFrames
  <2>2. \A S : <<>> \in Seq(S)
    OBVIOUS
  <2> QED
    BY <2>1, <2>2, FrameSizes DEF FrameInit, FrameTypes, NoSequence, Pictures
<1>2. NothingIsOld /\ PacketsInTurn /\ LastIsSent /\ NextInTurn /\ PiecesInTurn /\ SlotInTurn
  BY DEF FrameInit, NothingIsOld, PacketsInTurn, LastIsSent, NextInTurn, PiecesInTurn, SlotInTurn,
         NoSequence
<1> QED
  BY <1>1, <1>2 DEF FrameIInv

LEMMA AgesAre ==
    ASSUME FrameTypes
    PROVE  /\ \A i \in 1 .. Len(onWire) :
                /\ onWire[i] \in PathPackets /\ onWire[i].sequence \in 0 .. SEQUENCES - 1
                /\ AgeOf(onWire[i].sequence) \in 1 .. SEQUENCES
           /\ remote.last # NoSequence =>
                remote.last \in 0 .. SEQUENCES - 1 /\ AgeOf(remote.last) \in 1 .. SEQUENCES
           /\ feeding.sequence \in 0 .. SEQUENCES - 1
<1>1. feeding.sequence \in 0 .. SEQUENCES - 1
  BY DEF FrameTypes
<1>2. ASSUME NEW i \in 1 .. Len(onWire)
      PROVE  /\ onWire[i] \in PathPackets /\ onWire[i].sequence \in 0 .. SEQUENCES - 1
             /\ AgeOf(onWire[i].sequence) \in 1 .. SEQUENCES
  <2>1. onWire[i] \in PathPackets
    BY DEF FrameTypes
  <2>2. onWire[i].sequence \in 0 .. SEQUENCES - 1
    BY <2>1 DEF PathPackets
  <2> QED
    BY <1>1, <2>1, <2>2, AgeIs DEF AgeOf
<1>3. ASSUME remote.last # NoSequence
      PROVE  remote.last \in 0 .. SEQUENCES - 1 /\ AgeOf(remote.last) \in 1 .. SEQUENCES
  <2>1. remote.last \in 0 .. SEQUENCES - 1
    BY <1>3, FrameSizes DEF FrameTypes, NoSequence
  <2> QED
    BY <1>1, <2>1, AgeIs DEF AgeOf
<1> QED
  BY <1>1, <1>2, <1>3

\* What the invariant depends on.
LEMMA StaysInTurn ==
    ASSUME FrameIInv, UNCHANGED onWire, FrameTypes', faults' >= faults,
           UNCHANGED <<feeding.n, feeding.sequence, remote.last, remote.damaged, remote.awaiting,
                       remote.pieces, pump.skipping, slot.queue, viewed.frame, viewed.picture>>,
           slot'.held # <<>> => slot'.held = <<viewed'.frame>>
    PROVE  FrameIInv'
<1>1. NothingIsOld'
  <2>1. faults \in Int /\ faults' \in Int /\ Len(onWire) \in Int
    BY DEF FrameIInv, FrameTypes
  <2>2. /\ \A i \in 1 .. Len(onWire) : AgeOf(onWire[i].sequence) \in Int
        /\ remote.last # NoSequence => AgeOf(remote.last) \in Int
    BY AgesAre DEF FrameIInv
  <2> QED
    BY <2>1, <2>2 DEF FrameIInv, NothingIsOld, AgeOf
<1>2. PacketsInTurn' /\ LastIsSent'
  BY DEF FrameIInv, PacketsInTurn, LastIsSent, AgeOf
<1>3. NextInTurn' /\ PiecesInTurn'
  BY DEF FrameIInv, NextInTurn, PiecesInTurn, AgeOf, Newest
<1>4. SlotInTurn'
  BY DEF FrameIInv, SlotInTurn
<1> QED
  BY <1>1, <1>2, <1>3, <1>4 DEF FrameIInv

\* Packets that go or change places stay in turn.
LEMMA FewerInTurn ==
    ASSUME FrameIInv, UNCHANGED feeding,
           \A i \in 1 .. Len(onWire') : \E j \in 1 .. Len(onWire) : onWire'[i] = onWire[j]
    PROVE  /\ PacketsInTurn' /\ LastIsSent'
           /\ UNCHANGED <<remote, pump, slot, viewed>> => NextInTurn' /\ PiecesInTurn'
<1>1. PacketsInTurn'
  <2> SUFFICES ASSUME NEW i \in 1 .. Len(onWire'), NEW j \in 1 .. Len(onWire'),
                      onWire'[j].sequence = (onWire'[i].sequence + 1) % SEQUENCES
               PROVE  Succeeds(onWire'[j], onWire'[i])
    BY DEF PacketsInTurn
  <2>1. PICK k \in 1 .. Len(onWire), l \in 1 .. Len(onWire) :
          onWire'[i] = onWire[k] /\ onWire'[j] = onWire[l]
    OBVIOUS
  <2> QED
    BY <2>1 DEF FrameIInv, PacketsInTurn
<1>2. LastIsSent'
  BY DEF FrameIInv, LastIsSent, AgeOf
<1>3. ASSUME UNCHANGED <<remote, pump, slot, viewed>> PROVE NextInTurn' /\ PiecesInTurn'
  BY <1>3 DEF FrameIInv, NextInTurn, PiecesInTurn, AgeOf, Newest
<1> QED
  BY <1>1, <1>2, <1>3

LEMMA RestIs ==
    ASSUME NEW S, NEW s \in Seq(S), NEW m \in 1 .. Len(s) + 1
    PROVE  /\ SubSeq(s, m, Len(s)) \in Seq(S)
           /\ Len(SubSeq(s, m, Len(s))) = Len(s) - m + 1
           /\ \A i \in 1 .. Len(s) - m + 1 : SubSeq(s, m, Len(s))[i] = s[m + i - 1]
<1>1. Len(s) \in Nat /\ m \in Int /\ \A i \in m .. Len(s) : s[i] \in S
  OBVIOUS
<1>2. PICK n \in Int : n = Len(s)
  BY <1>1
<1>3. /\ SubSeq(s, m, n) \in Seq(S)
      /\ Len(SubSeq(s, m, n)) = IF m <= n THEN n - m + 1 ELSE 0
      /\ \A i \in 1 .. n - m + 1 : SubSeq(s, m, n)[i] = s[m + i - 1]
  BY <1>1, <1>2, SubSeqProperties
<1>4. m <= n + 1
  BY <1>1, <1>2
<1> QED
  BY <1>2, <1>3, <1>4

LEMMA LostKeeps == ASSUME FrameIInv, PacketLost PROVE FrameIInv'
<1>1. PICK k \in 1 .. Len(onWire) :
        onWire' = SubSeq(onWire, 1, k - 1) \o SubSeq(onWire, k + 1, Len(onWire))
  BY DEF PacketLost
<1>2. onWire \in Seq(PathPackets) /\ Len(onWire) \in Nat /\ faults \in Nat /\ Len(onWire) <= WIRE
      /\ faults < MaxFaults /\ faults' = faults + 1
      /\ UNCHANGED <<feeding, request, remote, pump, slot, viewed>>
  BY DEF PacketLost, FrameIInv, FrameTypes
<1>3. /\ SubSeq(onWire, 1, k - 1) \in Seq(PathPackets) /\ Len(SubSeq(onWire, 1, k - 1)) = k - 1
      /\ \A i \in 1 .. k - 1 : SubSeq(onWire, 1, k - 1)[i] = onWire[i]
      /\ SubSeq(onWire, k + 1, Len(onWire)) \in Seq(PathPackets)
      /\ Len(SubSeq(onWire, k + 1, Len(onWire))) = Len(onWire) - k
      /\ \A i \in 1 .. Len(onWire) - k : SubSeq(onWire, k + 1, Len(onWire))[i] = onWire[k + i]
  BY <1>2
<1>4. /\ onWire' \in Seq(PathPackets) /\ Len(onWire') = Len(onWire) - 1
      /\ \A i \in 1 .. Len(onWire') : onWire'[i] = onWire[IF i < k THEN i ELSE i + 1]
  <2> DEFINE a == SubSeq(onWire, 1, k - 1)
             b == SubSeq(onWire, k + 1, Len(onWire))
  <2> HIDE DEF a, b
  <2>1. /\ a \in Seq(PathPackets) /\ Len(a) = k - 1 /\ \A i \in 1 .. k - 1 : a[i] = onWire[i]
        /\ b \in Seq(PathPackets) /\ Len(b) = Len(onWire) - k
        /\ \A i \in 1 .. Len(onWire) - k : b[i] = onWire[k + i]
    BY <1>3 DEF a, b
  <2>2. /\ a \o b \in Seq(PathPackets) /\ Len(a \o b) = Len(onWire) - 1
        /\ \A i \in 1 .. Len(onWire) - 1 : (a \o b)[i] = IF i <= k - 1 THEN a[i] ELSE b[i - (k - 1)]
    <3>1. /\ a \o b \in Seq(PathPackets) /\ Len(a \o b) = Len(a) + Len(b)
          /\ \A i \in 1 .. Len(a) + Len(b) :
               (a \o b)[i] = IF i <= Len(a) THEN a[i] ELSE b[i - Len(a)]
      BY <2>1, ConcatProperties
    <3>2. Len(a) + Len(b) = Len(onWire) - 1 /\ Len(a) = k - 1
      BY <1>2, <2>1
    <3> QED
      BY <3>1, <3>2
  <2>3. ASSUME NEW i \in 1 .. Len(onWire) - 1
        PROVE  (a \o b)[i] = onWire[IF i < k THEN i ELSE i + 1]
    <3>1. CASE i < k
      BY <1>2, <2>1, <2>2, <3>1
    <3>2. CASE ~(i < k)
      <4>1. i - (k - 1) \in 1 .. Len(onWire) - k /\ k + (i - (k - 1)) = i + 1
        BY <1>2, <3>2
      <4> QED
        BY <1>2, <2>1, <2>2, <3>2, <4>1
    <3> QED
      BY <3>1, <3>2
  <2>4. onWire' = a \o b
    BY <1>1 DEF a, b
  <2> QED
    BY <2>2, <2>3, <2>4
<1>5. FrameTypes'
  <2>1. onWire' \in Seq(PathPackets) /\ Len(onWire') <= WIRE
    <3>1. PICK l \in Nat : l = Len(onWire)
      BY <1>2
    <3>2. l <= WIRE => l - 1 <= WIRE
      BY FrameSizes
    <3> QED
      BY <1>2, <1>4, <3>1, <3>2
  <2>2. faults' \in 0 .. MaxFaults
    BY <1>2, FrameSizes
  <2> QED
    BY <1>2, <2>1, <2>2 DEF FrameIInv, FrameTypes
<1>6. \A i \in 1 .. Len(onWire') : \E j \in 1 .. Len(onWire) :
        onWire'[i] = onWire[j] /\ (j = i \/ j = i + 1)
  BY <1>2, <1>4
<1>7. NothingIsOld'
  <2>1. ASSUME NEW i \in 1 .. Len(onWire')
        PROVE  AgeAt(feeding'.sequence, onWire'[i].sequence) <= Len(onWire') - i + 1 + faults'
    <3>1. PICK j \in 1 .. Len(onWire) : onWire'[i] = onWire[j] /\ (j = i \/ j = i + 1)
      BY <1>6
    <3>2. AgeOf(onWire[j].sequence) <= Len(onWire) - j + 1 + faults
          /\ AgeAt(feeding'.sequence, onWire'[i].sequence) = AgeOf(onWire[j].sequence)
      BY <1>2, <3>1 DEF FrameIInv, NothingIsOld, AgeOf
    <3>3. AgeOf(onWire[j].sequence) \in Int
      BY AgesAre DEF FrameIInv
    <3> QED
      BY <1>2, <1>4, <3>1, <3>2, <3>3
  <2>2. remote.last # NoSequence => AgeOf(remote.last) <= Len(onWire') + 1 + faults'
    <3>1. remote.last # NoSequence => AgeOf(remote.last) \in Int
      BY AgesAre DEF FrameIInv
    <3> QED
      BY <1>2, <1>4, <3>1 DEF FrameIInv, NothingIsOld
  <2> QED
    BY <1>2, <2>1, <2>2 DEF NothingIsOld, AgeOf
<1>8. PacketsInTurn' /\ LastIsSent' /\ NextInTurn' /\ PiecesInTurn'
  BY <1>2, <1>6, FewerInTurn
<1>9. SlotInTurn'
  BY <1>2 DEF FrameIInv, SlotInTurn
<1> QED
  BY <1>5, <1>7, <1>8, <1>9 DEF FrameIInv

LEMMA SwappedKeeps == ASSUME FrameIInv, PacketsSwapped PROVE FrameIInv'
<1>1. /\ onWire \in Seq(PathPackets) /\ Len(onWire) \in Nat /\ faults \in Nat /\ Len(onWire) <= WIRE
      /\ faults < MaxFaults /\ faults' = faults + 1 /\ Len(onWire) >= 2
      /\ UNCHANGED <<feeding, request, remote, pump, slot, viewed>>
  BY DEF PacketsSwapped, FrameIInv, FrameTypes
<1>2. /\ SubSeq(onWire, 3, Len(onWire)) \in Seq(PathPackets)
      /\ Len(SubSeq(onWire, 3, Len(onWire))) = Len(onWire) - 2
      /\ \A i \in 1 .. Len(onWire) - 2 : SubSeq(onWire, 3, Len(onWire))[i] = onWire[i + 2]
  <2>1. 3 \in 1 .. Len(onWire) + 1 /\ Len(onWire) - 3 + 1 = Len(onWire) - 2
        /\ \A i \in 1 .. Len(onWire) - 2 : 3 + i - 1 = i + 2
    BY <1>1
  <2>2. /\ SubSeq(onWire, 3, Len(onWire)) \in Seq(PathPackets)
        /\ Len(SubSeq(onWire, 3, Len(onWire))) = Len(onWire) - 3 + 1
        /\ \A i \in 1 .. Len(onWire) - 3 + 1 : SubSeq(onWire, 3, Len(onWire))[i] = onWire[3 + i - 1]
    BY <1>1, <2>1, RestIs
  <2> QED
    BY <2>1, <2>2
<1>3. onWire[1] \in PathPackets /\ onWire[2] \in PathPackets
  BY <1>1
<1>4. /\ onWire' \in Seq(PathPackets) /\ Len(onWire') = Len(onWire)
      /\ \A i \in 1 .. Len(onWire) :
           onWire'[i] = onWire[IF i = 1 THEN 2 ELSE IF i = 2 THEN 1 ELSE i]
  BY <1>1, <1>2, <1>3 DEF PacketsSwapped
<1>5. FrameTypes'
  BY <1>1, <1>4, FrameSizes DEF FrameIInv, FrameTypes
<1>6. \A i \in 1 .. Len(onWire') : \E j \in 1 .. Len(onWire) :
        onWire'[i] = onWire[j] /\ j + 1 >= i
  BY <1>1, <1>4
<1>7. NothingIsOld'
  <2>1. ASSUME NEW i \in 1 .. Len(onWire')
        PROVE  AgeAt(feeding'.sequence, onWire'[i].sequence) <= Len(onWire') - i + 1 + faults'
    <3>1. PICK j \in 1 .. Len(onWire) : onWire'[i] = onWire[j] /\ j + 1 >= i
      BY <1>6
    <3>2. AgeOf(onWire[j].sequence) <= Len(onWire) - j + 1 + faults
          /\ AgeAt(feeding'.sequence, onWire'[i].sequence) = AgeOf(onWire[j].sequence)
      BY <1>1, <3>1 DEF FrameIInv, NothingIsOld, AgeOf
    <3>3. AgeOf(onWire[j].sequence) \in Int
      BY AgesAre DEF FrameIInv
    <3> QED
      <4>1. Len(onWire') = Len(onWire)
        BY <1>4
      <4> QED
        BY <1>1, <3>1, <3>2, <3>3, <4>1
  <2>2. remote.last # NoSequence => AgeOf(remote.last) <= Len(onWire') + 1 + faults'
    <3>1. remote.last # NoSequence => AgeOf(remote.last) \in Int
      BY AgesAre DEF FrameIInv
    <3>2. Len(onWire') = Len(onWire)
      BY <1>4
    <3> QED
      BY <1>1, <3>1, <3>2 DEF FrameIInv, NothingIsOld
  <2> QED
    BY <1>1, <2>1, <2>2 DEF NothingIsOld, AgeOf
<1>8. PacketsInTurn' /\ LastIsSent' /\ NextInTurn' /\ PiecesInTurn'
  BY <1>1, <1>6, FewerInTurn
<1>9. SlotInTurn'
  BY <1>1 DEF FrameIInv, SlotInTurn
<1> QED
  BY <1>5, <1>7, <1>8, <1>9 DEF FrameIInv

LEMMA PacketIs ==
    ASSUME NEW s \in 0 .. SEQUENCES - 1, NEW n \in 0 .. FRAMES - 1, NEW key \in BOOLEAN,
           NEW at \in 1 .. KEY_PACKETS, NEW marker \in BOOLEAN
    PROVE  [sequence |-> s, n |-> n, key |-> key, at |-> at, marker |-> marker] \in PathPackets
  BY DEF PathPackets

\* One frame's packets, where they fit into the numbers.
LEMMA PacketsAre ==
    ASSUME NEW n \in 0 .. FRAMES - 1, NEW key \in BOOLEAN, NEW from \in 0 .. SEQUENCES - 1,
           NEW k \in Nat, k = (IF key THEN KEY_PACKETS ELSE 1), k < SEQUENCES
    PROVE  /\ PacketsOf(n, key, from) \in Seq(PathPackets) /\ Len(PacketsOf(n, key, from)) = k
           /\ \A i \in 1 .. k : /\ PacketsOf(n, key, from)[i].sequence = (from + i - 1) % SEQUENCES
                                /\ PacketsOf(n, key, from)[i].n = n
                                /\ PacketsOf(n, key, from)[i].at = i
                                /\ PacketsOf(n, key, from)[i].marker = (i = k)
<1>1. PacketsOf(n, key, from)
        = [i \in 1 .. k |-> [sequence |-> (from + i - 1) % SEQUENCES, n |-> n, key |-> key,
                             at |-> i, marker |-> i = k]]
  BY DEF PacketsOf
<1>2. \A i \in 1 .. k : (from + i - 1) % SEQUENCES \in 0 .. SEQUENCES - 1
  BY AgeOfNew
<1>3. ASSUME NEW i \in 1 .. k
      PROVE  [sequence |-> (from + i - 1) % SEQUENCES, n |-> n, key |-> key,
              at |-> i, marker |-> i = k] \in PathPackets
  <2>1. PICK s \in 0 .. SEQUENCES - 1, at \in 1 .. KEY_PACKETS :
          s = (from + i - 1) % SEQUENCES /\ at = i
    <3>1. i \in 1 .. KEY_PACKETS
      BY FrameSizes
    <3> QED
      BY <3>1, <1>2
  <2>3. PICK marker \in BOOLEAN : marker = (i = k)
    OBVIOUS
  <2>2. [sequence |-> s, n |-> n, key |-> key, at |-> at, marker |-> marker] \in PathPackets
    BY PacketIs
  <2> QED
    BY <2>1, <2>2, <2>3
<1> DEFINE p(i) == [sequence |-> (from + i - 1) % SEQUENCES, n |-> n, key |-> key,
                    at |-> i, marker |-> i = k]
<1>4. PacketsOf(n, key, from) = [i \in 1 .. k |-> p(i)] /\ \A i \in 1 .. k : p(i) \in PathPackets
  BY <1>1, <1>3
<1> HIDE DEF p
<1>5. PacketsOf(n, key, from) \in [1 .. k -> PathPackets]
  BY <1>4
<1>6. PacketsOf(n, key, from) \in Seq(PathPackets) /\ DOMAIN PacketsOf(n, key, from) = 1 .. k
  BY <1>5
<1>7. Len(PacketsOf(n, key, from)) = k
  <2>1. Len(PacketsOf(n, key, from)) \in Nat /\ 1 .. k = 1 .. Len(PacketsOf(n, key, from))
    BY <1>6, LenProperties
  <2>2. PICK m \in Nat : m = Len(PacketsOf(n, key, from))
    BY <2>1
  <2>3. 1 .. k = 1 .. m /\ k > 0
    BY <2>1, <2>2, FrameSizes
  <2>4. k \in 1 .. m
    BY <2>3
  <2>5. m \in 1 .. k
    BY <2>3, <2>4
  <2> QED
    BY <2>2, <2>4, <2>5
<1> QED
  <2>1. \A i \in 1 .. k : PacketsOf(n, key, from)[i] = p(i)
    BY <1>4
  <2>2. \A i : /\ p(i).sequence = (from + i - 1) % SEQUENCES /\ p(i).n = n
               /\ p(i).at = i /\ p(i).marker = (i = k)
    BY DEF p
  <2> QED
    BY <1>6, <1>7, <2>1, <2>2

LEMMA FeedKeeps == ASSUME FrameIInv, FeedTurn PROVE FrameIInv'
<1> DEFINE key == feeding.want \/ KeyframeDue(feeding.n)
           new == PacketsOf(feeding.n, key, feeding.sequence)
           k   == IF key THEN KEY_PACKETS ELSE 1
           w   == Len(onWire)
<1>1. /\ feeding.n \in 0 .. FRAMES - 1 /\ feeding.sequence \in 0 .. SEQUENCES - 1
      /\ key \in BOOLEAN /\ onWire \in Seq(PathPackets) /\ w \in Nat /\ faults \in 0 .. MaxFaults
  BY DEF FrameIInv, FrameTypes, KeyframeDue
<1>2. /\ w + Len(new) <= WIRE /\ onWire' = onWire \o new
      /\ feeding' = [feeding EXCEPT !.want = FALSE, !.n = (@ + 1) % FRAMES,
                                    !.sequence = (@ + Len(new)) % SEQUENCES]
      /\ UNCHANGED <<request, remote, pump, slot, viewed, faults>>
  BY DEF FeedTurn
<1>3. k \in Nat /\ k > 0 /\ Len(new) = k
  <2>1. k \in Nat /\ k > 0
    BY FrameSizes
  <2>2. new = [i \in 1 .. k |-> new[i]]
    BY DEF PacketsOf
  <2> QED
    BY <2>1, <2>2
<1>4. /\ w + k + faults < SEQUENCES /\ k < SEQUENCES /\ w \in Nat /\ k \in Nat /\ k > 0
      /\ faults \in Nat /\ SEQUENCES \in Nat
  BY <1>1, <1>2, <1>3, FrameSizes
<1>5. /\ new \in Seq(PathPackets)
      /\ \A i \in 1 .. k : /\ new[i].sequence = (feeding.sequence + i - 1) % SEQUENCES
                           /\ new[i].n = feeding.n /\ new[i].at = i /\ new[i].marker = (i = k)
  <2>1. k = (IF key THEN KEY_PACKETS ELSE 1)
    OBVIOUS
  <2> HIDE DEF k, key
  <2>2. PICK n \in 0 .. FRAMES - 1, b \in BOOLEAN, from \in 0 .. SEQUENCES - 1 :
          n = feeding.n /\ b = key /\ from = feeding.sequence
    BY <1>1
  <2>3. /\ PacketsOf(n, b, from) \in Seq(PathPackets)
        /\ \A i \in 1 .. k : /\ PacketsOf(n, b, from)[i].sequence = (from + i - 1) % SEQUENCES
                             /\ PacketsOf(n, b, from)[i].n = n /\ PacketsOf(n, b, from)[i].at = i
                             /\ PacketsOf(n, b, from)[i].marker = (i = k)
    <3>1. k = (IF b THEN KEY_PACKETS ELSE 1) /\ k \in Nat /\ k < SEQUENCES
      BY <1>4, <2>1, <2>2
    <3> QED
      BY <3>1, PacketsAre
  <2> QED
    BY <2>2, <2>3
<1> HIDE DEF key, new, k, w
<1>6. /\ onWire' \in Seq(PathPackets) /\ Len(onWire') = w + k
      /\ \A i \in 1 .. w : onWire'[i] = onWire[i]
      /\ \A i \in 1 .. k : onWire'[w + i] = new[i]
  <2>1. /\ onWire \o new \in Seq(PathPackets) /\ Len(onWire \o new) = Len(onWire) + Len(new)
        /\ \A i \in 1 .. Len(onWire) + Len(new) :
             (onWire \o new)[i] = IF i <= Len(onWire) THEN onWire[i] ELSE new[i - Len(onWire)]
    BY <1>1, <1>5, ConcatProperties
  <2>2. Len(onWire) = w /\ Len(new) = k /\ onWire' = onWire \o new
    BY <1>2, <1>3 DEF w
  <2>3. \A i \in 1 .. w + k : onWire'[i] = IF i <= w THEN onWire[i] ELSE new[i - w]
    BY <2>1, <2>2
  <2>4. ASSUME NEW i \in 1 .. w PROVE i \in 1 .. w + k /\ i <= w
    BY <1>4
  <2>5. ASSUME NEW i \in 1 .. k PROVE w + i \in 1 .. w + k /\ ~(w + i <= w) /\ (w + i) - w = i
    BY <1>4
  <2>6. onWire' \in Seq(PathPackets) /\ Len(onWire') = w + k
    BY <2>1, <2>2
  <2>7. \A i \in 1 .. w : onWire'[i] = onWire[i]
    BY <2>3, <2>4
  <2>8. ASSUME NEW i \in 1 .. k PROVE onWire'[w + i] = new[i]
    BY <2>3, <2>5
  <2> QED
    BY <2>6, <2>7, <2>8
<1>7. /\ feeding'.n = NextFrame(feeding.n) /\ feeding'.n \in 0 .. FRAMES - 1
      /\ feeding'.sequence = (feeding.sequence + k) % SEQUENCES
      /\ feeding'.sequence \in 0 .. SEQUENCES - 1
      /\ feeding' \in [want : BOOLEAN, n : 0 .. FRAMES - 1, sequence : 0 .. SEQUENCES - 1, on : BOOLEAN]
  <2>1. NextFrame(feeding.n) \in 0 .. FRAMES - 1
    BY <1>1, NextFrameIs
  <2>2. (feeding.sequence + k) % SEQUENCES \in 0 .. SEQUENCES - 1
    BY <1>1, <1>3, <1>4, AgeOfNew
  <2> DEFINE calmer == [feeding EXCEPT !.want = FALSE]
             counted == [calmer EXCEPT !.n = NextFrame(feeding.n)]
  <2>3. calmer \in [want : BOOLEAN, n : 0 .. FRAMES - 1, sequence : 0 .. SEQUENCES - 1, on : BOOLEAN]
    BY DEF FrameIInv, FrameTypes
  <2>4. feeding' = [counted EXCEPT !.sequence = (feeding.sequence + k) % SEQUENCES]
    BY <1>2, <1>3 DEF NextFrame, FrameIInv, FrameTypes
  <2> HIDE DEF calmer
  <2>5. /\ counted \in [want : BOOLEAN, n : 0 .. FRAMES - 1, sequence : 0 .. SEQUENCES - 1, on : BOOLEAN]
        /\ counted.n = NextFrame(feeding.n)
    BY <2>1, <2>3
  <2> HIDE DEF counted
  <2> QED
    BY <2>1, <2>2, <2>4, <2>5
<1>8. FrameTypes'
  BY <1>2, <1>3, <1>6, <1>7 DEF FrameIInv, FrameTypes, w
\* The ages after the turn.
<1>9. ASSUME NEW i \in 1 .. w
      PROVE  /\ AgeOf(onWire[i].sequence) \in 1 .. SEQUENCES
             /\ AgeAt(feeding'.sequence, onWire[i].sequence) = AgeOf(onWire[i].sequence) + k
             /\ AgeOf(onWire[i].sequence) <= w - i + 1 + faults
  <2>1. /\ onWire[i].sequence \in 0 .. SEQUENCES - 1 /\ AgeOf(onWire[i].sequence) \in 1 .. SEQUENCES
        /\ AgeOf(onWire[i].sequence) <= w - i + 1 + faults
    BY AgesAre DEF FrameIInv, NothingIsOld, w
  <2>2. AgeOf(onWire[i].sequence) + k <= SEQUENCES
    BY <1>4, <2>1
  <2>3. PICK s \in 0 .. SEQUENCES - 1 : s = onWire[i].sequence
    BY <2>1
  <2>4. AgeAt((feeding.sequence + k) % SEQUENCES, s) = AgeAt(feeding.sequence, s) + k
    BY <1>1, <1>4, <2>2, <2>3, AgeLater DEF AgeOf
  <2> QED
    BY <1>7, <2>1, <2>3, <2>4 DEF AgeOf
<1>10. ASSUME remote.last # NoSequence
       PROVE  /\ AgeOf(remote.last) \in 1 .. SEQUENCES /\ remote.last \in 0 .. SEQUENCES - 1
              /\ AgeAt(feeding'.sequence, remote.last) = AgeOf(remote.last) + k
              /\ AgeOf(remote.last) <= w + 1 + faults
  <2>1. /\ remote.last \in 0 .. SEQUENCES - 1 /\ AgeOf(remote.last) \in 1 .. SEQUENCES
        /\ AgeOf(remote.last) <= w + 1 + faults
    BY <1>10, AgesAre DEF FrameIInv, NothingIsOld, w
  <2>2. AgeOf(remote.last) + k <= SEQUENCES
    BY <1>4, <2>1
  <2> QED
    BY <1>1, <1>4, <1>7, <2>1, <2>2, AgeLater DEF AgeOf
<1>11. ASSUME NEW i \in 1 .. k
       PROVE  /\ new[i].sequence \in 0 .. SEQUENCES - 1
              /\ AgeAt(feeding'.sequence, new[i].sequence) = k - i + 1
  <2>1. /\ (feeding.sequence + i - 1) % SEQUENCES \in 0 .. SEQUENCES - 1
        /\ AgeAt((feeding.sequence + k) % SEQUENCES, (feeding.sequence + i - 1) % SEQUENCES) = k - i + 1
    BY <1>1, <1>4, AgeOfNew
  <2> QED
    BY <1>5, <1>7, <2>1
<1>12. NothingIsOld'
  <2>1. ASSUME NEW i \in 1 .. w + k
        PROVE  AgeAt(feeding'.sequence, onWire'[i].sequence) <= w + k - i + 1 + faults
    <3>1. CASE i <= w
      <4>1. i \in 1 .. w
        BY <1>4, <3>1
      <4>2. onWire'[i] = onWire[i]
        BY <1>6, <4>1
      <4> QED
        BY <1>4, <1>9, <4>1, <4>2
    <3>2. CASE i > w
      <4>1. i - w \in 1 .. k /\ w + (i - w) = i
        BY <1>4, <3>2
      <4>2. onWire'[i] = new[i - w] /\ AgeAt(feeding'.sequence, new[i - w].sequence) = k - (i - w) + 1
        BY <1>6, <1>11, <4>1
      <4> QED
        BY <1>4, <4>1, <4>2
    <3> QED
      BY <1>4, <3>1, <3>2
  <2>2. remote.last # NoSequence => AgeAt(feeding'.sequence, remote.last) <= w + k + 1 + faults
    BY <1>4, <1>10
  <2>3. \A i \in 1 .. Len(onWire') :
          AgeAt(feeding'.sequence, onWire'[i].sequence) <= Len(onWire') - i + 1 + faults
    <3>1. Len(onWire') = w + k
      BY <1>6
    <3> SUFFICES ASSUME NEW i \in 1 .. w + k
                 PROVE  AgeAt(feeding'.sequence, onWire'[i].sequence) <= Len(onWire') - i + 1 + faults
      BY <3>1
    <3>2. AgeAt(feeding'.sequence, onWire'[i].sequence) <= w + k - i + 1 + faults
      BY <2>1
    <3> QED
      BY <1>4, <3>1, <3>2
  <2> QED
    BY <1>2, <1>6, <2>2, <2>3 DEF NothingIsOld, AgeOf
<1>13. LastIsSent'
  <2>1. ASSUME NEW i \in 1 .. w + k, AgeAt(feeding'.sequence, onWire'[i].sequence) = 1
        PROVE  onWire'[i].marker /\ feeding'.n = NextFrame(onWire'[i].n)
    <3>1. ASSUME i <= w PROVE FALSE
      <4>1. i \in 1 .. w
        BY <1>4, <3>1
      <4>2. onWire'[i] = onWire[i]
        BY <1>6, <4>1
      <4> QED
        BY <1>4, <1>9, <2>1, <4>1, <4>2
    <3>2. i - w \in 1 .. k /\ w + (i - w) = i
      BY <1>4, <3>1
    <3>3. onWire'[i] = new[i - w] /\ AgeAt(feeding'.sequence, new[i - w].sequence) = k - (i - w) + 1
      BY <1>6, <1>11, <3>2
    <3>4. i - w = k
      BY <1>4, <2>1, <3>2, <3>3
    <3> QED
      BY <1>5, <1>7, <3>2, <3>3, <3>4
  <2> QED
    BY <1>6, <2>1 DEF LastIsSent, AgeOf
\* What a number is followed by.
<1>14. ASSUME NEW s \in 0 .. SEQUENCES - 1, AgeAt(feeding'.sequence, s) = AgeOf(s) + k,
              AgeOf(s) \in 1 .. SEQUENCES,
              NEW i \in 1 .. k, new[i].sequence = (s + 1) % SEQUENCES
       PROVE  AgeOf(s) = 1 /\ i = 1
  <2>1. AgeAt(feeding'.sequence, (s + 1) % SEQUENCES) = AgeAt(feeding'.sequence, s) - 1
    BY <1>3, <1>7, <1>14, AgeIs
  <2> QED
    BY <1>3, <1>11, <1>14, <2>1
<1>15. PacketsInTurn'
  <2> SUFFICES ASSUME NEW i \in 1 .. w + k, NEW j \in 1 .. w + k,
                      onWire'[j].sequence = (onWire'[i].sequence + 1) % SEQUENCES
               PROVE  Succeeds(onWire'[j], onWire'[i])
    BY <1>6 DEF PacketsInTurn
  <2>0. onWire'[j].sequence = (onWire'[i].sequence + 1) % SEQUENCES
    OBVIOUS
  <2>1. CASE i <= w /\ j <= w
    BY <1>1, <1>6, <2>1 DEF FrameIInv, PacketsInTurn, w
  <2>2. CASE i <= w /\ j > w
    <3>1. i \in 1 .. w /\ j - w \in 1 .. k /\ w + (j - w) = j
      BY <1>4, <2>2
    <3>2. onWire'[j] = new[j - w] /\ onWire'[i] = onWire[i]
      BY <1>6, <3>1
    <3>3. AgeOf(onWire[i].sequence) = 1 /\ j - w = 1
      <4>1. onWire[i].sequence \in 0 .. SEQUENCES - 1
        BY <3>1, AgesAre DEF FrameIInv, w
      <4> QED
        BY <1>9, <1>14, <3>1, <3>2, <4>1
    <3> QED
      BY <1>5, <3>1, <3>2, <3>3 DEF FrameIInv, LastIsSent, Succeeds, w
  <2>3. CASE i > w /\ j <= w
    <3>1. j \in 1 .. w /\ i - w \in 1 .. k /\ w + (i - w) = i
      BY <1>4, <2>3
    <3>2. onWire'[i] = new[i - w] /\ onWire'[j] = onWire[j]
      BY <1>6, <3>1
    <3>3. /\ AgeAt(feeding'.sequence, onWire[j].sequence) > k
          /\ AgeAt(feeding'.sequence, onWire[j].sequence) < SEQUENCES
      BY <1>4, <1>9, <3>1
    <3>4. AgeAt(feeding'.sequence, new[i - w].sequence) \in 1 .. k
      BY <1>4, <1>11, <3>1
    <3>5. AgeAt(feeding'.sequence, onWire[j].sequence)
            = IF AgeAt(feeding'.sequence, new[i - w].sequence) = 1 THEN SEQUENCES
              ELSE AgeAt(feeding'.sequence, new[i - w].sequence) - 1
      <4>1. new[i - w].sequence \in 0 .. SEQUENCES - 1 /\ feeding'.sequence \in 0 .. SEQUENCES - 1
        BY <1>7, <1>11, <3>1
      <4> QED
        BY <2>0, <3>2, <4>1, AgeIs
    <3> QED
      BY <1>4, <3>3, <3>4, <3>5
  <2>4. CASE i > w /\ j > w
    <3>1. i - w \in 1 .. k /\ w + (i - w) = i /\ j - w \in 1 .. k /\ w + (j - w) = j
      BY <1>4, <2>4
    <3>2. onWire'[i] = new[i - w] /\ onWire'[j] = new[j - w]
      BY <1>6, <3>1
    <3>3. /\ AgeAt(feeding'.sequence, new[i - w].sequence) = k - (i - w) + 1
          /\ AgeAt(feeding'.sequence, new[j - w].sequence) = k - (j - w) + 1
      BY <1>11, <3>1
    <3>4. AgeAt(feeding'.sequence, new[j - w].sequence)
            = IF AgeAt(feeding'.sequence, new[i - w].sequence) = 1 THEN SEQUENCES
              ELSE AgeAt(feeding'.sequence, new[i - w].sequence) - 1
      <4>1. new[i - w].sequence \in 0 .. SEQUENCES - 1 /\ feeding'.sequence \in 0 .. SEQUENCES - 1
        BY <1>7, <1>11, <3>1
      <4> QED
        BY <2>0, <3>2, <4>1, AgeIs
    <3> DEFINE p == i - w
               q == j - w
    <3>5. /\ k \in Nat /\ p \in 1 .. k /\ q \in 1 .. k /\ SEQUENCES \in Nat /\ k < SEQUENCES
          /\ k - q + 1 = IF k - p + 1 = 1 THEN SEQUENCES ELSE (k - p + 1) - 1
      BY <1>4, <3>1, <3>3, <3>4
    <3>6. /\ new[p].marker = (p = k) /\ new[p].n = feeding.n /\ new[p].at = p
          /\ new[q].n = feeding.n /\ new[q].at = q
      BY <1>5, <3>1
    <3>7. onWire'[i] = new[p] /\ onWire'[j] = new[q]
      BY <3>2
    <3> HIDE DEF p, q
    <3>8. p # k /\ q = p + 1
      BY <3>5
    <3> QED
      BY <3>6, <3>7, <3>8 DEF Succeeds
  <2> QED
    BY <1>4, <2>1, <2>2, <2>3, <2>4
<1>16. NextInTurn'
  <2>1. Newest' = Newest
    BY <1>2 DEF Newest
  <2>2. ~remote.awaiting => remote.last # NoSequence
    BY DEF FrameIInv, NextInTurn
  <2>3. ASSUME ~remote.awaiting, ~remote.damaged, ~pump.skipping
        PROVE  /\ \A i \in 1 .. w + k :
                    onWire'[i].sequence = (remote.last + 1) % SEQUENCES => onWire'[i].n = NextFrame(Newest)
               /\ AgeAt(feeding'.sequence, remote.last) # 1
    <3>1. /\ AgeOf(remote.last) \in 1 .. SEQUENCES /\ remote.last \in 0 .. SEQUENCES - 1
          /\ AgeAt(feeding'.sequence, remote.last) = AgeOf(remote.last) + k
      BY <1>10, <2>2, <2>3
    <3>2. ASSUME NEW i \in 1 .. w + k, onWire'[i].sequence = (remote.last + 1) % SEQUENCES
          PROVE  onWire'[i].n = NextFrame(Newest)
      <4>1. CASE i <= w
        <5>1. i \in 1 .. w
          BY <1>4, <4>1
        <5>2. onWire'[i] = onWire[i]
          BY <1>6, <5>1
        <5> QED
          BY <2>3, <3>2, <5>1, <5>2 DEF FrameIInv, NextInTurn, w
      <4>2. CASE i > w
        <5>1. i - w \in 1 .. k /\ w + (i - w) = i
          BY <1>4, <4>2
        <5>2. onWire'[i] = new[i - w]
          BY <1>6, <5>1
        <5>3. AgeOf(remote.last) = 1
          BY <1>14, <3>1, <3>2, <5>1, <5>2
        <5> QED
          BY <1>5, <2>3, <5>1, <5>2, <5>3 DEF FrameIInv, NextInTurn
      <4> QED
        BY <1>1, <4>1, <4>2
    <3> QED
      BY <1>3, <3>1, <3>2
  <2> QED
    BY <1>2, <1>6, <2>1, <2>2, <2>3 DEF NextInTurn, AgeOf
<1>17. SlotInTurn'
  BY <1>2 DEF FrameIInv, SlotInTurn
<1>18. PiecesInTurn'
  <2> SUFFICES ASSUME ~remote.awaiting, ~remote.damaged
               PROVE  /\ BeginFrame(remote.pieces)
                      /\ \A i \in 1 .. w + k :
                           onWire'[i].sequence = (remote.last + 1) % SEQUENCES =>
                               Continues(onWire'[i], remote.pieces)
                      /\ AgeAt(feeding'.sequence, remote.last) # 1
    BY <1>2, <1>6 DEF PiecesInTurn, AgeOf
  <2>1. /\ AgeOf(remote.last) \in 1 .. SEQUENCES /\ remote.last \in 0 .. SEQUENCES - 1
        /\ AgeAt(feeding'.sequence, remote.last) = AgeOf(remote.last) + k
    BY <1>10 DEF FrameIInv, NextInTurn
  <2>2. ASSUME NEW i \in 1 .. w + k, onWire'[i].sequence = (remote.last + 1) % SEQUENCES
        PROVE  Continues(onWire'[i], remote.pieces)
    <3>1. CASE i <= w
      <4>1. i \in 1 .. w /\ onWire'[i] = onWire[i]
        BY <1>4, <1>6, <3>1
      <4> QED
        BY <2>2, <4>1 DEF FrameIInv, PiecesInTurn, w
    <3>2. CASE i > w
      <4>1. i - w \in 1 .. k /\ w + (i - w) = i
        BY <1>4, <3>2
      <4>2. onWire'[i] = new[i - w]
        BY <1>6, <4>1
      <4>3. AgeOf(remote.last) = 1 /\ i - w = 1
        BY <1>14, <2>1, <2>2, <4>1, <4>2
      <4>4. remote.pieces = <<>> /\ onWire'[i].at = 1
        BY <1>5, <4>1, <4>2, <4>3 DEF FrameIInv, PiecesInTurn
      <4> QED
        BY <4>4 DEF Continues
    <3> QED
      BY <1>1, <3>1, <3>2
  <2> QED
    BY <1>3, <2>1, <2>2 DEF FrameIInv, PiecesInTurn
<1> QED
  BY <1>8, <1>12, <1>13, <1>15, <1>16, <1>17, <1>18 DEF FrameIInv

\* The first packet leaves the wire and is the last one received.
LEMMA TakenInTurn ==
    ASSUME FrameIInv, onWire # <<>>, onWire' = Tail(onWire), UNCHANGED <<feeding, faults>>,
           remote'.last = Head(onWire).sequence
    PROVE  /\ onWire' \in Seq(PathPackets) /\ Len(onWire') <= WIRE
           /\ NothingIsOld' /\ PacketsInTurn' /\ LastIsSent'
           /\ remote'.last \in 0 .. SEQUENCES - 1
           /\ \A i \in 1 .. Len(onWire') :
                onWire'[i].sequence = (remote'.last + 1) % SEQUENCES => Succeeds(onWire'[i], Head(onWire))
           /\ AgeAt(feeding'.sequence, remote'.last) = 1 =>
                Head(onWire).marker /\ feeding'.n = NextFrame(Head(onWire).n)
<1> DEFINE w == Len(onWire)
<1>1. /\ onWire \in Seq(PathPackets) /\ w \in Nat /\ w <= WIRE /\ faults \in Nat
  BY DEF FrameIInv, FrameTypes
<1>2. w > 0 /\ Head(onWire) = onWire[1]
  BY <1>1
<1>3. /\ onWire' \in Seq(PathPackets) /\ Len(onWire') = w - 1
      /\ \A i \in 1 .. w - 1 : onWire'[i] = onWire[i + 1]
  BY <1>1, <1>2
<1>4. \A i \in 1 .. Len(onWire) : AgeOf(onWire[i].sequence) \in Int
                                  /\ onWire[i].sequence \in 0 .. SEQUENCES - 1
  BY AgesAre DEF FrameIInv
<1>5. Len(onWire') <= WIRE
  <2> HIDE DEF w
  <2> QED
    BY <1>1, <1>3, FrameSizes
<1>6. \A i \in 1 .. Len(onWire') : i + 1 \in 1 .. Len(onWire) /\ onWire'[i] = onWire[i + 1]
  <2>1. Len(onWire') = w - 1
    BY <1>3
  <2>2. \A i \in 1 .. w - 1 : i + 1 \in 1 .. w
    BY <1>1
  <2> QED
    BY <1>3, <2>1, <2>2
<1>7. PacketsInTurn' /\ LastIsSent'
  <2>1. \A i \in 1 .. Len(onWire') : \E j \in 1 .. Len(onWire) : onWire'[i] = onWire[j]
    BY <1>6
  <2> QED
    BY <2>1, FewerInTurn
<1>8. NothingIsOld'
  <2>1. ASSUME NEW i \in 1 .. Len(onWire')
        PROVE  AgeAt(feeding'.sequence, onWire'[i].sequence) <= Len(onWire') - i + 1 + faults
    <3>1. /\ AgeOf(onWire[i + 1].sequence) <= w - (i + 1) + 1 + faults
          /\ AgeAt(feeding'.sequence, onWire'[i].sequence) = AgeOf(onWire[i + 1].sequence)
      BY <1>6 DEF FrameIInv, NothingIsOld, AgeOf
    <3>2. Len(onWire') = w - 1
      BY <1>3
    <3>3. AgeOf(onWire[i + 1].sequence) \in Int /\ i \in Int
      BY <1>4, <1>6
    <3> HIDE DEF w
    <3> QED
      BY <1>1, <3>1, <3>2, <3>3
  <2>2. AgeAt(feeding'.sequence, remote'.last) <= Len(onWire') + 1 + faults
    <3>1. /\ AgeOf(onWire[1].sequence) <= w - 1 + 1 + faults
          /\ AgeAt(feeding'.sequence, remote'.last) = AgeOf(onWire[1].sequence)
      BY <1>1, <1>2 DEF FrameIInv, NothingIsOld, AgeOf
    <3>2. Len(onWire') = w - 1
      BY <1>3
    <3>3. AgeOf(onWire[1].sequence) \in Int
      BY <1>1, <1>2, <1>4
    <3> HIDE DEF w
    <3> QED
      BY <1>1, <3>1, <3>2, <3>3
  <2> QED
    BY <2>1, <2>2 DEF NothingIsOld, AgeOf
<1>9. remote'.last = onWire[1].sequence /\ 1 \in 1 .. Len(onWire)
  BY <1>1, <1>2
<1>10. remote'.last \in 0 .. SEQUENCES - 1
  BY <1>4, <1>9
<1>11. ASSUME NEW i \in 1 .. Len(onWire'), onWire'[i].sequence = (remote'.last + 1) % SEQUENCES
       PROVE  Succeeds(onWire'[i], Head(onWire))
  BY <1>2, <1>6, <1>9, <1>11 DEF FrameIInv, PacketsInTurn
<1>12. AgeAt(feeding'.sequence, remote'.last) = 1 =>
         Head(onWire).marker /\ feeding'.n = NextFrame(Head(onWire).n)
  BY <1>2, <1>9 DEF FrameIInv, LastIsSent, AgeOf
<1> QED
  BY <1>3, <1>5, <1>7, <1>8, <1>10, <1>11, <1>12

\* What a packet makes of the frame being put together.
LEMMA WithPacketIs ==
    ASSUME FrameTypes, NEW p \in PathPackets
    PROVE  LET r == WithPacket(remote, p)
           IN  /\ r \in [last : 0 .. SEQUENCES, pieces : Seq(PathPackets), damaged : BOOLEAN,
                         awaiting : BOOLEAN, on : BOOLEAN]
               /\ r.last = p.sequence /\ r.awaiting = remote.awaiting
               /\ r.pieces = Append(remote.pieces, p)
               /\ ~r.damaged =>
                    ~remote.damaged /\ (remote.last # NoSequence => p.sequence = (remote.last + 1) % SEQUENCES)
<1> DEFINE R == [last : 0 .. SEQUENCES, pieces : Seq(PathPackets), damaged : BOOLEAN,
                 awaiting : BOOLEAN, on : BOOLEAN]
           gap == remote.last # NoSequence /\ p.sequence # (remote.last + 1) % SEQUENCES
           r1 == [remote EXCEPT !.last = p.sequence]
           r2 == [r1 EXCEPT !.pieces = Append(remote.pieces, p)]
           r3 == [r2 EXCEPT !.damaged = remote.damaged \/ gap]
<1>1. remote \in R /\ p.sequence \in 0 .. SEQUENCES /\ Append(remote.pieces, p) \in Seq(PathPackets)
  BY FrameSizes DEF FrameTypes, PathPackets
<1>2. gap \in BOOLEAN /\ remote.damaged \in BOOLEAN /\ (remote.damaged \/ gap) \in BOOLEAN
  BY DEF FrameTypes
<1>3. WithPacket(remote, p) = r3
  BY <1>1 DEF WithPacket
<1> HIDE DEF gap
<1>4. r1 \in R /\ r1.last = p.sequence /\ r1.awaiting = remote.awaiting
  BY <1>1
<1> HIDE DEF r1
<1>5. r2 \in R /\ r2.last = p.sequence /\ r2.awaiting = remote.awaiting
      /\ r2.pieces = Append(remote.pieces, p)
  BY <1>1, <1>4
<1> HIDE DEF r2
<1>6. r3 \in R /\ r3.last = p.sequence /\ r3.awaiting = remote.awaiting /\ r3.damaged = (remote.damaged \/ gap)
      /\ r3.pieces = Append(remote.pieces, p)
  BY <1>2, <1>5
<1> HIDE DEF r3
<1> QED
  BY <1>3, <1>6 DEF gap

\* A frame joins the queue in its turn, or stands alone.
LEMMA QueuedInTurn ==
    ASSUME FrameIInv, NEW frame \in PathFrames,
           Builds(frame, Newest),
           slot' = [slot EXCEPT !.queue = Append(@, frame)], UNCHANGED viewed
    PROVE  /\ slot' \in [queue : Seq(PathFrames), held : Seq(PathFrames), open : BOOLEAN]
           /\ SlotInTurn' /\ Newest' = frame.n
<1> DEFINE q == slot.queue
<1>1. q \in Seq(PathFrames) /\ Len(q) \in Nat /\ slot'.queue = Append(q, frame) /\ slot'.held = slot.held
      /\ slot' \in [queue : Seq(PathFrames), held : Seq(PathFrames), open : BOOLEAN]
  <2>1. slot \in [queue : Seq(PathFrames), held : Seq(PathFrames), open : BOOLEAN]
    BY DEF FrameIInv, FrameTypes
  <2>2. PICK longer \in Seq(PathFrames) : longer = Append(q, frame)
    <3>1. q \in Seq(PathFrames)
      BY <2>1
    <3> HIDE DEF q
    <3>2. Append(q, frame) \in Seq(PathFrames)
      BY <3>1
    <3> QED
      BY <3>2
  <2>3. slot' = [slot EXCEPT !.queue = longer]
    BY <2>1, <2>2
  <2>4. /\ slot' \in [queue : Seq(PathFrames), held : Seq(PathFrames), open : BOOLEAN]
        /\ slot'.queue = longer /\ slot'.held = slot.held
    BY <2>1, <2>3
  <2>5. q \in Seq(PathFrames) /\ Len(q) \in Nat
    BY <2>1
  <2> QED
    BY <2>2, <2>4, <2>5
<1> HIDE DEF q
<1>2. /\ Append(q, frame) # <<>> /\ Len(Append(q, frame)) = Len(q) + 1
      /\ Append(q, frame)[Len(q) + 1] = frame
      /\ \A i \in 1 .. Len(q) : Append(q, frame)[i] = q[i]
  BY <1>1
<1>3. Newest' = frame.n
  BY <1>1, <1>2 DEF Newest
<1>4. SlotInTurn'
  <2>1. Builds(slot'.queue[1], viewed.frame.n)
    <3>1. CASE q = <<>>
      <4>1. slot'.queue[1] = frame
        BY <1>1, <1>2, <3>1
      <4> QED
        BY <3>1, <4>1 DEF Newest, q
    <3>2. CASE q # <<>>
      <4>1. 1 \in 1 .. Len(q)
        BY <1>1, <3>2, EmptySeq
      <4> QED
        BY <1>1, <1>2, <3>2, <4>1 DEF FrameIInv, SlotInTurn, q
    <3> QED
      BY <3>1, <3>2
  <2>2. ASSUME NEW i \in 2 .. Len(q) + 1
        PROVE  Builds(slot'.queue[i], slot'.queue[i - 1].n)
    <3>1. i - 1 \in 1 .. Len(q) /\ slot'.queue[i - 1] = q[i - 1]
      BY <1>1, <1>2
    <3>2. CASE i <= Len(q)
      <4>1. i \in 2 .. Len(q) /\ slot'.queue[i] = q[i]
        BY <1>1, <1>2, <3>2
      <4> QED
        BY <3>1, <4>1 DEF FrameIInv, SlotInTurn, q
    <3>3. CASE i = Len(q) + 1
      <4>1. slot'.queue[i] = frame /\ i - 1 = Len(q) /\ q # <<>>
        BY <1>1, <1>2, <3>1, <3>3, EmptySeq
      <4> QED
        BY <3>1, <4>1 DEF Newest, q
    <3> QED
      BY <1>1, <3>2, <3>3
  <2>3. viewed'.picture # "lost" /\ (slot'.held # <<>> => slot'.held = <<viewed'.frame>>)
    BY <1>1 DEF FrameIInv, SlotInTurn
  <2>4. \A i \in 2 .. Len(slot'.queue) : Builds(slot'.queue[i], slot'.queue[i - 1].n)
    <3>1. Len(slot'.queue) = Len(q) + 1
      BY <1>1, <1>2
    <3> QED
      BY <2>2, <3>1
  <2> QED
    BY <2>1, <2>3, <2>4 DEF SlotInTurn
<1> QED
  BY <1>1, <1>3, <1>4

LEMMA ArrivesKeeps == ASSUME FrameIInv, PacketArrives PROVE FrameIInv'
<1> DEFINE p == Head(onWire)
           r == WithPacket(remote, p)
           done == [r EXCEPT !.pieces = <<>>, !.damaged = FALSE]
           R == [last : 0 .. SEQUENCES, pieces : Seq(PathPackets), damaged : BOOLEAN,
                 awaiting : BOOLEAN, on : BOOLEAN]
<1>1. /\ onWire # <<>> /\ onWire' = Tail(onWire) /\ UNCHANGED <<feeding, viewed, faults>>
  BY DEF PacketArrives
<1>2. FrameTypes /\ onWire \in Seq(PathPackets) /\ p \in PathPackets /\ p = onWire[1] /\ 1 \in 1 .. Len(onWire)
  BY <1>1, EmptySeq DEF FrameIInv, FrameTypes
<1>3. /\ r \in R /\ r.last = p.sequence /\ r.awaiting = remote.awaiting
      /\ r.pieces = Append(remote.pieces, p)
      /\ ~r.damaged =>
           ~remote.damaged /\ (remote.last # NoSequence => p.sequence = (remote.last + 1) % SEQUENCES)
  BY <1>2, WithPacketIs
<1>49. Len(r.pieces) # 0
  <2>1. r.pieces = Append(remote.pieces, p) /\ remote.pieces \in Seq(PathPackets)
    BY <1>2, <1>3 DEF FrameTypes
  <2> HIDE DEF r, p
  <2> QED
    BY <1>2, <2>1
<1>4. /\ \A b \in BOOLEAN : /\ [done EXCEPT !.awaiting = b] \in R
                            /\ [done EXCEPT !.awaiting = b].last = p.sequence
                            /\ [done EXCEPT !.awaiting = b].awaiting = b
                            /\ ~[done EXCEPT !.awaiting = b].damaged
                            /\ [done EXCEPT !.awaiting = b].pieces = <<>>
  <2> HIDE DEF r, p
  <2> DEFINE e == [r EXCEPT !.pieces = <<>>]
             f == [e EXCEPT !.damaged = FALSE]
  <2>1. e \in R /\ e.last = p.sequence /\ e.pieces = <<>>
    <3>1. <<>> \in Seq(PathPackets)
      OBVIOUS
    <3> QED
      BY <1>3, <3>1
  <2>2. done = f
    BY <1>3
  <2> HIDE DEF e
  <2>3. f \in R /\ f.last = p.sequence /\ ~f.damaged /\ f.pieces = <<>>
    BY <2>1
  <2> HIDE DEF f, done
  <2> QED
    BY <2>2, <2>3
\* What comes next is in its turn, where the packet was.
<1>5. ASSUME ~remote.awaiting, ~r.damaged, ~pump.skipping
      PROVE  p.n = NextFrame(Newest)
  <2>1. remote.last # NoSequence /\ ~remote.damaged /\ p.sequence = (remote.last + 1) % SEQUENCES
    BY <1>3, <1>5 DEF FrameIInv, NextInTurn
  <2> HIDE DEF r
  <2> QED
    BY <1>2, <1>5, <2>1 DEF FrameIInv, NextInTurn
\* Where no gap was noticed, the packet is the next piece of one frame.
<1>50. ASSUME ~remote.awaiting, ~r.damaged
       PROVE  BeginFrame(r.pieces) /\ Len(r.pieces) = p.at /\ r.pieces[Len(r.pieces)] = p
              /\ r.pieces[1].n = p.n /\ r.pieces # <<>> /\ p.at \in Nat
  <2> DEFINE t == remote.pieces
  <2>1. remote.last # NoSequence /\ ~remote.damaged /\ p.sequence = (remote.last + 1) % SEQUENCES
    BY <1>3, <1>50 DEF FrameIInv, NextInTurn
  <2>2. BeginFrame(t) /\ Continues(p, t)
    BY <1>2, <1>50, <2>1 DEF FrameIInv, PiecesInTurn
  <2>3. t \in Seq(PathPackets) /\ Len(t) \in Nat /\ r.pieces = Append(t, p)
    BY <1>2, <1>3 DEF FrameTypes
  <2> HIDE DEF r, t, p
  <2>4. /\ Len(r.pieces) = Len(t) + 1 /\ r.pieces[Len(t) + 1] = p
        /\ \A i \in 1 .. Len(t) : r.pieces[i] = t[i]
    BY <1>2, <2>3
  <2>5. r.pieces[1].n = p.n
    <3>1. CASE t = <<>>
      BY <2>4, <3>1
    <3>2. CASE t # <<>>
      <4>1. 1 \in 1 .. Len(t)
        BY <2>3, <3>2, EmptySeq
      <4> QED
        BY <2>2, <2>4, <3>2, <4>1 DEF Continues
    <3> QED
      BY <3>1, <3>2
  <2>6. ASSUME NEW i \in 1 .. Len(r.pieces)
        PROVE  r.pieces[i].n = r.pieces[1].n /\ r.pieces[i].at = i
    <3>1. CASE i \in 1 .. Len(t)
      <4>1. t # <<>> /\ r.pieces[i] = t[i] /\ t[i].n = t[1].n /\ t[i].at = i
        BY <2>2, <2>3, <2>4, <3>1, EmptySeq DEF BeginFrame
      <4> QED
        BY <2>2, <2>5, <4>1 DEF Continues
    <3>2. CASE i = Len(t) + 1
      BY <2>2, <2>4, <2>5, <3>2 DEF Continues
    <3> QED
      BY <2>3, <2>4, <3>1, <3>2
  <2>7. r.pieces # <<>>
    BY <2>3, <2>4
  <2> QED
    BY <2>2, <2>3, <2>4, <2>5, <2>6, <2>7 DEF BeginFrame, Continues
<1> HIDE DEF r, done, R
<1>51. ASSUME remote'.pieces = <<>>, \A i \in 1 .. Len(onWire') :
                onWire'[i].sequence = (remote'.last + 1) % SEQUENCES => Succeeds(onWire'[i], p),
              p.marker
       PROVE  PiecesInTurn'
  BY <1>51 DEF PiecesInTurn, BeginFrame, Continues, Succeeds
<1>6. ASSUME remote' \in R, remote'.last = p.sequence
      PROVE  /\ onWire' \in Seq(PathPackets) /\ Len(onWire') <= WIRE
             /\ NothingIsOld' /\ PacketsInTurn' /\ LastIsSent'
             /\ remote'.last \in 0 .. SEQUENCES - 1 /\ remote'.last # NoSequence
             /\ \A i \in 1 .. Len(onWire') :
                  onWire'[i].sequence = (remote'.last + 1) % SEQUENCES => Succeeds(onWire'[i], p)
             /\ AgeAt(feeding'.sequence, remote'.last) = 1 => p.marker /\ feeding'.n = NextFrame(p.n)
  <2>1. UNCHANGED <<feeding, faults>>
    BY <1>1
  <2>2. remote'.last \in 0 .. SEQUENCES - 1 => remote'.last # NoSequence
    BY FrameSizes DEF NoSequence
  <2> QED
    BY <1>1, <1>6, <2>1, <2>2, TakenInTurn
<1>7. CASE ~p.marker
  <2>1. remote' = r /\ UNCHANGED <<request, pump, slot>>
    BY <1>7 DEF PacketArrives, r
  <2>2. FrameTypes'
    BY <1>1, <1>2, <1>3, <1>6, <2>1 DEF FrameTypes, R
  <2>3. NextInTurn'
    <3>1. Newest' = Newest
      BY <1>1, <2>1 DEF Newest
    <3> QED
      BY <1>3, <1>5, <1>6, <1>7, <2>1, <3>1 DEF NextInTurn, AgeOf, Succeeds
  <2>4. SlotInTurn'
    BY <1>1, <2>1 DEF FrameIInv, SlotInTurn
  <2>5. PiecesInTurn'
    <3> SUFFICES ASSUME ~r.awaiting, ~r.damaged
                 PROVE  /\ BeginFrame(r.pieces)
                        /\ \A i \in 1 .. Len(onWire') :
                             onWire'[i].sequence = (r.last + 1) % SEQUENCES =>
                                 Continues(onWire'[i], r.pieces)
                        /\ AgeAt(feeding'.sequence, r.last) # 1
      BY <2>1 DEF PiecesInTurn, AgeOf
    <3>1. BeginFrame(r.pieces) /\ Len(r.pieces) = p.at /\ r.pieces[1].n = p.n
      BY <1>3, <1>50
    <3> QED
      BY <1>3, <1>6, <1>7, <2>1, <3>1 DEF Continues, Succeeds
  <2> QED
    BY <1>3, <1>6, <2>1, <2>2, <2>3, <2>4, <2>5 DEF FrameIInv
<1>8. ASSUME p.marker, remote' = [done EXCEPT !.awaiting = TRUE], UNCHANGED <<pump, slot>>
      PROVE  FrameIInv'
  <2>1. remote' \in R /\ remote'.last = p.sequence /\ remote'.awaiting /\ remote'.pieces = <<>>
    BY <1>4, <1>8
  <2>2. FrameTypes'
    BY <1>1, <1>2, <1>6, <1>8, <2>1 DEF FrameTypes, R
  <2>3. NextInTurn' /\ SlotInTurn'
    BY <1>1, <1>8, <2>1 DEF FrameIInv, NextInTurn, SlotInTurn
  <2>4. PiecesInTurn'
    BY <1>6, <1>8, <1>51, <2>1
  <2> QED
    BY <1>6, <2>1, <2>2, <2>3, <2>4 DEF FrameIInv
<1>9. ASSUME p.marker, NEW key \in BOOLEAN, key \/ ~(remote.awaiting \/ r.damaged),
             remote' = [done EXCEPT !.awaiting = FALSE],
             NEW whole \in BOOLEAN, key \/ whole, PumpTurn([n |-> p.n, key |-> key, whole |-> whole])
      PROVE  FrameIInv'
  <2> DEFINE frame == [n |-> p.n, key |-> key, whole |-> whole]
  <2>1. remote' \in R /\ remote'.last = p.sequence /\ ~remote'.awaiting /\ ~remote'.damaged
        /\ remote'.pieces = <<>>
    BY <1>4, <1>9
  <2>8. PiecesInTurn'
    BY <1>6, <1>9, <1>51, <2>1
  <2>2. frame \in PathFrames /\ frame.n = p.n /\ frame.key = key /\ frame.whole = whole
    BY <1>2 DEF PathFrames, PathPackets
  <2>3. PumpTurn(frame)
    BY <1>9
  <2> HIDE DEF frame
  <2>4. ASSUME pump' = [skipping |-> TRUE, asked |-> FALSE], slot' = slot
        PROVE  FrameIInv'
    <3>0. pump' \in [skipping : BOOLEAN, asked : BOOLEAN] /\ pump'.skipping
      BY <2>4
    <3>1. FrameTypes'
      BY <1>1, <1>2, <1>6, <2>1, <2>4, <3>0 DEF FrameTypes, R
    <3>2. NextInTurn' /\ SlotInTurn'
      BY <1>1, <1>6, <2>1, <2>4, <3>0 DEF FrameIInv, NextInTurn, SlotInTurn
    <3> QED
      BY <1>6, <2>1, <2>8, <3>1, <3>2 DEF FrameIInv
  <2>5. CASE SkipsToKeyframe(pump, frame)
    <3>1. pump' = [pump EXCEPT !.asked = FALSE] /\ slot' = slot
      BY <2>3, <2>5 DEF PumpTurn
    <3>2. pump.skipping /\ pump \in [skipping : BOOLEAN, asked : BOOLEAN]
      BY <1>2, <2>5 DEF SkipsToKeyframe, FrameTypes
    <3>3. pump' = [skipping |-> TRUE, asked |-> FALSE]
      BY <3>1, <3>2
    <3> QED
      BY <2>4, <3>1, <3>3
  <2>6. CASE ~SkipsToKeyframe(pump, frame) /\ ~(Len(slot.queue) < FRAME_QUEUE)
    <3>1. pump' = [skipping |-> TRUE, asked |-> FALSE] /\ slot' = slot
      BY <2>3, <2>6 DEF PumpTurn
    <3> QED
      BY <2>4, <3>1
  <2>7. CASE ~SkipsToKeyframe(pump, frame) /\ Len(slot.queue) < FRAME_QUEUE
    <3>1. /\ pump' = [skipping |-> FALSE, asked |-> FALSE]
          /\ slot' = [slot EXCEPT !.queue = Append(@, frame)]
      BY <2>3, <2>7 DEF PumpTurn
    <3>2. Builds(frame, Newest)
      BY <1>5, <1>9, <2>2, <2>7 DEF SkipsToKeyframe, Builds
    <3>3. /\ slot' \in [queue : Seq(PathFrames), held : Seq(PathFrames), open : BOOLEAN]
          /\ SlotInTurn' /\ Newest' = p.n
      BY <1>1, <2>2, <3>1, <3>2, QueuedInTurn
    <3>4. FrameTypes'
      BY <1>1, <1>2, <1>6, <2>1, <3>1, <3>3 DEF FrameTypes, R
    <3>5. NextInTurn'
      BY <1>6, <1>9, <2>1, <3>3 DEF NextInTurn, AgeOf, Succeeds
    <3> QED
      BY <1>6, <2>1, <2>8, <3>3, <3>4, <3>5 DEF FrameIInv
  <2> QED
    BY <2>5, <2>6, <2>7
<1>10. CASE p.marker
  <2>1. PICK key \in LooksKey(r.pieces) :
          IF (r.awaiting \/ r.damaged) /\ ~key
          THEN /\ remote' = [done EXCEPT !.awaiting = TRUE] /\ request' = TRUE
               /\ UNCHANGED <<pump, slot>>
          ELSE /\ remote' = [done EXCEPT !.awaiting = FALSE]
               /\ PumpTurn([n |-> p.n, key |-> key, whole |-> IsWhole(r.pieces)])
    BY <1>10 DEF PacketArrives, r, done
  <2>2. IsWhole(r.pieces) \in BOOLEAN
    BY DEF IsWhole
  <2>3. key \in BOOLEAN
    <3>1. CASE IsWhole(r.pieces)
      <4>1. key = r.pieces[1].key
        BY <3>1 DEF LooksKey
      <4>2. Len(r.pieces) # 0
        BY <1>2, <1>3, <1>49
      <4>3. r.pieces \in Seq(PathPackets)
        BY <1>3 DEF R
      <4>4. r.pieces[1] \in PathPackets
        BY <4>2, <4>3
      <4> QED
        BY <4>1, <4>4 DEF PathPackets
    <3>2. CASE ~IsWhole(r.pieces)
      BY <3>2 DEF LooksKey
    <3> QED
      BY <3>1, <3>2
  <2>4. CASE (r.awaiting \/ r.damaged) /\ ~key
    BY <1>8, <1>10, <2>1, <2>4
  <2>5. CASE ~((r.awaiting \/ r.damaged) /\ ~key)
    <3>1. key \/ ~(remote.awaiting \/ r.damaged)
      BY <1>3, <2>5
    <3>2. ASSUME ~key PROVE IsWhole(r.pieces)
      BY <1>10, <1>50, <3>1, <3>2 DEF IsWhole, BeginFrame
    <3> QED
      BY <1>9, <1>10, <2>1, <2>2, <2>3, <2>5, <3>1, <3>2
  <2> QED
    BY <2>4, <2>5
<1> QED
  BY <1>7, <1>10

LEMMA TakesKeeps == ASSUME FrameIInv, TakesFrame PROVE FrameIInv'
<1> DEFINE q == slot.queue
<1>1. /\ slot.held = <<>> /\ q # <<>> /\ UNCHANGED <<feeding, onWire, request, remote, pump, faults>>
      /\ slot' = [slot EXCEPT !.queue = Tail(q)]
      /\ viewed' = [viewed EXCEPT !.frame = Head(q), !.picture = PictureWith(Head(q))]
  BY DEF TakesFrame, FrameIInv, FrameTypes
<1>2. FrameTypes /\ q \in Seq(PathFrames) /\ Len(q) \in Nat /\ Len(q) > 0 /\ Head(q) = q[1] /\ q[1] \in PathFrames
      /\ Tail(q) \in Seq(PathFrames) /\ Len(Tail(q)) = Len(q) - 1
      /\ \A i \in 1 .. Len(q) - 1 : Tail(q)[i] = q[i + 1]
  BY <1>1, EmptySeq DEF FrameIInv, FrameTypes
<1>3. slot'.queue = Tail(q) /\ slot'.held = <<>>
      /\ slot' \in [queue : Seq(PathFrames), held : Seq(PathFrames), open : BOOLEAN]
  BY <1>1, <1>2 DEF FrameTypes
<1>4. PictureWith(Head(q)) \in Pictures /\ PictureWith(Head(q)) # "lost"
  <2>1. Builds(Head(q), viewed.frame.n)
    BY <1>1, <1>2 DEF FrameIInv, SlotInTurn
  <2>2. viewed.picture \in Pictures /\ viewed.picture # "lost"
    BY DEF FrameIInv, FrameTypes, SlotInTurn
  <2> HIDE DEF q
  <2> QED
    BY <2>1, <2>2 DEF PictureWith, Builds, NextFrame, Pictures
<1>5. viewed'.frame = q[1] /\ viewed'.picture # "lost"
      /\ viewed' \in [frame : PathFrames, picture : Pictures, ended : BOOLEAN]
  <2> DEFINE e == [viewed EXCEPT !.frame = q[1]]
  <2>0. PICK drew \in Pictures : drew = PictureWith(Head(q))
    BY <1>4
  <2>1. viewed' = [e EXCEPT !.picture = drew]
    BY <1>1, <1>2, <2>0 DEF FrameTypes
  <2>2. e \in [frame : PathFrames, picture : Pictures, ended : BOOLEAN] /\ e.frame = q[1]
    BY <1>2 DEF FrameTypes
  <2> HIDE DEF e
  <2> QED
    BY <1>4, <2>0, <2>1, <2>2
<1> HIDE DEF q
<1>6. Newest' = Newest
  <2>1. Newest = q[Len(q)].n
    BY <1>1 DEF Newest, q
  <2>2. CASE Len(q) = 1
    <3>1. PICK rest \in Seq(PathFrames) : rest = Tail(q)
      BY <1>2
    <3>2. Len(rest) = 0
      BY <1>2, <2>2, <3>1
    <3>3. Tail(q) = <<>>
      BY <3>1, <3>2, EmptySeq
    <3> QED
      BY <1>3, <1>5, <2>1, <2>2, <3>3 DEF Newest
  <2>3. CASE Len(q) > 1
    <3>0. Tail(q) # <<>>
      <4>1. PICK rest \in Seq(PathFrames) : rest = Tail(q)
        BY <1>2
      <4>2. Len(rest) # 0
        BY <1>2, <2>3, <4>1
      <4> QED
        BY <4>1, <4>2, EmptySeq
    <3>1. Tail(q) # <<>> /\ Len(q) - 1 \in 1 .. Len(q) - 1 /\ (Len(q) - 1) + 1 = Len(q)
      BY <1>2, <2>3, <3>0
    <3>2. Tail(q)[Len(Tail(q))] = q[Len(q)]
      BY <1>2, <3>1
    <3> QED
      BY <1>3, <2>1, <3>1, <3>2 DEF Newest
  <2> QED
    BY <1>2, <2>2, <2>3
<1>7. FrameTypes'
  BY <1>1, <1>2, <1>3, <1>5 DEF FrameTypes
<1>8. NothingIsOld' /\ PacketsInTurn' /\ LastIsSent'
  BY <1>1 DEF FrameIInv, NothingIsOld, PacketsInTurn, LastIsSent, AgeOf
<1>9. NextInTurn' /\ PiecesInTurn'
  BY <1>1, <1>6 DEF FrameIInv, NextInTurn, PiecesInTurn, AgeOf
<1>10. SlotInTurn'
  <2>1. \A i \in 2 .. Len(q) : Builds(q[i], q[i - 1].n)
    BY DEF FrameIInv, SlotInTurn, q
  <2>2. ASSUME Tail(q) # <<>> PROVE Builds(Tail(q)[1], q[1].n)
    <3>1. 1 \in 1 .. Len(q) - 1 /\ 2 \in 2 .. Len(q) /\ 1 + 1 = 2 /\ 2 - 1 = 1
      BY <1>2, <2>2, EmptySeq
    <3> QED
      BY <1>2, <2>1, <3>1
  <2>3. ASSUME NEW i \in 2 .. Len(q) - 1
        PROVE  Builds(Tail(q)[i], Tail(q)[i - 1].n)
    <3>1. i \in 1 .. Len(q) - 1 /\ i - 1 \in 1 .. Len(q) - 1 /\ i + 1 \in 2 .. Len(q)
          /\ (i + 1) - 1 = i /\ (i - 1) + 1 = i
      BY <1>2
    <3> QED
      BY <1>2, <2>1, <3>1
  <2>4. \A i \in 2 .. Len(slot'.queue) : Builds(slot'.queue[i], slot'.queue[i - 1].n)
    <3>1. Len(slot'.queue) = Len(q) - 1
      BY <1>2, <1>3
    <3> QED
      BY <1>3, <2>3, <3>1
  <2> QED
    BY <1>3, <1>5, <2>2, <2>4 DEF SlotInTurn
<1> QED
  BY <1>7, <1>8, <1>9, <1>10 DEF FrameIInv

LEMMA RestKeeps ==
    ASSUME FrameIInv,
           \/ FeedEnds \/ RequestArrives \/ RequestLost \/ TrackEnds
           \/ TakesHeldFrame \/ HoldsFrame \/ ProgramAsks \/ StreamEnded
    PROVE  FrameIInv'
<1> DEFINE Feeds == [want : BOOLEAN, n : 0 .. FRAMES - 1, sequence : 0 .. SEQUENCES - 1, on : BOOLEAN]
           R == [last : 0 .. SEQUENCES, pieces : Seq(PathPackets), damaged : BOOLEAN,
                 awaiting : BOOLEAN, on : BOOLEAN]
           P == [skipping : BOOLEAN, asked : BOOLEAN]
           S == [queue : Seq(PathFrames), held : Seq(PathFrames), open : BOOLEAN]
           V == [frame : PathFrames, picture : Pictures, ended : BOOLEAN]
<1>1. /\ feeding \in Feeds /\ onWire \in Seq(PathPackets) /\ Len(onWire) <= WIRE
      /\ remote \in R /\ pump \in P /\ slot \in S /\ viewed \in V /\ faults \in 0 .. MaxFaults
  BY DEF FrameIInv, FrameTypes
<1>2. slot.held # <<>> => slot.held = <<viewed.frame>>
  BY DEF FrameIInv, SlotInTurn
<1>3. ASSUME UNCHANGED onWire, feeding' \in Feeds, remote' \in R, pump' \in P, slot' \in S,
             viewed' \in V, faults' \in 0 .. MaxFaults
      PROVE  FrameTypes'
  BY <1>1, <1>3 DEF FrameTypes
<1> HIDE DEF Feeds, R, P, S, V
<1>4. ASSUME UNCHANGED <<onWire, remote, pump, slot, viewed>>, feeding' \in Feeds,
             UNCHANGED <<feeding.n, feeding.sequence>>, faults' \in 0 .. MaxFaults, faults' >= faults
      PROVE  FrameIInv'
  <2>1. FrameTypes'
    BY <1>1, <1>3, <1>4
  <2> QED
    BY <1>2, <1>4, <2>1, StaysInTurn
<1>5. ASSUME UNCHANGED <<feeding, onWire, request, pump, viewed, faults>>,
             remote' \in R, UNCHANGED <<remote.last, remote.damaged, remote.awaiting, remote.pieces>>,
             slot' \in S, UNCHANGED <<slot.queue, slot.held>>
      PROVE  FrameIInv'
  <2>1. FrameTypes'
    BY <1>1, <1>3, <1>5
  <2>2. faults' >= faults
    BY <1>1, <1>5
  <2> QED
    BY <1>2, <1>5, <2>1, <2>2, StaysInTurn
<1>6. CASE FeedEnds
  <2>1. feeding' = [feeding EXCEPT !.on = FALSE] /\ UNCHANGED <<onWire, remote, pump, slot, viewed, faults>>
    BY <1>6 DEF FeedEnds
  <2>2. feeding' \in Feeds /\ UNCHANGED <<feeding.n, feeding.sequence>>
    BY <1>1, <2>1 DEF Feeds
  <2>3. faults' \in 0 .. MaxFaults /\ faults' >= faults
    BY <1>1, <2>1
  <2> QED
    BY <1>4, <2>1, <2>2, <2>3
<1>7. CASE RequestArrives
  <2>1. feeding' = [feeding EXCEPT !.want = TRUE] /\ UNCHANGED <<onWire, remote, pump, slot, viewed, faults>>
    BY <1>7 DEF RequestArrives
  <2>2. feeding' \in Feeds /\ UNCHANGED <<feeding.n, feeding.sequence>>
    BY <1>1, <2>1 DEF Feeds
  <2>3. faults' \in 0 .. MaxFaults /\ faults' >= faults
    BY <1>1, <2>1
  <2> QED
    BY <1>4, <2>1, <2>2, <2>3
<1>8. CASE RequestLost
  <2>1. /\ faults < MaxFaults /\ faults' = faults + 1
        /\ UNCHANGED <<feeding, onWire, remote, pump, slot, viewed>>
    BY <1>8 DEF RequestLost
  <2>2. faults' \in 0 .. MaxFaults /\ faults' >= faults
    BY <1>1, <2>1, FrameSizes
  <2> QED
    BY <1>1, <1>4, <2>1, <2>2
<1>9. CASE TrackEnds
  <2>1. /\ remote' = [remote EXCEPT !.on = FALSE] /\ slot' = [slot EXCEPT !.open = FALSE]
        /\ UNCHANGED <<feeding, onWire, request, pump, viewed, faults>>
    BY <1>9 DEF TrackEnds
  <2>2. remote' \in R /\ UNCHANGED <<remote.last, remote.damaged, remote.awaiting, remote.pieces>>
    BY <1>1, <2>1 DEF R
  <2>3. slot' \in S /\ UNCHANGED <<slot.queue, slot.held>>
    BY <1>1, <2>1 DEF S
  <2> QED
    BY <1>5, <2>1, <2>2, <2>3
<1>10. CASE TakesHeldFrame
  <2>1. /\ slot.held # <<>> /\ slot' = [slot EXCEPT !.held = <<>>]
        /\ viewed' = [viewed EXCEPT !.frame = slot.held[1]]
        /\ UNCHANGED <<feeding, onWire, request, remote, pump, faults>>
    BY <1>10 DEF TakesHeldFrame
  <2>2. slot.held[1] = viewed.frame
    BY <1>2, <2>1
  <2>3. viewed' \in V /\ UNCHANGED <<viewed.frame, viewed.picture>>
    BY <1>1, <2>1, <2>2 DEF V
  <2>4. slot' \in S /\ slot'.queue = slot.queue /\ slot'.held = <<>>
    <3>1. <<>> \in Seq(PathFrames)
      OBVIOUS
    <3> QED
      BY <1>1, <2>1, <3>1 DEF S
  <2>5. FrameTypes'
    BY <1>1, <1>3, <2>1, <2>3, <2>4
  <2>6. faults' >= faults
    BY <1>1, <2>1
  <2> QED
    BY <2>1, <2>3, <2>4, <2>5, <2>6, StaysInTurn
<1>11. CASE HoldsFrame
  <2>1. /\ slot' = [slot EXCEPT !.held = <<viewed.frame>>] /\ faults < MaxFaults /\ faults' = faults + 1
        /\ UNCHANGED <<feeding, onWire, request, remote, pump, viewed>>
    BY <1>11 DEF HoldsFrame
  <2>2. <<viewed.frame>> \in Seq(PathFrames)
    <3>1. viewed.frame \in PathFrames
      BY <1>1 DEF V
    <3> QED
      BY <3>1
  <2>3. slot' \in S /\ slot'.queue = slot.queue /\ slot'.held = <<viewed.frame>>
    BY <1>1, <2>1, <2>2 DEF S
  <2>4. faults' \in 0 .. MaxFaults /\ faults' >= faults
    BY <1>1, <2>1, FrameSizes
  <2>5. FrameTypes'
    BY <1>1, <1>3, <2>1, <2>3, <2>4
  <2> QED
    BY <2>1, <2>3, <2>4, <2>5, StaysInTurn
<1>12. CASE ProgramAsks
  <2>1. /\ pump' = [pump EXCEPT !.asked = TRUE] /\ faults < MaxFaults /\ faults' = faults + 1
        /\ UNCHANGED <<feeding, onWire, request, remote, slot, viewed>>
    BY <1>12 DEF ProgramAsks
  <2>2. pump' \in P /\ pump'.skipping = pump.skipping
    BY <1>1, <2>1 DEF P
  <2>3. faults' \in 0 .. MaxFaults /\ faults' >= faults
    BY <1>1, <2>1, FrameSizes
  <2>4. FrameTypes'
    BY <1>1, <1>3, <2>1, <2>2, <2>3
  <2> QED
    BY <1>2, <2>1, <2>2, <2>3, <2>4, StaysInTurn
<1>13. CASE StreamEnded
  <2>1. /\ viewed' = [viewed EXCEPT !.ended = TRUE]
        /\ UNCHANGED <<feeding, onWire, request, remote, pump, slot, faults>>
    BY <1>13 DEF StreamEnded
  <2>2. viewed' \in V /\ UNCHANGED <<viewed.frame, viewed.picture>>
    BY <1>1, <2>1 DEF V
  <2>3. FrameTypes'
    BY <1>1, <1>3, <2>1, <2>2
  <2>4. faults' >= faults
    BY <1>1, <2>1
  <2> QED
    BY <1>2, <2>1, <2>2, <2>3, <2>4, StaysInTurn
<1> QED
  BY <1>6, <1>7, <1>8, <1>9, <1>10, <1>11, <1>12, <1>13

LEMMA FrameInductive == ASSUME FrameIInv, [FrameNext]_frameVars PROVE FrameIInv'
<1>1. CASE UNCHANGED frameVars
  <2>1. UNCHANGED <<feeding, onWire, request, remote, pump, slot, viewed, faults>>
    BY <1>1 DEF frameVars
  <2>2. FrameTypes' /\ faults' >= faults
    BY <2>1 DEF FrameIInv, FrameTypes
  <2>3. slot'.held # <<>> => slot'.held = <<viewed'.frame>>
    BY <2>1 DEF FrameIInv, SlotInTurn
  <2> QED
    BY <2>1, <2>2, <2>3, StaysInTurn
<1> QED
  BY <1>1, FeedKeeps, LostKeeps, SwappedKeeps, ArrivesKeeps, TakesKeeps, RestKeeps DEF FrameNext

(* A frame the program takes that is no keyframe is whole and comes right    *)
(* after the one it took before it, back to a keyframe (whole, or torn and   *)
(* with its header: RemoteWindow::next_frame), for any frame numbers and     *)
(* sequence numbers that do not come round within what is under way or was   *)
(* lost.                                                                     *)
THEOREM FramesFollow == FrameSpec => []FramesFollowEachOther
<1>1. FrameIInv => FramesFollowEachOther
  BY DEF FrameIInv, SlotInTurn, FramesFollowEachOther
<1> QED
  BY <1>1, FrameInitial, FrameInductive, PTL DEF FrameSpec
==============================================================================
