---------------------------- MODULE LinkProofs ----------------------------
(***************************************************************************)
(* For every size of window and every count of packet numbers: the window   *)
(* stays exact, a number is accepted once, the bitmap of words, whatever     *)
(* their number and width, implements the window, and the loss reports never *)
(* understate the loss.  For every number of frames, shards and resends:     *)
(* frames come out in order over the wrap of their number, and each one      *)
(* begun is accounted for.  For every plan of two programs and every finite   *)
(* bound of losses: the segments of a punched socket carry a byte stream.    *)
(***************************************************************************)
EXTENDS SealedPackets, ReplayWords, FrameRecovery, PunchedStream,
        FiniteSetTheorems, WellFoundedInduction, TLAPS

\* The samples the meter took are of the past.
MeterBehind ==
    /\ lastHighest <= highest
    /\ lastAccepted <= accepted

WindowInv == WindowTypeOK /\ WindowIsExact /\ AcceptedOnce /\ IsFiniteSet(opened)

MeterInv == TypeOK /\ MeterBehind /\ LossNotUnderstated

-----------------------------------------------------------------------------
\* Check admits exactly the numbers that were not accepted and that the window
\* could still tell: what it admits is new.
LEMMA CheckedIsNew ==
    ASSUME NEW p \in Packets, WindowInv, Check(p)
    PROVE  p \notin opened
<1>1. CASE highest = None
  BY <1>1 DEF WindowInv, WindowIsExact
<1>2. CASE highest # None /\ p > highest
  BY <1>2 DEF WindowInv, WindowIsExact, WindowTypeOK, Packets, None
<1>3. CASE highest # None /\ p <= highest /\ highest - p < WINDOW /\ highest - p \notin bits
  <2>1. highest \in Nat /\ p \in Nat
    BY <1>3 DEF WindowInv, WindowTypeOK, Packets
  <2>2. highest - p \in 0 .. WINDOW - 1
    BY <2>1, <1>3, WindowAssumption
  <2>3. highest - (highest - p) \notin opened
    BY <2>2, <1>3 DEF WindowInv, WindowIsExact
  <2> QED
    BY <2>1, <2>3
<1> QED
  BY <1>1, <1>2, <1>3 DEF Check

\* A new window (ReplayWindow::new) has accepted nothing.
LEMMA WindowInitially ==
    ASSUME WindowInit PROVE WindowInv
<1>1. WindowTypeOK /\ WindowIsExact
  BY DEF WindowInit, WindowTypeOK, WindowIsExact, None, Packets
<1>2. IsFiniteSet({}) /\ Cardinality({}) = 0
  BY FS_EmptySet
<1> QED
  BY <1>1, <1>2 DEF WindowInit, WindowInv, AcceptedOnce

\* Accepting keeps the types, never lowers the highest number and counts one packet.
LEMMA OpenKeepsTypes ==
    ASSUME NEW p \in Packets, WindowInv, Open(p)
    PROVE  WindowTypeOK' /\ highest' \in Packets /\ highest <= highest' /\ accepted' = accepted + 1
<1> USE DEF WindowInv, WindowTypeOK, Packets, None, Open, Accept, Shift
<1>1. accepted' \in Nat /\ opened' \subseteq Packets /\ accepted' = accepted + 1
  OBVIOUS
<1>2. bits' \subseteq 0 .. WINDOW - 1
  <2>1. 0 \in 0 .. WINDOW - 1
    BY WindowAssumption
  <2>2. highest # None /\ p <= highest /\ highest - p < WINDOW => highest - p \in 0 .. WINDOW - 1
    BY WindowAssumption
  <2> QED
    BY <2>1, <2>2
<1>3. highest' \in Packets /\ highest <= highest'
  BY WindowAssumption
<1> QED
  BY <1>1, <1>2, <1>3

\* Accepting a packet, newer or late, keeps the window exact and the count right.
LEMMA OpenKeepsWindow ==
    ASSUME NEW p \in Packets, WindowInv, Open(p)
    PROVE  WindowInv'
<1>0. WindowTypeOK'
  BY OpenKeepsTypes
<1>1. AcceptedOnce' /\ IsFiniteSet(opened)'
  <2>1. p \notin opened
    BY CheckedIsNew DEF Open
  <2>2. IsFiniteSet(opened \cup {p}) /\ Cardinality(opened \cup {p}) = Cardinality(opened) + 1
    BY <2>1, FS_AddElement DEF WindowInv
  <2> QED
    BY <2>2 DEF WindowInv, AcceptedOnce, Open, Accept
<1>2. highest' \in opened' /\ \A q \in opened' : q <= highest'
  BY WindowAssumption DEF WindowInv, WindowIsExact, WindowTypeOK, Packets, None, Open, Accept
<1>3. ASSUME NEW k \in 0 .. WINDOW - 1
      PROVE  k \in bits' <=> highest' - k \in opened'
  <2>1. CASE highest = None
    BY <2>1, WindowAssumption DEF WindowInv, WindowIsExact, WindowTypeOK, Packets, None, Open, Accept
  <2>2. CASE highest # None /\ p > highest
    <3>1. highest' = p /\ bits' = Shift(p - highest) \cup {0} /\ opened' = opened \cup {p}
      BY <2>2, WindowAssumption DEF WindowInv, WindowTypeOK, Packets, Open, Accept
    <3>2. p \in Nat /\ highest \in Nat /\ k \in Nat /\ WINDOW \in Nat
      BY <2>2, WindowAssumption DEF WindowInv, WindowTypeOK, Packets
    <3>3. CASE k < p - highest
      <4>1. p - k > highest
        BY <3>2, <3>3
      <4>2. p - k \notin opened
        BY <4>1, <3>2, <2>2 DEF WindowInv, WindowIsExact, WindowTypeOK, Packets
      <4>3. k - (p - highest) \notin bits
        BY <3>2, <3>3 DEF WindowInv, WindowTypeOK
      <4>4. k \in bits' <=> k = 0
        BY <3>1, <3>2, <4>3 DEF Shift
      <4> QED
        BY <3>1, <3>2, <4>2, <4>4
    <3>4. CASE k >= p - highest
      <4>1. k - (p - highest) \in 0 .. WINDOW - 1 /\ k # 0 /\ p - k # p
        BY <3>2, <3>4, <2>2
      <4>2. k - (p - highest) \in bits <=> highest - (k - (p - highest)) \in opened
        BY <4>1, <2>2 DEF WindowInv, WindowIsExact
      <4>3. highest - (k - (p - highest)) = p - k
        BY <3>2
      <4> QED
        BY <3>1, <4>1, <4>2, <4>3 DEF Shift
    <3> QED
      BY <3>2, <3>3, <3>4
  <2>3. CASE highest # None /\ p <= highest
    <3>1. /\ highest' = highest /\ opened' = opened \cup {p}
          /\ bits' = IF highest - p < WINDOW THEN bits \cup {highest - p} ELSE bits
      BY <2>3, WindowAssumption DEF WindowInv, WindowTypeOK, Packets, Open, Accept
    <3>2. p \in Nat /\ highest \in Nat /\ k \in Nat /\ WINDOW \in Nat /\ k < WINDOW
      BY <2>3, WindowAssumption DEF WindowInv, WindowTypeOK, Packets
    <3>3. k \in bits <=> highest - k \in opened
      BY <2>3 DEF WindowInv, WindowIsExact
    <3>4. highest - k = p <=> k = highest - p
      BY <3>2
    <3> QED
      BY <3>1, <3>2, <3>3, <3>4
  <2> QED
    BY <2>1, <2>2, <2>3 DEF WindowInv, WindowTypeOK, Packets, None
<1>4. highest' # None
  BY OpenKeepsTypes DEF Packets, None
<1> QED
  BY <1>0, <1>1, <1>2, <1>3, <1>4 DEF WindowInv, WindowIsExact

\* The window on its own: it remembers exactly what it can, and no packet
\* number is accepted twice.
THEOREM WindowAcceptsOnce == WindowSpec => [](WindowIsExact /\ AcceptedOnce)
<1>1. WindowInit => WindowInv
  BY WindowInitially
<1>2. WindowInv /\ [WindowNext]_windowVars => WindowInv'
  <2> SUFFICES ASSUME WindowInv, [WindowNext]_windowVars PROVE WindowInv'
    OBVIOUS
  <2>1. CASE WindowNext
    BY <2>1, OpenKeepsWindow DEF WindowNext
  <2>2. CASE UNCHANGED windowVars
    BY <2>2 DEF windowVars, WindowInv, WindowTypeOK, WindowIsExact, AcceptedOnce
  <2> QED
    BY <2>1, <2>2
<1>3. WindowInv => WindowIsExact /\ AcceptedOnce
  BY DEF WindowInv
<1> QED
  BY <1>1, <1>2, <1>3, PTL DEF WindowSpec

-----------------------------------------------------------------------------
\* Every distance of the window is a bit of one word.
LEMMA PlaceOfBit ==
    ASSUME NEW k \in Nat
    PROVE  /\ k \div WORD \in Nat /\ k % WORD \in WordBits
           /\ k = WORD * (k \div WORD) + (k % WORD)
<1> DEFINE D == WORD
<1>1. D \in Nat /\ D > 0
  BY WordsAssumption
<1>2. k \div D \in Nat /\ k % D \in 0 .. D - 1 /\ k = D * (k \div D) + (k % D)
  <2> HIDE DEF D
  <2> QED
    BY <1>1
<1> QED
  BY <1>2 DEF WordBits

\* Products of naturals grow with either factor.
LEMMA ProductGrows ==
    ASSUME NEW a \in Nat, NEW b \in Nat, NEW m \in Nat, a < b
    PROVE  m * a + m <= m * b
<1>1. PICK d \in Nat : b = a + 1 + d
  <2>1. b - a - 1 \in Nat /\ b = a + 1 + (b - a - 1)
    OBVIOUS
  <2> QED
    BY <2>1
<1>2. m * b = m * a + m + m * d
  BY <1>1
<1>3. m * d \in Nat /\ m * a \in Nat
  BY <1>1
<1> QED
  BY <1>2, <1>3

\* The distance between two places, without and with a borrow from the next word.
LEMMA BetweenPlaces ==
    ASSUME NEW m \in Nat, NEW q \in Nat, NEW r \in Nat, NEW n \in Nat, NEW b \in Nat
    PROVE  /\ (m * q + r) - (m * n + b) = m * (q - n) + (r - b)
           /\ (m * q + r) - (m * n + b) = m * (q - n - 1) + (r + (m - b))
<1>1. PICK d \in Int : d = q - n
  OBVIOUS
<1>2. q = n + d
  BY <1>1
<1>3. m * q = m * n + m * d
  BY <1>2
<1>4. m * (d - 1) = m * d - m
  OBVIOUS
<1>5. PICK x \in Int, y \in Int, z \in Int : x = m * q /\ y = m * n /\ z = m * d
  OBVIOUS
<1>6. x = y + z /\ m * (d - 1) = z - m
  BY <1>3, <1>4, <1>5
<1>7. (x + r) - (y + b) = z + (r - b) /\ (x + r) - (y + b) = (z - m) + (r + (m - b))
  BY <1>6
<1> QED
  BY <1>1, <1>5, <1>6, <1>7

\* A number is at one place only.
LEMMA OnePlace ==
    ASSUME NEW q \in Nat, NEW r \in WordBits, NEW s \in Nat, NEW t \in WordBits
    PROVE  /\ WORD * q + r = WORD * s + t => q = s /\ r = t
           /\ WORD * q + r < WORD * s + t <=> q < s \/ (q = s /\ r < t)
<1>1. WORD \in Nat /\ r \in Nat /\ t \in Nat /\ r < WORD /\ t < WORD
  BY WordsAssumption DEF WordBits
<1>2. PICK x \in Nat, y \in Nat : x = WORD * q /\ y = WORD * s
  BY <1>1
<1>3. CASE q < s
  <2>1. x + WORD <= y
    BY <1>1, <1>2, <1>3, ProductGrows
  <2> QED
    BY <2>1, <1>1, <1>2, <1>3
<1>4. CASE s < q
  <2>1. y + WORD <= x
    BY <1>1, <1>2, <1>4, ProductGrows
  <2> QED
    BY <2>1, <1>1, <1>2, <1>4
<1>5. CASE q = s
  BY <1>1, <1>2, <1>5
<1> QED
  BY <1>3, <1>4, <1>5

\* ReplayWindow::bit reads bit r of word q at WORD * q + r.
LEMMA BitAt ==
    ASSUME NEW w \in Bitmaps, NEW k \in Nat, NEW q \in Nat, NEW r \in WordBits,
           k = WORD * q + r
    PROVE  /\ Bit(w, k) <=> r \in w[q]
           /\ k \div WORD = q /\ k % WORD = r
<1>1. k \div WORD = q /\ k % WORD = r
  BY PlaceOfBit, OnePlace
<1> QED
  BY <1>1 DEF Bit

\* The window is WORDS words of WORD bits: what is in it is in one of them.
LEMMA PlaceInWindow ==
    ASSUME NEW k \in 0 .. WINDOW - 1
    PROVE  k \in Nat /\ k \div WORD \in WordIndex /\ k % WORD \in WordBits
<1>1. WORD \in Nat /\ WORDS \in Nat /\ WINDOW \in Nat /\ WINDOW = WORD * WORDS /\ k \in Nat
  BY WordsAssumption, WindowAssumption
<1>2. PICK q \in Nat, r \in Nat : /\ q = k \div WORD /\ r = k % WORD /\ r \in WordBits
                                  /\ k = WORD * q + r
  BY <1>1, PlaceOfBit DEF WordBits
<1>3. ~(WORDS <= q)
  <2> SUFFICES ASSUME WORDS <= q PROVE FALSE
    OBVIOUS
  <2>1. WORD * WORDS <= WORD * q
    <3>1. CASE WORDS = q
      <4>1. WORD * q \in Nat
        BY <1>1, <1>2
      <4> QED
        BY <3>1, <4>1, <1>1
    <3>2. CASE WORDS < q
      <4>1. WORD * WORDS + WORD <= WORD * q
        BY <3>2, <1>1, ProductGrows
      <4> QED
        BY <4>1, <1>1, <1>2
    <3> QED
      BY <3>1, <3>2, <1>1, <1>2
  <2>2. PICK x \in Nat : x = WORD * q
    BY <1>1, <1>2
  <2> QED
    BY <2>1, <2>2, <1>1, <1>2
<1> QED
  BY <1>1, <1>2, <1>3 DEF WordIndex

\* Setting a bit sets that one and no other (ReplayWindow::set).
LEMMA SetBitSets ==
    ASSUME NEW w \in Bitmaps, NEW j \in 0 .. WINDOW - 1
    PROVE  /\ SetBit(w, j) \in Bitmaps
           /\ \A k \in 0 .. WINDOW - 1 : Bit(SetBit(w, j), k) <=> k = j \/ Bit(w, k)
<1>1. j \in Nat /\ j \div WORD \in WordIndex /\ j % WORD \in WordBits
  BY PlaceInWindow
<1>2. PICK jq \in WordIndex, jr \in WordBits : jq = j \div WORD /\ jr = j % WORD /\ j = WORD * jq + jr
  BY <1>1, PlaceOfBit
<1>3. SetBit(w, j) = [w EXCEPT ![jq] = @ \cup {jr}]
  BY <1>2 DEF SetBit
<1>4. SetBit(w, j) \in Bitmaps
  <2>1. w \in [WordIndex -> SUBSET WordBits] /\ jq \in WordIndex /\ jr \in WordBits
    BY <1>2 DEF Bitmaps
  <2>2. PICK new \in SUBSET WordBits : new = w[jq] \cup {jr}
    BY <2>1
  <2>3. [w EXCEPT ![jq] = new] \in [WordIndex -> SUBSET WordBits]
    BY <2>1
  <2> QED
    BY <2>2, <2>3, <1>3 DEF Bitmaps
<1>5. ASSUME NEW k \in 0 .. WINDOW - 1
      PROVE  Bit(SetBit(w, j), k) <=> k = j \/ Bit(w, k)
  <2>1. k \in Nat /\ k \div WORD \in WordIndex /\ k % WORD \in WordBits
    BY PlaceInWindow
  <2>2. PICK q \in WordIndex, r \in WordBits : q = k \div WORD /\ r = k % WORD /\ k = WORD * q + r
    BY <2>1, PlaceOfBit
  <2>3. k = j <=> q = jq /\ r = jr
    BY <1>2, <2>2
  <2>4. r \in [w EXCEPT ![jq] = @ \cup {jr}][q] <=> (q = jq /\ r = jr) \/ r \in w[q]
    BY <1>2, <2>2 DEF Bitmaps
  <2> QED
    BY <2>2, <2>3, <2>4, <1>3 DEF Bit
<1> QED
  BY <1>4, <1>5

\* The shift moves every bit up by the jump, over the borders of the words, and
\* drops what leaves the window (ReplayWindow::shift).
LEMMA ShiftShifts ==
    ASSUME NEW w \in Bitmaps, NEW by \in Nat
    PROVE  /\ ShiftWords(w, by) \in Bitmaps
           /\ \A k \in 0 .. WINDOW - 1 :
                Bit(ShiftWords(w, by), k) <=> by <= k /\ Bit(w, k - by)
<1>0. WORD \in Nat /\ WINDOW \in Nat
  BY WordsAssumption, WindowAssumption
<1>1. CASE by >= WINDOW
  <2>1. ShiftWords(w, by) = NoWords
    BY <1>1 DEF ShiftWords
  <2>2. NoWords \in Bitmaps
    BY DEF NoWords, Bitmaps
  <2>3. ASSUME NEW k \in 0 .. WINDOW - 1 PROVE ~Bit(NoWords, k) /\ ~(by <= k)
    BY <1>0, <1>1, PlaceInWindow DEF Bit, NoWords
  <2> QED
    BY <2>1, <2>2, <2>3
<1>2. CASE ~(by >= WINDOW)
  <2>1. PICK n \in Nat, b \in WordBits : n = by \div WORD /\ b = by % WORD /\ by = WORD * n + b
    BY PlaceOfBit
  <2>2. b \in Nat /\ b < WORD
    BY <2>1, <1>0 DEF WordBits
  <2> DEFINE Word(i) == Up(IF i >= n THEN w[i - n] ELSE {}, b)
                        \cup (IF b > 0 /\ i > n THEN Down(w[i - n - 1], WORD - b) ELSE {})
  <2>3. ShiftWords(w, by) = [i \in WordIndex |-> Word(i)]
    BY <1>2, <2>1 DEF ShiftWords
  <2>4. \A i \in WordIndex : Word(i) \in SUBSET WordBits
    BY DEF Up, Down
  <2>5. ASSUME NEW q \in WordIndex, NEW r \in WordBits
        PROVE  r \in Word(q) <=> \/ q >= n /\ r - b \in w[q - n]
                                 \/ b > 0 /\ q > n /\ r + (WORD - b) \in w[q - n - 1]
    BY DEF Up, Down
  <2> HIDE DEF Word
  <2>6. ShiftWords(w, by) \in Bitmaps
    BY <2>3, <2>4 DEF Bitmaps
  <2>7. ASSUME NEW k \in 0 .. WINDOW - 1
        PROVE  Bit(ShiftWords(w, by), k) <=> by <= k /\ Bit(w, k - by)
    <3>1. k \in Nat /\ k \div WORD \in WordIndex /\ k % WORD \in WordBits
      BY PlaceInWindow
    <3>2. PICK q \in WordIndex, r \in WordBits : q = k \div WORD /\ r = k % WORD /\ k = WORD * q + r
      BY <3>1, PlaceOfBit
    <3>3. Bit(ShiftWords(w, by), k) <=> r \in Word(q)
      BY <2>3, <3>2 DEF Bit
    <3>4. q \in Nat /\ r \in Nat /\ r < WORD /\ by \in Nat /\ WORDS \in Nat /\ q < WORDS
      BY <3>2, <1>0, WordsAssumption DEF WordIndex, WordBits
    <3>5. \A i \in WordIndex : w[i] \subseteq WordBits
      BY DEF Bitmaps
    <3>6. k < by <=> q < n \/ (q = n /\ r < b)
      BY <2>1, <3>2, <3>4, OnePlace
    <3>7. CASE q < n
      <4>1. k < by
        BY <3>6, <3>7
      <4>2. ~(q >= n) /\ ~(q > n)
        BY <3>7, <3>4, <2>1
      <4> QED
        BY <3>3, <4>1, <4>2, <3>1, <3>4, <2>5
    <3>8. CASE q >= n /\ r >= b
      <4>1. by <= k
        BY <3>6, <3>8, <3>1, <3>4, <2>1, <2>2
      <4>2. q - n \in Nat /\ q - n \in WordIndex /\ r - b \in WordBits
        <5>1. q - n \in Nat /\ r - b \in Nat /\ q - n < WORDS /\ r - b < WORD
          BY <3>8, <3>4, <2>1, <2>2, <1>0
        <5> QED
          BY <5>1, <3>4, <1>0 DEF WordIndex, WordBits
      <4>3. k - by \in Nat /\ k - by = WORD * (q - n) + (r - b)
        <5>1. k - by \in Nat
          BY <4>1, <3>1, <3>4
        <5>2. k - by = (WORD * q + r) - (WORD * n + b)
          BY <3>2, <2>1, Zenon
        <5>3. (WORD * q + r) - (WORD * n + b) = WORD * (q - n) + (r - b)
          BY <3>4, <2>1, <2>2, <1>0, BetweenPlaces
        <5> QED
          BY <5>1, <5>2, <5>3, Zenon
      <4>4. Bit(w, k - by) <=> r - b \in w[q - n]
        BY <4>2, <4>3, BitAt
      <4>5. ~(b > 0 /\ q > n /\ r + (WORD - b) \in w[q - n - 1])
        <5> SUFFICES ASSUME q > n, r + (WORD - b) \in w[q - n - 1] PROVE FALSE
          OBVIOUS
        <5>1. q - n - 1 \in WordIndex
          BY <3>4, <2>1 DEF WordIndex
        <5>2. r + (WORD - b) \in WordBits
          BY <5>1, <3>5
        <5> QED
          BY <5>2, <3>8, <3>4, <2>2, <1>0 DEF WordBits
      <4> QED
        BY <3>3, <3>8, <4>1, <4>4, <4>5, <2>5
    <3>9. CASE q = n /\ r < b
      <4>1. k < by
        BY <3>6, <3>9
      <4>2. r - b \notin w[q - n]
        <5>1. q - n \in WordIndex
          BY <3>9, <3>4 DEF WordIndex
        <5>2. r - b \notin WordBits
          BY <3>9, <3>4, <2>2 DEF WordBits
        <5> QED
          BY <5>1, <5>2, <3>5
      <4>3. ~(q > n)
        BY <3>9, <3>4
      <4> QED
        BY <3>3, <4>1, <4>2, <4>3, <3>1, <3>4, <2>5
    <3>10. CASE q > n /\ r < b
      <4>1. by <= k
        BY <3>6, <3>10, <3>1, <3>4, <2>1, <2>2
      <4>2. q - n - 1 \in Nat /\ q - n - 1 \in WordIndex /\ r + (WORD - b) \in WordBits
        BY <3>10, <3>4, <2>1, <2>2, <1>0 DEF WordIndex, WordBits
      <4>3. k - by \in Nat /\ k - by = WORD * (q - n - 1) + (r + (WORD - b))
        <5>1. k - by \in Nat
          BY <4>1, <3>1, <3>4
        <5>2. k - by = (WORD * q + r) - (WORD * n + b)
          BY <3>2, <2>1, Zenon
        <5>3. (WORD * q + r) - (WORD * n + b) = WORD * (q - n - 1) + (r + (WORD - b))
          BY <3>4, <2>1, <2>2, <1>0, BetweenPlaces
        <5> QED
          BY <5>1, <5>2, <5>3, Zenon
      <4>4. Bit(w, k - by) <=> r + (WORD - b) \in w[q - n - 1]
        BY <4>2, <4>3, BitAt
      <4>5. ~(r - b \in w[q - n])
        <5>1. q - n \in WordIndex
          BY <3>10, <3>4, <2>1 DEF WordIndex
        <5>2. r - b \notin WordBits
          BY <3>10, <3>4, <2>2 DEF WordBits
        <5> QED
          BY <5>1, <5>2, <3>5
      <4>6. b > 0 /\ q > n
        BY <3>10, <3>4, <2>2
      <4> QED
        BY <3>3, <4>1, <4>4, <4>5, <4>6, <2>5
    <3> QED
      BY <3>7, <3>8, <3>9, <3>10, <3>4, <2>1, <2>2
  <2> QED
    BY <2>6, <2>7
<1> QED
  BY <1>1, <1>2, <1>0

WordsInv == WindowInv /\ words \in Bitmaps /\ WordsKeepTheWindow

\* What check reads in the words is what the window of distances says.
LEMMA WordsTell ==
    ASSUME NEW p \in Packets, WordsInv
    PROVE  CheckWords(p) <=> Check(p)
<1>1. ASSUME p <= highest, highest - p < WINDOW
      PROVE  Bit(words, highest - p) <=> highest - p \in bits
  <2>1. p \in Nat /\ highest \in Nat
    BY <1>1 DEF WordsInv, WindowInv, WindowTypeOK, Packets, None
  <2>2. highest - p \in 0 .. WINDOW - 1
    BY <1>1, <2>1, WindowAssumption
  <2> QED
    BY <2>2 DEF WordsInv, WordsKeepTheWindow
<1> QED
  BY <1>1 DEF Check, CheckWords

\* Accepting a packet does the same to the words and to the set of distances.
LEMMA AcceptKeepsWords ==
    ASSUME NEW p \in Packets, WordsInv, Accept(p), AcceptWords(p)
    PROVE  words' \in Bitmaps /\ WordsKeepTheWindow'
<1> DEFINE Kept(w) == {k \in 0 .. WINDOW - 1 : Bit(w, k)}
<1>0. /\ words \in Bitmaps /\ bits = Kept(words) /\ p \in Nat /\ WINDOW \in Nat
      /\ 0 \in 0 .. WINDOW - 1 /\ (highest = None \/ highest \in Nat)
  BY WindowAssumption DEF WordsInv, WordsKeepTheWindow, WindowInv, WindowTypeOK, Packets
<1>1. ASSUME NEW w \in Bitmaps, NEW j \in 0 .. WINDOW - 1
      PROVE  SetBit(w, j) \in Bitmaps /\ Kept(SetBit(w, j)) = Kept(w) \cup {j}
  BY SetBitSets
<1>2. ASSUME NEW by \in Nat
      PROVE  ShiftWords(words, by) \in Bitmaps /\ Kept(ShiftWords(words, by)) = Shift(by)
  <2>1. ShiftWords(words, by) \in Bitmaps
    BY <1>0, ShiftShifts
  <2>2. ASSUME NEW k \in 0 .. WINDOW - 1
        PROVE  k \in Kept(ShiftWords(words, by)) <=> k \in Shift(by)
    <3>1. k \in Kept(ShiftWords(words, by)) <=> by <= k /\ Bit(words, k - by)
      BY <1>0, ShiftShifts
    <3>2. k - by \in bits <=> by <= k /\ Bit(words, k - by)
      <4>1. k - by \in 0 .. WINDOW - 1 <=> by <= k
        BY <1>0
      <4> QED
        BY <4>1, <1>0
    <3> QED
      BY <3>1, <3>2 DEF Shift
  <2>3. Shift(by) \subseteq 0 .. WINDOW - 1
    BY DEF Shift
  <2> QED
    BY <2>1, <2>2, <2>3
<1> HIDE DEF Kept
<1>3. words' \in Bitmaps /\ bits' = Kept(words')
  <2>1. CASE highest = None
    <3>1. bits' = bits \cup {0} /\ words' = SetBit(words, 0)
      BY <2>1, <1>0 DEF Accept, AcceptWords
    <3> QED
      BY <3>1, <1>0, <1>1
  <2>2. CASE highest # None /\ p > highest
    <3>1. PICK by \in Nat : by = p - highest
      BY <2>2, <1>0
    <3>2. bits' = Shift(by) \cup {0} /\ words' = SetBit(ShiftWords(words, by), 0)
      BY <2>2, <3>1, <1>0 DEF Accept, AcceptWords
    <3> QED
      BY <3>1, <3>2, <1>0, <1>1, <1>2
  <2>3. CASE highest # None /\ ~(p > highest) /\ highest - p < WINDOW
    <3>1. highest - p \in 0 .. WINDOW - 1 /\ p <= highest
      BY <2>3, <1>0
    <3>2. bits' = bits \cup {highest - p} /\ words' = SetBit(words, highest - p)
      BY <2>3, <3>1, <1>0 DEF Accept, AcceptWords
    <3> QED
      BY <3>1, <3>2, <1>0, <1>1
  <2>4. CASE highest # None /\ ~(p > highest) /\ ~(highest - p < WINDOW)
    <3>1. bits' = bits /\ words' = words
      BY <2>4, <1>0 DEF Accept, AcceptWords
    <3> QED
      BY <3>1, <1>0
  <2> QED
    BY <2>1, <2>2, <2>3, <2>4
<1> QED
  BY <1>3 DEF Kept, WordsKeepTheWindow

\* The bitmap of words, whatever their number and width, is the window: it tells the
\* numbers seen from the new ones as the set of distances does, and so carries out
\* what the window promises.
THEOREM WordsImplementWindow == WordsSpec => WindowSpec /\ []WordsKeepTheWindow
<1>1. WordsInit => WordsInv
  <2> SUFFICES ASSUME WordsInit PROVE WordsInv
    OBVIOUS
  <2>1. NoWords \in Bitmaps
    BY DEF NoWords, Bitmaps
  <2>2. \A k \in 0 .. WINDOW - 1 : ~Bit(NoWords, k)
    BY PlaceInWindow DEF Bit, NoWords
  <2>3. WindowInv
    BY WindowInitially DEF WordsInit
  <2> QED
    BY <2>1, <2>2, <2>3 DEF WordsInit, WindowInit, WordsInv, WordsKeepTheWindow
<1>2. ASSUME WordsInv, WordsNext
      PROVE  WordsInv' /\ WindowNext
  <2>1. PICK p \in Packets : OpenWords(p)
    BY <1>2 DEF WordsNext
  <2>2. Open(p) /\ Accept(p) /\ AcceptWords(p)
    BY <2>1, <1>2, WordsTell DEF OpenWords, Open
  <2>3. WindowInv'
    BY <2>2, <1>2, OpenKeepsWindow DEF WordsInv
  <2>4. words' \in Bitmaps /\ WordsKeepTheWindow'
    BY <2>2, <1>2, AcceptKeepsWords
  <2> QED
    BY <2>2, <2>3, <2>4 DEF WordsInv, WindowNext
<1>3. ASSUME WordsInv, UNCHANGED wordsVars
      PROVE  WordsInv' /\ UNCHANGED windowVars
  BY <1>3 DEF wordsVars, windowVars, WordsInv, WindowInv, WindowTypeOK, WindowIsExact,
              AcceptedOnce, WordsKeepTheWindow
<1>4. WordsInv /\ [WordsNext]_wordsVars => WordsInv' /\ [WindowNext]_windowVars
  BY <1>2, <1>3
<1>5. WordsInit => WindowInit
  BY DEF WordsInit
<1>6. WordsInv => WordsKeepTheWindow
  BY DEF WordsInv
<1> QED
  BY <1>1, <1>4, <1>5, <1>6, PTL DEF WordsSpec, WindowSpec

-----------------------------------------------------------------------------
\* The window of a link is only ever changed by Opener::open.
LEMMA WindowInvariant == Spec => []WindowInv
<1>1. Init => WindowInv
  BY WindowInitially DEF Init
<1>2. WindowInv /\ [Next]_vars => WindowInv'
  <2> SUFFICES ASSUME WindowInv, [Next]_vars PROVE WindowInv'
    OBVIOUS
  <2>1. ASSUME NEW p \in Packets, Arrive(p) PROVE WindowInv'
    BY <2>1, OpenKeepsWindow DEF Arrive
  <2>2. CASE UNCHANGED windowVars
    BY <2>2 DEF windowVars, WindowInv, WindowTypeOK, WindowIsExact, AcceptedOnce
  <2> QED
    BY <2>1, <2>2 DEF Next, vars, Seal, Sample, Lose
<1> QED
  BY <1>1, <1>2, PTL DEF Spec

\* One step of the meter: the period's reports add up.
LEMMA SampleAddsUp ==
    ASSUME MeterInv, Sample
    PROVE  MeterInv'
<1>1. highest \in Nat /\ accepted \in Nat /\ lastAccepted \in Nat /\ sent \in Nat /\ lost \in Nat
      /\ lastHighest \in Int /\ lastHighest >= -1 /\ lastHighest <= highest /\ lastAccepted <= accepted
  BY DEF MeterInv, TypeOK, WindowTypeOK, MeterBehind, Sample, Packets, None
<1> DEFINE n == IF lastHighest = None THEN highest + 1 ELSE Less(highest, lastHighest)
<1>2. n = highest - lastHighest /\ n \in Nat
  BY <1>1 DEF Less, None
<1>3. Less(accepted, lastAccepted) = accepted - lastAccepted
  BY <1>1 DEF Less
<1>4. sent' = sent + n /\ lost' = lost + Less(n, Less(accepted, lastAccepted))
      /\ lastHighest' = highest /\ lastAccepted' = accepted /\ UNCHANGED <<windowVars, next, net>>
  BY DEF Sample
<1> HIDE DEF n
<1>5. lost' \in Nat /\ lost' + accepted >= lost + n + lastAccepted
  BY <1>1, <1>2, <1>3, <1>4 DEF Less
<1>6. LossNotUnderstated'
  BY <1>1, <1>2, <1>4, <1>5 DEF MeterInv, LossNotUnderstated
<1>7. TypeOK' /\ MeterBehind'
  BY <1>1, <1>2, <1>4, <1>5 DEF MeterInv, TypeOK, WindowTypeOK, MeterBehind, windowVars
<1> QED
  BY <1>6, <1>7 DEF MeterInv

\* Every step of a link keeps what the loss meter relies on.
LEMMA MeterStep ==
    ASSUME WindowInv, MeterInv, [Next]_vars
    PROVE  MeterInv'
<1>1. CASE Seal
  BY <1>1, WindowAssumption DEF Seal, MeterInv, TypeOK, WindowTypeOK, MeterBehind,
     LossNotUnderstated, windowVars, meterVars, Packets
<1>2. CASE Sample
  BY <1>2, SampleAddsUp
<1>3. ASSUME NEW p \in Packets, Lose(p) PROVE MeterInv'
  BY <1>3 DEF Lose, MeterInv, TypeOK, WindowTypeOK, MeterBehind,
     LossNotUnderstated, windowVars, meterVars
<1>4. ASSUME NEW p \in Packets, Arrive(p) PROVE MeterInv'
  <2>1. WindowTypeOK' /\ highest' \in Packets /\ highest <= highest' /\ accepted' = accepted + 1
    BY <1>4, OpenKeepsTypes DEF Arrive
  <2>2. MeterBehind'
    BY <1>4, <2>1 DEF Arrive, MeterInv, TypeOK, WindowTypeOK, MeterBehind, meterVars, Packets, None
  <2> QED
    BY <1>4, <2>1, <2>2 DEF Arrive, MeterInv, TypeOK, LossNotUnderstated, meterVars
<1>5. CASE UNCHANGED vars
  BY <1>5 DEF vars, MeterInv, TypeOK, WindowTypeOK, MeterBehind,
     LossNotUnderstated, windowVars, meterVars
<1> QED
  BY <1>1, <1>2, <1>3, <1>4, <1>5 DEF Next

\* The link's state keeps its types, packet numbers below MaxPacket included.
THEOREM LinkTypes == Spec => []TypeOK
<1>1. Init => MeterInv
  BY WindowAssumption DEF Init, WindowInit, MeterInv, TypeOK, WindowTypeOK, MeterBehind,
     LossNotUnderstated, None, Packets
<1>2. WindowInv /\ MeterInv /\ [Next]_vars => MeterInv'
  BY MeterStep
<1>3. MeterInv => TypeOK
  BY DEF MeterInv
<1> QED
  BY <1>1, <1>2, <1>3, WindowInvariant, PTL DEF Spec

\* With a network that loses, reorders and repeats: each packet number is
\* accepted once (Opener::open).
THEOREM LinkAcceptsOnce == Spec => []AcceptedOnce
<1>1. WindowInv => AcceptedOnce
  BY DEF WindowInv
<1> QED
  BY <1>1, WindowInvariant, PTL

\* The reports of LossMeter::sample cover each number once and never
\* understate the loss.
THEOREM LossReported == Spec => []LossNotUnderstated
<1>1. Init => MeterInv
  BY WindowAssumption DEF Init, WindowInit, MeterInv, TypeOK, WindowTypeOK, MeterBehind,
     LossNotUnderstated, None, Packets
<1>2. WindowInv /\ MeterInv /\ [Next]_vars => MeterInv'
  BY MeterStep
<1>3. MeterInv => LossNotUnderstated
  BY DEF MeterInv
<1> QED
  BY <1>1, <1>2, <1>3, WindowInvariant, PTL DEF Spec

-----------------------------------------------------------------------------
\* Arithmetic modulo a number.
LEMMA ModSame == ASSUME NEW W \in Nat \ {0}, NEW a \in Int, 0 <= a, a < W PROVE a % W = a
  OBVIOUS
LEMMA ModAbove == ASSUME NEW W \in Nat \ {0}, NEW a \in Int, W <= a, a < 2 * W PROVE a % W = a - W
  OBVIOUS
LEMMA ModBelow == ASSUME NEW W \in Nat \ {0}, NEW a \in Int, - W <= a, a < 0 PROVE a % W = a + W
  OBVIOUS
LEMMA HalfOf ==
    ASSUME NEW W \in Nat \ {0}, NEW n \in Nat, 2 * n < W
    PROVE  n <= W \div 2 /\ W - n >= W \div 2 /\ W \div 2 \in Nat
  OBVIOUS

\* A frame's number gives back its place in the stream.
LEMMA NumberIndex ==
    ASSUME NEW i \in Nat, i < WRAP
    PROVE  Number(i) \in 0 .. WRAP - 1 /\ Index(Number(i)) = i
<1>1. WRAP \in Nat \ {0} /\ FIRST \in Nat /\ FIRST < WRAP
  BY RecoveryAssumption
<1>2. CASE FIRST + i < WRAP
  <2>1. Number(i) = FIRST + i
    BY <1>1, <1>2, ModSame DEF Number
  <2>2. (FIRST + i - FIRST) % WRAP = i
    BY <1>1, ModSame
  <2> QED
    BY <1>1, <1>2, <2>1, <2>2 DEF Index
<1>3. CASE FIRST + i >= WRAP
  <2>1. Number(i) = FIRST + i - WRAP
    <3>1. PICK a \in Int : a = FIRST + i
      BY <1>1
    <3>2. WRAP <= a /\ a < 2 * WRAP
      BY <1>1, <1>3, <3>1
    <3>3. a % WRAP = a - WRAP
      BY <1>1, <3>2, ModAbove
    <3> QED
      BY <1>1, <3>1, <3>3 DEF Number
  <2>2. (i - WRAP) % WRAP = i
    <3>1. (i - WRAP) % WRAP = i - WRAP + WRAP
      BY <1>1, ModBelow
    <3> QED
      BY <1>1, <3>1
  <2>3. FIRST + i - WRAP - FIRST = i - WRAP
    BY <1>1
  <2> QED
    BY <1>1, <1>3, <2>1, <2>2, <2>3 DEF Index
<1> QED
  BY <1>1, <1>2, <1>3

\* Later in the stream is newer, as long as the numbers span less than half the wrap.
LEMMA NewerNumber ==
    ASSUME NEW n \in Nat, 2 * n < WRAP, NEW i \in 0 .. n - 1, NEW j \in 0 .. n - 1
    PROVE  Newer(Number(i), Number(j)) <=> i > j
<1>1. WRAP \in Nat \ {0} /\ FIRST \in Nat /\ FIRST < WRAP
  BY RecoveryAssumption
<1>2. n <= WRAP \div 2 /\ WRAP - n >= WRAP \div 2 /\ WRAP \div 2 \in Nat
  BY <1>1, HalfOf
<1>3. i \in Nat /\ j \in Nat /\ i < n /\ j < n /\ i < WRAP /\ j < WRAP
  BY <1>1, <1>2
<1>4. /\ Number(i) = FIRST + i \/ Number(i) = FIRST + i - WRAP
      /\ Number(j) = FIRST + j \/ Number(j) = FIRST + j - WRAP
      /\ Number(i) \in 0 .. WRAP - 1 /\ Number(j) \in 0 .. WRAP - 1
  <2>1. ASSUME NEW k \in Nat, k < WRAP
        PROVE  Number(k) = FIRST + k \/ Number(k) = FIRST + k - WRAP
    <3>1. CASE FIRST + k < WRAP
      BY <1>1, <3>1, <2>1, ModSame DEF Number
    <3>2. CASE FIRST + k >= WRAP
      <4>1. PICK a \in Int : a = FIRST + k
        BY <1>1, <2>1
      <4>2. WRAP <= a /\ a < 2 * WRAP
        BY <1>1, <2>1, <3>2, <4>1
      <4>3. a % WRAP = a - WRAP
        BY <1>1, <4>2, ModAbove
      <4> QED
        BY <1>1, <2>1, <4>1, <4>3 DEF Number
    <3> QED
      BY <1>1, <2>1, <3>1, <3>2
  <2> QED
    BY <2>1, <1>3, NumberIndex
<1>5. PICK d \in Int : d = Number(i) - Number(j)
  BY <1>1, <1>4
<1>6. d \in {i - j, i - j - WRAP, i - j + WRAP} /\ - WRAP < d /\ d < WRAP
  BY <1>1, <1>3, <1>4, <1>5
<1>7. CASE i = j
  BY <1>7, <1>3 DEF Newer
<1>8. CASE i > j
  <2>1. d % WRAP = i - j
    <3>1. CASE d >= 0
      <4>1. d = i - j
        BY <1>1, <1>3, <1>6, <1>8, <3>1
      <4> QED
        BY <4>1, <3>1, <1>6, <1>1, ModSame
    <3>2. CASE d < 0
      <4>1. d = i - j - WRAP
        BY <1>1, <1>3, <1>6, <1>8, <3>2
      <4>2. d % WRAP = d + WRAP
        BY <3>2, <1>6, <1>1, ModBelow
      <4> QED
        BY <4>1, <4>2, <1>1, <1>3
    <3> QED
      BY <1>5, <3>1, <3>2
  <2>2. i - j < WRAP \div 2
    BY <1>2, <1>3, <1>8
  <2>3. Number(i) # Number(j)
    BY <1>3, <1>8, NumberIndex
  <2> QED
    BY <1>3, <1>5, <1>8, <2>1, <2>2, <2>3 DEF Newer
<1>9. CASE i < j
  <2>1. d % WRAP = i - j + WRAP
    <3>1. CASE d >= 0
      <4>1. d = i - j + WRAP
        BY <1>1, <1>3, <1>6, <1>9, <3>1
      <4> QED
        BY <4>1, <3>1, <1>6, <1>1, ModSame
    <3>2. CASE d < 0
      <4>1. d = i - j
        BY <1>1, <1>3, <1>6, <1>9, <3>2
      <4>2. d % WRAP = d + WRAP
        BY <3>2, <1>6, <1>1, ModBelow
      <4> QED
        BY <4>1, <4>2, <1>1, <1>3
    <3> QED
      BY <1>5, <3>1, <3>2
  <2>2. ~ (i - j + WRAP < WRAP \div 2)
    BY <1>1, <1>2, <1>3, <1>9
  <2> QED
    BY <1>3, <1>5, <1>9, <2>1, <2>2 DEF Newer
<1> QED
  BY <1>3, <1>7, <1>8, <1>9

\* A set of numbers that is not empty has a least one.
LEMMA LeastOf ==
    ASSUME NEW S, S \subseteq Nat, S # {}
    PROVE  \E i \in S : \A j \in S : i <= j
<1>1. PICK R : R = OpToRel(<, Nat)
  OBVIOUS
<1>2. PICK i \in S : \A j \in S : ~ (<<j, i>> \in R)
  <2>1. IsWellFoundedOn(R, Nat)
    BY <1>1, NatLessThanWellFounded
  <2> QED
    BY <2>1, WFMin
<1>3. \A j \in S : <<j, i>> \in R <=> j < i
  BY <1>1 DEF OpToRel
<1>4. ASSUME NEW j \in S PROVE i <= j
  <2>1. ~ (j < i)
    BY <1>2, <1>3
  <2>2. i \in Nat /\ j \in Nat
    OBVIOUS
  <2> QED
    BY <2>1, <2>2
<1> QED
  BY <1>4

\* A part of a finite set and the rest of it.
LEMMA CardinalityOfRest ==
    ASSUME NEW S, IsFiniteSet(S), NEW T, T \subseteq S
    PROVE  /\ IsFiniteSet(T) /\ IsFiniteSet(S \ T)
           /\ Cardinality(S) \in Nat /\ Cardinality(T) \in Nat /\ Cardinality(S \ T) \in Nat
           /\ Cardinality(S \ T) = Cardinality(S) - Cardinality(T)
<1>1. IsFiniteSet(T) /\ IsFiniteSet(S \ T)
  BY FS_Subset
<1>2. Cardinality(S) \in Nat /\ Cardinality(T) \in Nat /\ Cardinality(S \ T) \in Nat
  BY <1>1, FS_CardinalityType
<1>3. T \cup (S \ T) = S /\ T \cap (S \ T) = {}
  OBVIOUS
<1>4. Cardinality(T \cup (S \ T)) = Cardinality(T) + Cardinality(S \ T) - Cardinality(T \cap (S \ T))
  BY <1>1, FS_Union
<1>5. Cardinality({}) = 0
  BY FS_EmptySet
<1>6. Cardinality(S) = Cardinality(T) + Cardinality(S \ T) - 0
  BY <1>3, <1>4, <1>5
<1>7. Cardinality(S \ T) = Cardinality(S) - Cardinality(T)
  BY <1>2, <1>6
<1> QED
  BY <1>1, <1>2, <1>7

-----------------------------------------------------------------------------
(* Frames and their recovery. *)

\* The numbers of the frames sent.
SentNumbers == {Number(i) : i \in 0 .. framesSent - 1}

\* Whatever is under way or kept is of the frames sent.
OfTheStream ==
    /\ \A p \in packets : p.frame \in SentNumbers
    /\ \A n \in nacks : n.frame \in SentNumbers
    /\ pending \subseteq SentNumbers
    /\ delivered \in Seq(SentNumbers)

\* The stream is at the last frame delivered.
AtTheLast == lastDelivered = IF delivered = <<>> THEN NothingYet ELSE delivered[Len(delivered)]

\* A frame held waits for a block, and is later than the last one delivered.
Waiting(f) ==
    /\ lastDelivered # NothingYet => Index(f) > Index(lastDelivered)
    /\ IsFiniteSet(have[f])
    /\ \E b \in 1 .. BLOCKS : ~ Whole(have[f], b)

HeldWaits ==
    /\ \A f \in pending : Waiting(f)
    /\ \A f \in Numbers \ pending : have[f] = {}

Counted == DropsAreCounted /\ started \in Nat /\ droppedFrames \in Nat

FramesInv ==
    /\ RecoveryTypes /\ OfTheStream /\ DeliveredInOrder /\ AtTheLast /\ HeldWaits /\ Counted

LEMMA SentNumbersAre ==
    ASSUME RecoveryTypes
    PROVE  /\ \A f \in SentNumbers : f \in Numbers /\ f \in Nat /\ Index(f) \in 0 .. framesSent - 1
           /\ framesSent \in Nat /\ 2 * framesSent < WRAP
           /\ IsFiniteSet(SentNumbers)
<1>1. /\ framesSent \in Nat /\ framesSent <= link.frames /\ link \in Links /\ link.frames \in Nat
      /\ 2 * link.frames < WRAP /\ WRAP \in Nat
  BY RecoveryAssumption DEF RecoveryTypes
<1>2. 2 * framesSent < WRAP
  BY <1>1
<1>3. ASSUME NEW i \in 0 .. framesSent - 1
      PROVE  Number(i) \in Numbers /\ Number(i) \in 0 .. WRAP - 1 /\ Index(Number(i)) = i
  <2>1. i \in 0 .. link.frames - 1 /\ i \in Nat /\ i < WRAP
    BY <1>1
  <2> QED
    BY <2>1, <1>1, NumberIndex DEF Numbers
<1>4. IsFiniteSet(SentNumbers)
  <2>1. SentNumbers \subseteq 0 .. WRAP - 1
    BY <1>3 DEF SentNumbers
  <2>2. IsFiniteSet(0 .. WRAP - 1)
    BY <1>1, FS_Interval
  <2> QED
    BY <2>1, <2>2, FS_Subset
<1> QED
  BY <1>1, <1>2, <1>3, <1>4 DEF SentNumbers

\* Numbers compare as the frames do, over the wrap too.
LEMMA NewerIsLater ==
    ASSUME RecoveryTypes, NEW f \in SentNumbers, NEW g \in SentNumbers
    PROVE  Newer(f, g) <=> Index(f) > Index(g)
<1>1. framesSent \in Nat /\ 2 * framesSent < WRAP
  BY SentNumbersAre
<1>2. PICK i \in 0 .. framesSent - 1 : f = Number(i)
  BY DEF SentNumbers
<1>3. PICK j \in 0 .. framesSent - 1 : g = Number(j)
  BY DEF SentNumbers
<1>4. WRAP \in Nat
  BY RecoveryAssumption
<1>5. i \in Nat /\ j \in Nat /\ i < WRAP /\ j < WRAP
  BY <1>1, <1>4
<1>6. Index(f) = i /\ Index(g) = j
  BY <1>2, <1>3, <1>5, NumberIndex
<1>7. Newer(f, g) <=> i > j
  BY <1>1, <1>2, <1>3, NewerNumber
<1> QED
  BY <1>6, <1>7

\* The frame that makes room is one of those held.
LEMMA OldestIsHeld ==
    ASSUME RecoveryTypes, pending \subseteq SentNumbers, pending # {}
    PROVE  Oldest \in pending
<1>1. \A f \in pending : Index(f) \in Nat
  BY SentNumbersAre
<1>2. PICK i \in {Index(f) : f \in pending} : \A j \in {Index(f) : f \in pending} : i <= j
  BY <1>1, LeastOf
<1>3. PICK f \in pending : i = Index(f)
  BY <1>2
<1>4. ASSUME NEW g \in pending PROVE ~ Newer(f, g)
  <2>1. Index(f) <= Index(g) /\ Index(f) \in Nat /\ Index(g) \in Nat
    BY <1>1, <1>2, <1>3
  <2>2. Newer(f, g) <=> Index(f) > Index(g)
    BY NewerIsLater
  <2> QED
    BY <2>1, <2>2
<1>5. \E h \in pending : \A g \in pending : ~ Newer(h, g)
  BY <1>4
<1> QED
  BY <1>5 DEF Oldest

\* Letting a packet in begins its frame, if need be in the place of another.
LEMMA StartsOne ==
    ASSUME FramesInv, NEW f \in SentNumbers
    PROVE  /\ Start(f) \subseteq SentNumbers /\ f \in Start(f) /\ Start(f) \subseteq pending \cup {f}
           /\ IsFiniteSet(pending) /\ IsFiniteSet(Start(f))
           /\ Cardinality(pending) \in Nat /\ Cardinality(Start(f)) \in Nat
           /\ Cardinality(pending \ Start(f)) \in Nat
           /\ Cardinality(Start(f)) <= MAX_IN_FLIGHT
           /\ Cardinality(Start(f)) + Cardinality(pending \ Start(f))
                = Cardinality(pending) + (IF f \in pending THEN 0 ELSE 1)
<1>1. /\ RecoveryTypes /\ pending \subseteq SentNumbers /\ Cardinality(pending) <= MAX_IN_FLIGHT
      /\ MAX_IN_FLIGHT \in Nat \ {0}
  BY RecoveryAssumption DEF FramesInv, RecoveryTypes, OfTheStream
<1>2. IsFiniteSet(pending) /\ Cardinality(pending) \in Nat
  BY <1>1, SentNumbersAre, FS_Subset, FS_CardinalityType
<1>3. IsFiniteSet({}) /\ Cardinality({}) = 0
  BY FS_EmptySet
<1>4. CASE f \in pending
  <2>1. Start(f) = pending /\ pending \ Start(f) = {}
    BY <1>4 DEF Start
  <2> QED
    BY <1>1, <1>2, <1>3, <1>4, <2>1
<1>5. CASE f \notin pending /\ ~ Cardinality(pending) >= MAX_IN_FLIGHT
  <2>1. Start(f) = pending \cup {f} /\ pending \ Start(f) = {}
    BY <1>5 DEF Start
  <2>2. IsFiniteSet(pending \cup {f}) /\ Cardinality(pending \cup {f}) = Cardinality(pending) + 1
    BY <1>2, <1>5, FS_AddElement
  <2> QED
    BY <1>1, <1>2, <1>3, <1>5, <2>1, <2>2
<1>6. CASE f \notin pending /\ Cardinality(pending) >= MAX_IN_FLIGHT
  <2>1. pending # {}
    BY <1>1, <1>3, <1>6
  <2>2. PICK o \in pending : o = Oldest
    BY <1>1, <2>1, OldestIsHeld
  <2>3. Start(f) = (pending \ {o}) \cup {f} /\ pending \ Start(f) = {o} /\ f \notin pending \ {o}
    BY <1>6, <2>2 DEF Start
  <2>4. IsFiniteSet(pending \ {o}) /\ Cardinality(pending \ {o}) = Cardinality(pending) - 1
    BY <1>2, FS_RemoveElement
  <2>5. /\ IsFiniteSet((pending \ {o}) \cup {f})
        /\ Cardinality((pending \ {o}) \cup {f}) = Cardinality(pending \ {o}) + 1
    BY <2>3, <2>4, FS_AddElement
  <2>6. Cardinality({o}) = 1
    BY FS_Singleton
  <2>7. IsFiniteSet(Start(f)) /\ Cardinality(Start(f)) = Cardinality(pending)
    BY <1>2, <2>3, <2>4, <2>5
  <2>8. Cardinality(pending \ Start(f)) = 1
    BY <2>3, <2>6
  <2>9. Start(f) \subseteq SentNumbers /\ f \in Start(f) /\ Start(f) \subseteq pending \cup {f}
    BY <1>1, <2>3
  <2> QED
    BY <1>1, <1>2, <1>6, <2>7, <2>8, <2>9
<1> QED
  BY <1>4, <1>5, <1>6

\* A block that is not whole lacks a data shard.
LEMMA WaitingMisses ==
    ASSUME NEW f, IsFiniteSet(have[f]), NEW b \in 1 .. BLOCKS, ~ Whole(have[f], b)
    PROVE  Missing(f) # {}
<1>1. SUFFICES ASSUME Missing(f) = {} PROVE FALSE
  OBVIOUS
<1>2. K \in Nat \ {0}
  BY RecoveryAssumption
<1>3. PICK H : H = {s \in have[f] : s[1] = b}
  OBVIOUS
<1>4. IsFiniteSet(H) /\ Cardinality(H) \in Nat
  BY <1>3, FS_Subset, FS_CardinalityType
<1>5. ASSUME NEW k \in 1 .. K PROVE <<b, k>> \in H
  <2>1. <<b, k>> \in Data /\ <<b, k>>[1] = b
    BY DEF Data
  <2>2. <<b, k>> \in have[f]
    BY <1>1, <2>1 DEF Missing
  <2> QED
    BY <1>3, <2>1, <2>2
<1>6. [k \in 1 .. K |-> <<b, k>>] \in Injection(1 .. K, H)
  <2>1. PICK m : m = [k \in 1 .. K |-> <<b, k>>]
    OBVIOUS
  <2>2. m \in [1 .. K -> H] /\ \A k, l \in DOMAIN m : m[k] = m[l] => k = l
    BY <1>5, <2>1
  <2> QED
    BY <2>1, <2>2 DEF Injection, IsInjective
<1>7. Cardinality(1 .. K) <= Cardinality(H)
  BY <1>4, <1>6, FS_Injection
<1>8. Cardinality(1 .. K) = K
  BY <1>2, FS_Interval
<1> QED
  BY <1>3, <1>7, <1>8 DEF Whole

\* At first nothing was sent, held or delivered.
LEMMA RecoveryStarts == ASSUME RecoveryInit PROVE FramesInv
<1> USE DEF RecoveryInit
<1>1. RecoveryTypes
  <2>1. Cardinality({}) = 0
    BY FS_EmptySet
  <2>2. link.frames \in Nat
    BY RecoveryAssumption
  <2> QED
    BY <2>1, <2>2, RecoveryAssumption DEF RecoveryTypes, SentNumbers
<1>2. OfTheStream /\ DeliveredInOrder /\ AtTheLast /\ HeldWaits
  BY DEF OfTheStream, DeliveredInOrder, AtTheLast, HeldWaits
<1>3. Counted
  <2>1. Cardinality({}) = 0 /\ Len(<<>>) = 0
    BY FS_EmptySet
  <2> QED
    BY <2>1 DEF Counted, DropsAreCounted
<1> QED
  BY <1>1, <1>2, <1>3 DEF FramesInv

\* The shards and the gap are those of the link.
LEMMA LinkStays ==
    ASSUME link' = link PROVE Shards' = Shards /\ NACK_GAP' = NACK_GAP /\ SeenRecords' = SeenRecords
  BY DEF Shards, Parity, NACK_GAP, SeenRecords

LEMMA MoreNumbers ==
    ASSUME NEW m \in Nat, NEW n \in Nat, m <= n
    PROVE  {Number(i) : i \in 0 .. m - 1} \subseteq {Number(i) : i \in 0 .. n - 1}
  OBVIOUS

\* What the sending side does changes nothing of what is put together.
LEMMA SenderLeavesFrames ==
    ASSUME FramesInv, link' = link, UNCHANGED frameVars, framesSent' \in Nat,
           framesSent <= framesSent',
           \A p \in packets' : p.frame \in SentNumbers', \A n \in nacks' : n.frame \in SentNumbers'
    PROVE  OfTheStream' /\ DeliveredInOrder' /\ AtTheLast' /\ HeldWaits' /\ Counted'
<1> USE DEF frameVars
<1>1. framesSent \in Nat
  BY SentNumbersAre DEF FramesInv
<1>2. SentNumbers \subseteq SentNumbers'
  BY <1>1, MoreNumbers DEF SentNumbers
<1>3. OfTheStream'
  <2>1. pending' \subseteq SentNumbers'
    BY <1>2 DEF FramesInv, OfTheStream
  <2>2. delivered' \in Seq(SentNumbers')
    <3>1. PICK S : S = SentNumbers
      OBVIOUS
    <3>2. PICK T : T = SentNumbers'
      OBVIOUS
    <3>3. delivered \in Seq(S) /\ S \subseteq T
      BY <1>2, <3>1, <3>2 DEF FramesInv, OfTheStream
    <3>4. delivered \in Seq(T)
      BY <3>3
    <3> QED
      BY <3>2, <3>4
  <2> QED
    BY <2>1, <2>2 DEF OfTheStream
<1>4. DeliveredInOrder' /\ AtTheLast'
  BY DEF FramesInv, DeliveredInOrder, AtTheLast
<1>5. HeldWaits'
  BY DEF FramesInv, HeldWaits, Waiting, Whole
<1>6. Counted'
  BY DEF FramesInv, Counted, DropsAreCounted
<1> QED
  BY <1>3, <1>4, <1>5, <1>6

LEMMA SendKeeps == ASSUME FramesInv, Send, link' = link PROVE FramesInv'
<1>1. /\ RecoveryTypes /\ link \in Links /\ link.frames \in Nat /\ framesSent \in Nat
      /\ framesSent < link.frames
  BY RecoveryAssumption DEF FramesInv, RecoveryTypes, Send
<1>2. Number(framesSent) \in Numbers
  BY <1>1 DEF Numbers
<1>3. Shards' = Shards /\ NACK_GAP' = NACK_GAP /\ SeenRecords' = SeenRecords
  BY LinkStays
<1>4. Number(framesSent) \in SentNumbers' /\ SentNumbers \subseteq SentNumbers'
  BY <1>1 DEF Send, SentNumbers
<1>5. RecoveryTypes'
  <2>1. framesSent' \in 0 .. link'.frames
    BY <1>1 DEF Send
  <2>2. ASSUME NEW p \in packets'
        PROVE  p.frame \in Numbers /\ p.shard \in Shards /\ p.copy \in 0 .. MAX_RESENDS
    <3>1. CASE p \in packets
      BY <3>1, <1>1 DEF RecoveryTypes
    <3>2. CASE p \notin packets
      <4>1. PICK s \in Shards : p = [frame |-> Number(framesSent), shard |-> s, copy |-> 0]
        BY <3>2 DEF Send
      <4>2. p.frame = Number(framesSent) /\ p.shard = s /\ p.copy = 0
        BY <4>1
      <4> QED
        BY <4>2, <1>2, RecoveryAssumption
    <3> QED
      BY <3>1, <3>2
  <2> QED
    BY <1>1, <1>3, <2>1, <2>2 DEF RecoveryTypes, Send, frameVars, detectorVars
<1>6. ASSUME NEW p \in packets' PROVE p.frame \in SentNumbers'
  <2>1. CASE p \in packets
    BY <2>1, <1>4 DEF FramesInv, OfTheStream
  <2>2. CASE p \notin packets
    BY <2>2, <1>4 DEF Send
  <2> QED
    BY <2>1, <2>2
<1>7. \A n \in nacks' : n.frame \in SentNumbers'
  BY <1>4 DEF FramesInv, OfTheStream, Send
<1>8. framesSent' \in Nat /\ framesSent <= framesSent' /\ UNCHANGED frameVars
  BY <1>1 DEF Send
<1>9. OfTheStream' /\ DeliveredInOrder' /\ AtTheLast' /\ HeldWaits' /\ Counted'
  BY <1>6, <1>7, <1>8, SenderLeavesFrames
<1> QED
  BY <1>5, <1>9 DEF FramesInv

LEMMA RespondKeeps ==
    ASSUME FramesInv, NEW n \in nacks, Respond(n), link' = link PROVE FramesInv'
<1>1. PICK again : again = IF n.frame \in Remembered
                           THEN {d \in n.fragments : resends[n.frame][d] < MAX_RESENDS}
                           ELSE {}
  OBVIOUS
<1>2. /\ nacks' = nacks \ {n}
      /\ packets' = packets \cup
            {[frame |-> n.frame, shard |-> d, copy |-> resends[n.frame][d] + 1] : d \in again}
      /\ resends' = [resends EXCEPT ![n.frame] =
                        [d \in Data |-> IF d \in again THEN @[d] + 1 ELSE @[d]]]
      /\ UNCHANGED <<framesSent, frameVars, detectorVars>>
  BY <1>1 DEF Respond
<1>3. /\ RecoveryTypes /\ n.frame \in Numbers /\ n.fragments \subseteq Data
      /\ resends \in [Numbers -> [Data -> 0 .. MAX_RESENDS]] /\ MAX_RESENDS \in Nat
  BY RecoveryAssumption DEF FramesInv, RecoveryTypes
<1>4. again \subseteq Data /\ \A d \in again : resends[n.frame][d] \in 0 .. MAX_RESENDS - 1
  BY <1>1, <1>3
<1>5. Shards' = Shards /\ NACK_GAP' = NACK_GAP /\ SeenRecords' = SeenRecords
  BY LinkStays
<1>6. n.frame \in SentNumbers /\ SentNumbers' = SentNumbers
  BY <1>2 DEF FramesInv, OfTheStream, SentNumbers
<1>7. RecoveryTypes'
  <2>1. resends' \in [Numbers -> [Data -> 0 .. MAX_RESENDS]]
    <3>1. PICK r : r = resends[n.frame]
      OBVIOUS
    <3>2. r \in [Data -> 0 .. MAX_RESENDS] /\ \A d \in again : r[d] \in 0 .. MAX_RESENDS - 1
      BY <1>3, <1>4, <3>1
    <3>3. PICK q : q = [d \in Data |-> IF d \in again THEN r[d] + 1 ELSE r[d]]
      OBVIOUS
    <3>4. q \in [Data -> 0 .. MAX_RESENDS]
      BY <1>3, <3>2, <3>3
    <3>5. resends' = [resends EXCEPT ![n.frame] = q]
      BY <1>2, <3>1, <3>3
    <3> QED
      BY <1>3, <3>4, <3>5
  <2>2. ASSUME NEW p \in packets'
        PROVE  p.frame \in Numbers /\ p.shard \in Shards /\ p.copy \in 0 .. MAX_RESENDS
    <3>1. CASE p \in packets
      BY <3>1, <1>3 DEF RecoveryTypes
    <3>2. CASE p \notin packets
      <4>1. PICK d \in again : p = [frame |-> n.frame, shard |-> d, copy |-> resends[n.frame][d] + 1]
        BY <3>2, <1>2
      <4>2. p.frame = n.frame /\ p.shard = d /\ p.copy = resends[n.frame][d] + 1
        BY <4>1
      <4>3. resends[n.frame][d] \in 0 .. MAX_RESENDS - 1
        BY <1>4
      <4> QED
        BY <4>2, <4>3, <1>3, <1>4 DEF Shards
    <3> QED
      BY <3>1, <3>2
  <2>3. \A m \in nacks' : m.frame \in Numbers /\ m.fragments \subseteq Data
    BY <1>2, <1>3 DEF RecoveryTypes
  <2> QED
    BY <1>2, <1>3, <1>5, <2>1, <2>2, <2>3 DEF RecoveryTypes, frameVars, detectorVars
<1>8. ASSUME NEW p \in packets' PROVE p.frame \in SentNumbers'
  <2>1. CASE p \in packets
    BY <2>1, <1>6 DEF FramesInv, OfTheStream
  <2>2. CASE p \notin packets
    BY <2>2, <1>2, <1>6
  <2> QED
    BY <2>1, <2>2
<1>9. \A m \in nacks' : m.frame \in SentNumbers'
  BY <1>2, <1>6 DEF FramesInv, OfTheStream
<1>10. framesSent' \in Nat /\ framesSent <= framesSent' /\ UNCHANGED frameVars
  BY <1>2, <1>3, SentNumbersAre
<1>11. OfTheStream' /\ DeliveredInOrder' /\ AtTheLast' /\ HeldWaits' /\ Counted'
  BY <1>8, <1>9, <1>10, SenderLeavesFrames
<1> QED
  BY <1>7, <1>11 DEF FramesInv

\* The detector gives up what is late and asks for what is not.
LEMMA PollKeeps == ASSUME FramesInv, Poll, link' = link PROVE FramesInv'
<1>1. PICK looked : looked = [f \in pending |-> IF f \in DOMAIN seen THEN seen[f]
                                                ELSE [age |-> 0, nacks |-> 0, since |-> 0]]
  OBVIOUS
<1>2. PICK late : late = {f \in pending : Past(looked[f])}
  OBVIOUS
<1>3. PICK ask : ask = {f \in pending \ late : Askable(looked[f])}
  OBVIOUS
<1>4. /\ pending' = pending \ late
      /\ have' = [f \in Numbers |-> IF f \in late THEN {} ELSE have[f]]
      /\ droppedFrames' = droppedFrames + Cardinality(late)
      /\ seen' = [f \in pending \ late |->
                     IF f \in ask THEN [looked[f] EXCEPT !.nacks = @ + 1, !.since = 0] ELSE looked[f]]
      /\ nacks' = nacks \cup {[frame |-> f, fragments |-> Missing(f)] : f \in ask}
      /\ sinceRefresh' = sinceRefresh \/ sinceRefresh' = 0
      /\ UNCHANGED <<senderVars, lastDelivered, delivered, started>>
  BY <1>1, <1>2, <1>3 DEF Poll, Abandoned
<1>5. /\ RecoveryTypes /\ pending \subseteq SentNumbers /\ pending \subseteq Numbers
      /\ IsFiniteSet(pending) /\ link \in Links /\ link.rtt \in Nat /\ NACK_GAP \in Nat
      /\ DEADLINE \in Nat /\ MAX_NACKS \in Nat /\ REFRESH_GAP \in Nat
  <2>1. RecoveryTypes /\ pending \subseteq SentNumbers /\ pending \subseteq Numbers /\ link \in Links
    BY DEF FramesInv, OfTheStream, RecoveryTypes
  <2>2. IsFiniteSet(pending)
    BY <2>1, SentNumbersAre, FS_Subset
  <2>3. link.rtt \in Nat /\ DEADLINE \in Nat /\ MAX_NACKS \in Nat /\ REFRESH_GAP \in Nat
    BY <2>1, RecoveryAssumption
  <2> QED
    BY <2>1, <2>2, <2>3 DEF NACK_GAP
<1>6. Shards' = Shards /\ NACK_GAP' = NACK_GAP /\ SeenRecords' = SeenRecords
  BY LinkStays
<1>7. SentNumbers' = SentNumbers /\ late \subseteq pending
  BY <1>2, <1>4 DEF SentNumbers, senderVars
<1>8. \A f \in pending : looked[f] \in SeenRecords
  <2>1. [age |-> 0, nacks |-> 0, since |-> 0] \in SeenRecords
    BY <1>5 DEF SeenRecords
  <2> QED
    BY <1>1, <1>5, <2>1 DEF RecoveryTypes
<1>9. /\ Cardinality(pending \ late) = Cardinality(pending) - Cardinality(late)
      /\ Cardinality(pending \ late) \in Nat /\ Cardinality(pending) \in Nat /\ Cardinality(late) \in Nat
  BY <1>5, <1>7, CardinalityOfRest
<1>10. RecoveryTypes'
  <2>1. pending' \subseteq Numbers /\ Cardinality(pending') <= MAX_IN_FLIGHT
    <3>1. Cardinality(pending) <= MAX_IN_FLIGHT /\ MAX_IN_FLIGHT \in Nat
      BY <1>5, RecoveryAssumption DEF RecoveryTypes
    <3>2. pending' = pending \ late
      BY <1>4
    <3>3. Cardinality(pending \ late) <= MAX_IN_FLIGHT
      BY <1>9, <3>1
    <3> QED
      BY <1>5, <3>2, <3>3
  <2>2. have' \in [Numbers -> SUBSET Shards]
    BY <1>4, <1>5 DEF RecoveryTypes
  <2>3. DOMAIN seen' \subseteq Numbers
    BY <1>4, <1>5
  <2>4. ASSUME NEW f \in DOMAIN seen' PROVE seen'[f] \in SeenRecords
    <3>1. f \in pending \ late
      BY <1>4
    <3>2. PICK s \in SeenRecords : s = looked[f]
      BY <1>8, <3>1
    <3>3. s.age \in 0 .. DEADLINE /\ s.nacks \in 0 .. MAX_NACKS /\ s.since \in 0 .. NACK_GAP
      BY DEF SeenRecords
    <3>4. CASE f \in ask
      <4>1. s.nacks < MAX_NACKS
        BY <1>3, <3>2, <3>4 DEF Askable
      <4>2. seen'[f] = [s EXCEPT !.nacks = @ + 1, !.since = 0]
        BY <1>4, <3>1, <3>2, <3>4
      <4>3. s.nacks + 1 \in 0 .. MAX_NACKS /\ 0 \in 0 .. NACK_GAP
        BY <1>5, <3>3, <4>1
      <4> QED
        BY <3>3, <4>2, <4>3 DEF SeenRecords
    <3>5. CASE f \notin ask
      BY <1>4, <3>1, <3>2, <3>5
    <3> QED
      BY <3>4, <3>5
  <2>5. \A n \in nacks' : n.frame \in Numbers /\ n.fragments \subseteq Data
    <3>1. ASSUME NEW n \in nacks' PROVE n.frame \in Numbers /\ n.fragments \subseteq Data
      <4>1. CASE n \in nacks
        BY <4>1, <1>5 DEF RecoveryTypes
      <4>2. CASE n \notin nacks
        <5>1. PICK f \in ask : n = [frame |-> f, fragments |-> Missing(f)]
          BY <4>2, <1>4
        <5>2. n.frame = f /\ n.fragments = Missing(f)
          BY <5>1
        <5>3. Missing(f) \subseteq Data
          BY DEF Missing
        <5> QED
          BY <5>2, <5>3, <1>3, <1>5
      <4> QED
        BY <4>1, <4>2
    <3> QED
      BY <3>1
  <2>6. sinceRefresh' \in 0 .. REFRESH_GAP
    <3>1. sinceRefresh' = sinceRefresh \/ sinceRefresh' = 0
      BY <1>4
    <3>2. sinceRefresh \in 0 .. REFRESH_GAP
      BY <1>5 DEF RecoveryTypes
    <3> QED
      BY <1>5, <3>1, <3>2
  <2>7. /\ link' \in Links /\ framesSent' \in 0 .. link'.frames
        /\ resends' \in [Numbers -> [Data -> 0 .. MAX_RESENDS]]
        /\ \A p \in packets' : p.frame \in Numbers /\ p.shard \in Shards' /\ p.copy \in 0 .. MAX_RESENDS
        /\ lastDelivered' \in Numbers \cup {NothingYet}
    BY <1>4, <1>5, <1>6 DEF RecoveryTypes, senderVars
  <2> QED
    BY <1>6, <2>1, <2>2, <2>3, <2>4, <2>5, <2>6, <2>7 DEF RecoveryTypes
<1>11. OfTheStream'
  <2>1. \A n \in nacks' : n.frame \in SentNumbers
    <3>1. \A f \in ask : f \in SentNumbers
      BY <1>3, <1>5
    <3>2. \A n \in nacks : n.frame \in SentNumbers
      BY DEF FramesInv, OfTheStream
    <3>3. nacks' = nacks \cup {[frame |-> f, fragments |-> Missing(f)] : f \in ask}
      BY <1>4
    <3> QED
      BY <3>1, <3>2, <3>3
  <2>2. \A p \in packets' : p.frame \in SentNumbers
    BY <1>4 DEF FramesInv, OfTheStream, senderVars
  <2>3. pending' \subseteq SentNumbers /\ delivered' \in Seq(SentNumbers)
    BY <1>4, <1>5 DEF FramesInv, OfTheStream
  <2> QED
    BY <1>7, <2>1, <2>2, <2>3 DEF OfTheStream
<1>12. DeliveredInOrder' /\ AtTheLast'
  BY <1>4 DEF FramesInv, DeliveredInOrder, AtTheLast
<1>13. HeldWaits'
  <2>1. ASSUME NEW f \in pending' PROVE Waiting(f)'
    <3>1. f \in pending /\ f \notin late /\ have'[f] = have[f] /\ lastDelivered' = lastDelivered
      BY <1>4, <1>5
    <3>2. Waiting(f)
      BY <3>1 DEF FramesInv, HeldWaits
    <3> QED
      BY <3>1, <3>2 DEF Waiting, Whole
  <2>2. \A f \in Numbers \ pending' : have'[f] = {}
    BY <1>4 DEF FramesInv, HeldWaits
  <2> QED
    BY <2>1, <2>2 DEF HeldWaits
<1>14. Counted'
  <2>1. /\ started = droppedFrames + Len(delivered) + Cardinality(pending)
        /\ started \in Nat /\ droppedFrames \in Nat /\ Len(delivered) \in Nat
    BY DEF FramesInv, Counted, DropsAreCounted, OfTheStream
  <2>2. /\ started' = started /\ delivered' = delivered /\ pending' = pending \ late
        /\ droppedFrames' = droppedFrames + Cardinality(late)
    BY <1>4
  <2> QED
    BY <1>9, <2>1, <2>2 DEF Counted, DropsAreCounted
<1> QED
  BY <1>10, <1>11, <1>12, <1>13, <1>14 DEF FramesInv

\* Time passes for what the detector has seen.
LEMMA TickKeeps == ASSUME FramesInv, Tick, link' = link PROVE FramesInv'
<1>1. /\ RecoveryTypes /\ link \in Links /\ NACK_GAP \in Nat /\ DEADLINE \in Nat /\ REFRESH_GAP \in Nat
  <2>1. RecoveryTypes /\ link \in Links
    BY DEF FramesInv, RecoveryTypes
  <2> QED
    BY <2>1, RecoveryAssumption DEF NACK_GAP
<1>2. Shards' = Shards /\ NACK_GAP' = NACK_GAP /\ SeenRecords' = SeenRecords
  BY LinkStays
<1>3. SentNumbers' = SentNumbers
  BY DEF Tick, SentNumbers, senderVars
<1>4. \A n, top \in Nat : n <= top => Older(n, top) \in 0 .. top
  BY DEF Older
<1>5. ASSUME NEW f \in DOMAIN seen' PROVE f \in Numbers /\ seen'[f] \in SeenRecords
  <2>1. f \in DOMAIN seen
    BY DEF Tick
  <2>2. PICK s \in SeenRecords : s = seen[f]
    BY <1>1, <2>1 DEF RecoveryTypes
  <2>3. s.age \in 0 .. DEADLINE /\ s.nacks \in 0 .. MAX_NACKS /\ s.since \in 0 .. NACK_GAP
    BY DEF SeenRecords
  <2>4. PICK a : a = Older(s.age, DEADLINE)
    OBVIOUS
  <2>5. PICK t : t = IF s.nacks = 0 THEN 0 ELSE Older(s.since, NACK_GAP)
    OBVIOUS
  <2>6. a \in 0 .. DEADLINE /\ t \in 0 .. NACK_GAP
    BY <1>1, <1>4, <2>3, <2>4, <2>5
  <2>7. seen'[f] = [s EXCEPT !.age = a, !.since = t]
    BY <2>1, <2>2, <2>4, <2>5 DEF Tick
  <2>8. f \in Numbers
    BY <1>1, <2>1 DEF RecoveryTypes
  <2> QED
    BY <2>3, <2>6, <2>7, <2>8 DEF SeenRecords
<1>6. sinceRefresh' \in 0 .. REFRESH_GAP
  <2>1. sinceRefresh \in 0 .. REFRESH_GAP
    BY <1>1 DEF RecoveryTypes
  <2>2. sinceRefresh' = Older(sinceRefresh, REFRESH_GAP)
    BY DEF Tick
  <2> QED
    BY <1>1, <1>4, <2>1, <2>2
<1>7. RecoveryTypes'
  BY <1>1, <1>2, <1>5, <1>6 DEF RecoveryTypes, Tick, senderVars, frameVars
<1>8. \A p \in packets' : p.frame \in SentNumbers'
  BY <1>3 DEF Tick, FramesInv, OfTheStream, senderVars
<1>9. \A n \in nacks' : n.frame \in SentNumbers'
  BY <1>3 DEF Tick, FramesInv, OfTheStream, senderVars
<1>10. framesSent' \in Nat /\ framesSent <= framesSent' /\ UNCHANGED frameVars
  <2>1. framesSent \in Nat
    BY <1>1, SentNumbersAre
  <2>2. framesSent' = framesSent /\ UNCHANGED frameVars
    BY DEF Tick, senderVars
  <2> QED
    BY <2>1, <2>2
<1>11. OfTheStream' /\ DeliveredInOrder' /\ AtTheLast' /\ HeldWaits' /\ Counted'
  BY <1>8, <1>9, <1>10, SenderLeavesFrames
<1> QED
  BY <1>7, <1>11 DEF FramesInv

\* The shards of a frame with one more, and what stays of the frames when it came.
With(f, s) == IF f \in pending THEN have[f] \cup {s} ELSE {s}

KeptOf(f, s, frames) ==
    [g \in Numbers |-> IF g \notin frames THEN {} ELSE IF g = f THEN With(f, s) ELSE have[g]]

LEMMA KeptOfTypes ==
    ASSUME FramesInv, NEW f \in Numbers, NEW s \in Shards, NEW frames, frames \subseteq pending \cup {f}
    PROVE  /\ KeptOf(f, s, frames) \in [Numbers -> SUBSET Shards]
           /\ \A g \in Numbers \ frames : KeptOf(f, s, frames)[g] = {}
           /\ f \in frames => KeptOf(f, s, frames)[f] = With(f, s)
           /\ \A g \in frames : g \in Numbers /\
                (g # f => g \in pending /\ KeptOf(f, s, frames)[g] = have[g])
           /\ IsFiniteSet(With(f, s))
<1>1. have \in [Numbers -> SUBSET Shards] /\ pending \subseteq Numbers
  BY DEF FramesInv, RecoveryTypes
<1>2. With(f, s) \subseteq Shards
  BY <1>1 DEF With
<1>3. IsFiniteSet(With(f, s))
  <2>1. CASE f \in pending
    <3>1. IsFiniteSet(have[f])
      BY <2>1 DEF FramesInv, HeldWaits, Waiting
    <3> QED
      BY <2>1, <3>1, FS_AddElement DEF With
  <2>2. CASE f \notin pending
    BY <2>2, FS_Singleton DEF With
  <2> QED
    BY <2>1, <2>2
<1> QED
  BY <1>1, <1>2, <1>3 DEF KeptOf

\* Types of a push that lets its packet in.
LEMMA PushTypes ==
    ASSUME FramesInv, link' = link, NEW p \in packets, packets' = packets \ {p},
           UNCHANGED <<framesSent, resends, nacks, detectorVars>>,
           pending' \subseteq Start(p.frame),
           lastDelivered' \in Numbers \cup {NothingYet},
           have' \in [Numbers -> SUBSET Shards]
    PROVE  RecoveryTypes'
<1>1. p.frame \in SentNumbers /\ RecoveryTypes
  BY DEF FramesInv, OfTheStream
<1>2. Shards' = Shards /\ NACK_GAP' = NACK_GAP /\ SeenRecords' = SeenRecords
  BY LinkStays
<1>3. /\ Start(p.frame) \subseteq SentNumbers /\ IsFiniteSet(Start(p.frame))
      /\ Cardinality(Start(p.frame)) <= MAX_IN_FLIGHT /\ Cardinality(Start(p.frame)) \in Nat
  BY <1>1, StartsOne
<1>4. pending' \subseteq Numbers
  BY <1>1, <1>3, SentNumbersAre
<1>5. Cardinality(pending') <= MAX_IN_FLIGHT
  <2>1. Cardinality(pending') <= Cardinality(Start(p.frame)) /\ Cardinality(pending') \in Nat
    BY <1>3, FS_Subset, FS_CardinalityType
  <2>2. MAX_IN_FLIGHT \in Nat
    BY RecoveryAssumption
  <2> QED
    BY <1>3, <2>1, <2>2
<1> QED
  BY <1>1, <1>2, <1>4, <1>5 DEF RecoveryTypes, detectorVars

\* A packet of a frame that is past is dropped; another is kept with its frame; one that
\* makes its frame whole hands it on, and what it overtook is let go.
LEMMA PushKeeps ==
    ASSUME FramesInv, NEW p \in packets, Push(p), link' = link PROVE FramesInv'
<1>1. PICK f : f = p.frame
  OBVIOUS
<1>2. PICK held : held = Start(f)
  OBVIOUS
<1>3. PICK s \in Shards : s = p.shard
  BY DEF FramesInv, RecoveryTypes
<1>4. PICK new : new = IF f \in pending THEN 0 ELSE 1
  OBVIOUS
<1>5. /\ RecoveryTypes /\ f \in SentNumbers /\ f \in Numbers /\ p.shard \in Shards
      /\ pending \subseteq SentNumbers /\ delivered \in Seq(SentNumbers)
  <2>1. RecoveryTypes /\ f \in SentNumbers /\ pending \subseteq SentNumbers
        /\ delivered \in Seq(SentNumbers)
    BY <1>1 DEF FramesInv, OfTheStream
  <2>2. f \in Numbers /\ p.shard \in Shards
    BY <1>1, <2>1 DEF RecoveryTypes
  <2> QED
    BY <2>1, <2>2
<1>6. /\ held \subseteq SentNumbers /\ f \in held /\ held \subseteq pending \cup {f}
      /\ IsFiniteSet(held) /\ Cardinality(held) \in Nat /\ Cardinality(pending) \in Nat
      /\ Cardinality(pending \ held) \in Nat
      /\ Cardinality(held) + Cardinality(pending \ held) = Cardinality(pending) + new
  BY <1>2, <1>4, <1>5, StartsOne
<1>7. packets' = packets \ {p} /\ UNCHANGED <<framesSent, resends, nacks, detectorVars>>
  BY DEF Push
<1>8. SentNumbers' = SentNumbers
  BY <1>7 DEF SentNumbers
<1>9. /\ \A q \in packets' : q.frame \in SentNumbers'
      /\ \A n \in nacks' : n.frame \in SentNumbers'
  BY <1>7, <1>8 DEF FramesInv, OfTheStream
<1>10. /\ started = droppedFrames + Len(delivered) + Cardinality(pending)
       /\ started \in Nat /\ droppedFrames \in Nat /\ Len(delivered) \in Nat /\ new \in {0, 1}
  BY <1>4, <1>5 DEF FramesInv, Counted, DropsAreCounted
<1>11. CASE UNCHANGED frameVars
  <2>1. RecoveryTypes'
    <3>1. Shards' = Shards /\ NACK_GAP' = NACK_GAP /\ SeenRecords' = SeenRecords
      BY LinkStays
    <3> QED
      BY <1>5, <1>7, <1>11, <3>1 DEF RecoveryTypes, frameVars, detectorVars
  <2>2. framesSent' \in Nat /\ framesSent <= framesSent'
    <3>1. framesSent \in Nat /\ framesSent' = framesSent
      BY <1>5, <1>7, SentNumbersAre
    <3> QED
      BY <3>1
  <2>3. OfTheStream' /\ DeliveredInOrder' /\ AtTheLast' /\ HeldWaits' /\ Counted'
    BY <1>9, <1>11, <2>2, SenderLeavesFrames
  <2> QED
    BY <2>1, <2>3 DEF FramesInv
<1>12. CASE /\ lastDelivered # NothingYet => Newer(f, lastDelivered)
            /\ \E b \in 1 .. BLOCKS : ~ Whole(With(f, s), b)
            /\ pending' = held
            /\ have' = KeptOf(f, s, held)
            /\ droppedFrames' = droppedFrames + Cardinality(pending \ held)
            /\ started' = started + new
            /\ UNCHANGED <<lastDelivered, delivered>>
  <2>1. /\ KeptOf(f, s, held) \in [Numbers -> SUBSET Shards]
        /\ \A g \in Numbers \ held : KeptOf(f, s, held)[g] = {}
        /\ KeptOf(f, s, held)[f] = With(f, s)
        /\ \A g \in held : g \in Numbers /\
                (g # f => g \in pending /\ KeptOf(f, s, held)[g] = have[g])
        /\ IsFiniteSet(With(f, s))
    BY <1>3, <1>5, <1>6, KeptOfTypes
  <2>2. RecoveryTypes'
    <3>1. pending' \subseteq Start(p.frame) /\ have' \in [Numbers -> SUBSET Shards]
      BY <1>1, <1>2, <1>12, <2>1
    <3>2. lastDelivered' \in Numbers \cup {NothingYet}
      BY <1>5, <1>12 DEF RecoveryTypes
    <3> QED
      BY <1>7, <3>1, <3>2, PushTypes
  <2>3. OfTheStream'
    BY <1>5, <1>6, <1>8, <1>9, <1>12 DEF OfTheStream
  <2>4. DeliveredInOrder' /\ AtTheLast'
    BY <1>12 DEF FramesInv, DeliveredInOrder, AtTheLast
  <2>5. lastDelivered # NothingYet => Index(f) > Index(lastDelivered)
    <3>1. lastDelivered # NothingYet => lastDelivered \in SentNumbers
      BY <1>5 DEF FramesInv, AtTheLast
    <3> QED
      BY <1>5, <1>12, <3>1, NewerIsLater
  <2>6. ASSUME NEW g \in pending' PROVE Waiting(g)'
    <3>1. CASE g = f
      <4>1. have'[g] = With(f, s) /\ lastDelivered' = lastDelivered
        BY <1>12, <2>1, <3>1
      <4>2. \E b \in 1 .. BLOCKS : ~ Whole(With(f, s), b)
        BY <1>12
      <4> QED
        BY <2>1, <2>5, <3>1, <4>1, <4>2 DEF Waiting, Whole
    <3>2. CASE g # f
      <4>1. g \in pending /\ have'[g] = have[g] /\ lastDelivered' = lastDelivered
        BY <1>12, <2>1, <3>2
      <4>2. Waiting(g)
        BY <4>1 DEF FramesInv, HeldWaits
      <4> QED
        BY <4>1, <4>2 DEF Waiting, Whole
    <3> QED
      BY <3>1, <3>2
  <2>7. HeldWaits'
    BY <1>12, <2>1, <2>6 DEF HeldWaits
  <2>8. Counted'
    <3>1. /\ droppedFrames' = droppedFrames + Cardinality(pending \ held)
          /\ started' = started + new /\ delivered' = delivered /\ pending' = held
      BY <1>12
    <3>2. PICK d, h, k, w : /\ d = Len(delivered) /\ h = Cardinality(held)
                            /\ k = Cardinality(pending \ held) /\ w = Cardinality(pending)
      OBVIOUS
    <3>3. /\ d \in Nat /\ h \in Nat /\ k \in Nat /\ w \in Nat /\ new \in {0, 1}
          /\ h + k = w + new /\ started = droppedFrames + d + w
          /\ started \in Nat /\ droppedFrames \in Nat
      BY <1>6, <1>10, <3>2
    <3>4. droppedFrames' = droppedFrames + k /\ started' = started + new
      BY <3>1, <3>2
    <3>5. /\ started' = droppedFrames' + d + h /\ started' \in Nat /\ droppedFrames' \in Nat
      BY <3>3, <3>4
    <3>6. started' = droppedFrames' + Len(delivered') + Cardinality(pending')
      BY <3>1, <3>2, <3>5
    <3> QED
      BY <3>5, <3>6 DEF Counted, DropsAreCounted
  <2> QED
    BY <2>2, <2>3, <2>4, <2>7, <2>8 DEF FramesInv
<1>13. CASE /\ lastDelivered # NothingYet => Newer(f, lastDelivered)
            /\ pending' = Overtaken(held, f)
            /\ have' = KeptOf(f, s, Overtaken(held, f))
            /\ droppedFrames' = droppedFrames + Cardinality(pending \ held)
                                  + Cardinality((held \ {f}) \ Overtaken(held, f))
            /\ started' = started + new
            /\ lastDelivered' = f
            /\ delivered' = Append(delivered, f)
  <2>1. PICK left : left = Overtaken(held, f)
    OBVIOUS
  <2>2. left \subseteq held \ {f} /\ left \subseteq pending
    BY <1>6, <2>1 DEF Overtaken, Newer
  <2>3. /\ KeptOf(f, s, left) \in [Numbers -> SUBSET Shards]
        /\ \A g \in Numbers \ left : KeptOf(f, s, left)[g] = {}
        /\ \A g \in left : g \in Numbers /\
                (g # f => g \in pending /\ KeptOf(f, s, left)[g] = have[g])
    <3>1. left \subseteq pending \cup {f} /\ FramesInv /\ f \in Numbers
      BY <1>5, <2>2
    <3>2. /\ KeptOf(f, s, left) \in [Numbers -> SUBSET Shards]
          /\ \A g \in Numbers \ left : KeptOf(f, s, left)[g] = {}
          /\ f \in left => KeptOf(f, s, left)[f] = With(f, s)
          /\ \A g \in left : g \in Numbers /\
                (g # f => g \in pending /\ KeptOf(f, s, left)[g] = have[g])
          /\ IsFiniteSet(With(f, s))
      BY <3>1, KeptOfTypes
    <3> QED
      BY <3>2
  <2>4. RecoveryTypes'
    <3>1. pending' \subseteq Start(p.frame) /\ have' \in [Numbers -> SUBSET Shards]
      BY <1>1, <1>2, <1>13, <2>1, <2>2, <2>3
    <3>2. lastDelivered' \in Numbers \cup {NothingYet}
      BY <1>5, <1>13
    <3> QED
      BY <1>7, <3>1, <3>2, PushTypes
  <2>5. OfTheStream'
    <3>1. pending' \subseteq SentNumbers'
      BY <1>5, <1>8, <1>13, <2>1, <2>2
    <3>2. delivered' \in Seq(SentNumbers')
      <4>1. Append(delivered, f) \in Seq(SentNumbers)
        BY <1>5
      <4> QED
        BY <1>8, <1>13, <4>1
    <3> QED
      BY <1>9, <3>1, <3>2 DEF OfTheStream
  <2>6. AtTheLast'
    <3>1. /\ Len(Append(delivered, f)) = Len(delivered) + 1 /\ Append(delivered, f) # <<>>
          /\ Append(delivered, f)[Len(delivered) + 1] = f
      BY <1>5
    <3> QED
      BY <1>13, <3>1 DEF AtTheLast
  <2>7. DeliveredInOrder'
    <3>1. PICK n \in Nat : n = Len(delivered)
      BY <1>10
    <3>2. /\ DOMAIN Append(delivered, f) = 1 .. n + 1
          /\ \A i \in 1 .. n : Append(delivered, f)[i] = delivered[i]
          /\ Append(delivered, f)[n + 1] = f
      BY <1>5, <3>1
    <3>3. \A i \in 1 .. n : delivered[i] \in SentNumbers /\ Index(delivered[i]) \in Nat
      <4>1. \A i \in 1 .. n : delivered[i] \in SentNumbers
        BY <1>5, <3>1
      <4> QED
        BY <1>5, <4>1, SentNumbersAre
    <3>4. \A i, j \in 1 .. n : i < j => Index(delivered[i]) < Index(delivered[j])
      <4>1. DOMAIN delivered = 1 .. n
        BY <1>5, <3>1
      <4> QED
        BY <4>1 DEF FramesInv, DeliveredInOrder
    <3>5. ASSUME NEW i \in 1 .. n PROVE Index(delivered[i]) < Index(f)
      <4>1. n \in 1 .. n /\ delivered # <<>>
        BY <3>1
      <4>2. lastDelivered = delivered[n] /\ lastDelivered \in SentNumbers
        BY <3>1, <3>3, <4>1 DEF FramesInv, AtTheLast
      <4>3. lastDelivered # NothingYet
        <5>1. lastDelivered \in Nat
          BY <1>5, <4>2, SentNumbersAre
        <5> QED
          BY <5>1 DEF NothingYet
      <4>4. Newer(f, lastDelivered)
        BY <1>13, <4>3
      <4>5. Index(f) > Index(delivered[n])
        BY <1>5, <4>2, <4>4, NewerIsLater
      <4>6. i = n \/ Index(delivered[i]) < Index(delivered[n])
        BY <3>4, <4>1
      <4>7. Index(f) \in Nat /\ Index(delivered[n]) \in Nat /\ Index(delivered[i]) \in Nat
        BY <1>5, <3>3, <4>1, SentNumbersAre
      <4> QED
        BY <4>5, <4>6, <4>7
    <3>6. ASSUME NEW i \in 1 .. n + 1, NEW j \in 1 .. n + 1, i < j
          PROVE  Index(Append(delivered, f)[i]) < Index(Append(delivered, f)[j])
      <4>1. i \in 1 .. n
        BY <3>6
      <4>2. PICK t : t = Append(delivered, f)
        OBVIOUS
      <4>3. t[i] = delivered[i] /\ t[n + 1] = f
        BY <3>2, <4>1, <4>2
      <4>4. CASE j \in 1 .. n
        <5>1. Index(delivered[i]) < Index(delivered[j])
          BY <3>4, <3>6, <4>1, <4>4
        <5>2. t[j] = delivered[j]
          BY <3>2, <4>2, <4>4
        <5>3. Index(t[i]) < Index(t[j])
          BY <4>3, <5>1, <5>2
        <5> QED
          BY <4>2, <5>3
      <4>5. CASE j = n + 1
        <5>1. Index(t[i]) < Index(t[j])
          BY <3>5, <4>1, <4>3, <4>5
        <5> QED
          BY <4>2, <5>1
      <4>6. j \in 1 .. n \/ j = n + 1
        OBVIOUS
      <4> QED
        BY <4>4, <4>5, <4>6, Zenon
    <3> QED
      BY <1>13, <3>2, <3>6 DEF DeliveredInOrder
  <2>8. ASSUME NEW g \in pending' PROVE Waiting(g)'
    <3>1. g \in held /\ g # f /\ g \in left /\ Newer(g, f)
      BY <1>13, <2>1, <2>2 DEF Overtaken
    <3>2. g \in pending /\ have'[g] = have[g] /\ lastDelivered' = f
      BY <1>13, <2>1, <2>3, <3>1
    <3>3. Index(g) > Index(f)
      BY <1>5, <1>6, <3>1, NewerIsLater
    <3>4. IsFiniteSet(have[g]) /\ \E b \in 1 .. BLOCKS : ~ Whole(have[g], b)
      BY <3>2 DEF FramesInv, HeldWaits, Waiting
    <3> QED
      BY <3>2, <3>3, <3>4 DEF Waiting, Whole
  <2>9. HeldWaits'
    BY <1>13, <2>1, <2>3, <2>8 DEF HeldWaits
  <2>10. Counted'
    <3>1. IsFiniteSet(held \ {f}) /\ Cardinality(held \ {f}) = Cardinality(held) - 1
      BY <1>6, FS_RemoveElement
    <3>2. /\ Cardinality((held \ {f}) \ left) = Cardinality(held \ {f}) - Cardinality(left)
          /\ Cardinality(left) \in Nat /\ Cardinality((held \ {f}) \ left) \in Nat
      BY <2>2, <3>1, CardinalityOfRest
    <3>3. Len(Append(delivered, f)) = Len(delivered) + 1
      BY <1>5
    <3>4. /\ droppedFrames' = droppedFrames + Cardinality(pending \ held)
                                  + Cardinality((held \ {f}) \ left)
          /\ started' = started + new /\ Len(delivered') = Len(delivered) + 1 /\ pending' = left
      BY <1>13, <2>1, <3>3
    <3>5. PICK a \in Nat : a = Cardinality(pending \ held)
      BY <1>6
    <3>6. PICK b \in Nat : b = Cardinality((held \ {f}) \ left)
      BY <3>2
    <3>7. PICK c \in Nat : c = Cardinality(left)
      BY <3>2
    <3>8. Cardinality(held) = b + c + 1
      BY <1>6, <3>1, <3>2, <3>6, <3>7
    <3>9. droppedFrames' = droppedFrames + a + b /\ Cardinality(pending') = c
      BY <3>4, <3>5, <3>6, <3>7
    <3>10. b + c + 1 + a = Cardinality(pending) + new
      BY <1>6, <3>5, <3>8
    <3>11. started' = droppedFrames' + Len(delivered') + Cardinality(pending')
      <4>1. PICK l \in Nat : l = Len(delivered)
        BY <1>10
      <4>2. PICK h \in Nat : h = Cardinality(pending)
        BY <1>6
      <4>3. started = droppedFrames + l + h /\ b + c + 1 + a = h + new
        BY <1>10, <3>10, <4>1, <4>2
      <4>4. started + new = (droppedFrames + a + b) + (l + 1) + c
        BY <1>10, <4>3
      <4> QED
        BY <3>4, <3>9, <4>1, <4>4
    <3>12. started' \in Nat /\ droppedFrames' \in Nat
      BY <1>10, <3>4, <3>9
    <3> QED
      BY <3>11, <3>12 DEF Counted, DropsAreCounted
  <2> QED
    BY <2>4, <2>5, <2>6, <2>7, <2>9, <2>10 DEF FramesInv
<1> QED
  BY <1>1, <1>2, <1>3, <1>4, <1>11, <1>12, <1>13 DEF Push, KeptOf, With

\* Reassembler, LossDetector and Retransmitter (bud/src/fragment.rs, recovery.rs) for
\* every number of frames, shards and resends: frames come out in order, each once, over
\* the wrap of their number; what is held is later than the last one handed on and lacks
\* something; and every frame begun was handed on, is held or is counted as dropped.
THEOREM FramesAreAccountedFor == RecoverySpec => []FramesAccountedFor
<1>1. RecoveryInit => FramesInv
  BY RecoveryStarts
<1>2. FramesInv /\ [RecoveryNext]_recoveryVars => FramesInv'
  <2> SUFFICES ASSUME FramesInv, [RecoveryNext]_recoveryVars PROVE FramesInv'
    OBVIOUS
  <2>1. CASE Send /\ link' = link
    BY <2>1, SendKeeps
  <2>2. CASE Poll /\ link' = link
    BY <2>2, PollKeeps
  <2>3. CASE Tick /\ link' = link
    BY <2>3, TickKeeps
  <2>4. ASSUME NEW n \in nacks, Respond(n), link' = link PROVE FramesInv'
    BY <2>4, RespondKeeps
  <2>5. ASSUME NEW p \in packets, Push(p), link' = link PROVE FramesInv'
    BY <2>5, PushKeeps
  <2>6. CASE UNCHANGED recoveryVars
    BY <2>6 DEF recoveryVars, senderVars, frameVars, detectorVars, FramesInv, RecoveryTypes,
       OfTheStream, SentNumbers, DeliveredInOrder, AtTheLast, HeldWaits, Waiting, Whole, Counted,
       DropsAreCounted, Shards, Parity, SeenRecords, NACK_GAP
  <2> QED
    BY <2>1, <2>2, <2>3, <2>4, <2>5, <2>6 DEF RecoveryNext
<1>3. FramesInv => FramesAccountedFor
  <2> SUFFICES ASSUME FramesInv PROVE FramesAccountedFor
    OBVIOUS
  <2>1. ASSUME NEW f \in pending PROVE Missing(f) # {}
    BY WaitingMisses DEF FramesInv, HeldWaits, Waiting
  <2> QED
    BY <2>1 DEF FramesAccountedFor, NothingStaleHeld, FramesInv, HeldWaits, Waiting, Counted
<1> QED
  BY <1>1, <1>2, <1>3, PTL DEF RecoverySpec

-----------------------------------------------------------------------------
(* The byte stream over a punched socket. *)

\* A finite set of numbers has a greatest one: the least size of a set without
\* one would be of a set that has one, the greater of one member and the greatest
\* of the others.
LEMMA GreatestOf ==
    ASSUME NEW S, S \subseteq Nat, S # {}, IsFiniteSet(S)
    PROVE  /\ Max(S) \in S
           /\ \A y \in S : y <= Max(S)
<1> DEFINE HasGreatest(T) == \E x \in T : \A y \in T : y <= x
           Bad == {k \in Nat : \E T \in SUBSET S : T # {} /\ Cardinality(T) = k /\ ~ HasGreatest(T)}
<1>1. Bad = {}
  <2> SUFFICES ASSUME Bad # {} PROVE FALSE
    OBVIOUS
  <2>1. PICK k \in Bad : \A j \in Bad : k <= j
    BY LeastOf
  <2>2. PICK T \in SUBSET S : T # {} /\ Cardinality(T) = k /\ ~ HasGreatest(T)
    OBVIOUS
  <2>3. PICK x \in T : TRUE
    BY <2>2
  <2>4. PICK rest : rest = T \ {x}
    OBVIOUS
  <2>5. IsFiniteSet(T) /\ IsFiniteSet(rest) /\ Cardinality(rest) = k - 1 /\ k \in Nat
    BY <2>2, <2>3, <2>4, FS_Subset, FS_RemoveElement, FS_CardinalityType
  <2>6. Cardinality(rest) \in Nat
    BY <2>5, FS_CardinalityType
  <2>7. rest = {} \/ HasGreatest(rest)
    <3> SUFFICES ASSUME rest # {}, ~ HasGreatest(rest) PROVE FALSE
      OBVIOUS
    <3>1. rest \in SUBSET S
      BY <2>4
    <3>2. k - 1 \in Bad
      BY <2>5, <2>6, <3>1
    <3> QED
      BY <3>2, <2>1, <2>5
  <2>8. CASE rest = {}
    <3>1. T = {x}
      BY <2>3, <2>4, <2>8
    <3>2. x \in Nat
      BY <2>3
    <3> QED
      BY <3>1, <3>2, <2>2
  <2>9. CASE HasGreatest(rest)
    <3>1. PICK m \in rest : \A y \in rest : y <= m
      BY <2>9
    <3>2. m \in T /\ m \in Nat /\ x \in Nat /\ T \subseteq Nat
      BY <3>1, <2>3, <2>4
    <3>3. \A y \in T : y = x \/ y <= m
      BY <3>1, <2>4
    <3>4. CASE x <= m
      <4>1. \A y \in T : y <= m
        BY <3>3, <3>4
      <4> QED
        BY <4>1, <3>2, <2>2
    <3>5. CASE ~ (x <= m)
      <4>1. \A y \in T : y <= x
        BY <3>3, <3>5, <3>2
      <4> QED
        BY <4>1, <2>3, <2>2
    <3> QED
      BY <3>4, <3>5
  <2> QED
    BY <2>7, <2>8, <2>9
<1>2. Cardinality(S) \in Nat
  BY FS_CardinalityType
<1>3. HasGreatest(S)
  <2>1. Cardinality(S) \notin Bad
    BY <1>1
  <2> QED
    BY <2>1, <1>2
<1>4. \E x \in S : \A y \in S : x >= y
  BY <1>3
<1>5. Max(S) \in S /\ \A y \in S : Max(S) >= y
  BY <1>4 DEF Max
<1> QED
  BY <1>5

\* The bounds of the model are those of each plan.
LEMMA PlansAreBounded ==
    ASSUME NEW p \in Plans
    PROVE  /\ MaxOut \in Nat
           /\ \A s \in Ends : p.most[s] \in Nat /\ p.most[s] <= MaxOut
           /\ 1 .. p.connections \subseteq Connections
           /\ p.connections \in Nat
<1>1. PICK mosts : mosts = UNION {{q.most[s] : s \in Ends} : q \in Plans}
  OBVIOUS
<1>2. mosts \subseteq Nat /\ \A s \in Ends : p.most[s] \in mosts
  BY <1>1, PunchedAssumption
<1>3. IsFiniteSet(mosts)
  <2>1. PICK pairs : pairs = Plans \X Ends
    OBVIOUS
  <2>2. IsFiniteSet(Ends)
    <3>1. IsFiniteSet({"client"})
      BY FS_Singleton
    <3>2. IsFiniteSet({"client"} \cup {"host"})
      BY <3>1, FS_AddElement
    <3>3. Ends = {"client"} \cup {"host"}
      BY DEF Ends
    <3> QED
      BY <3>2, <3>3
  <2>3. IsFiniteSet(pairs)
    BY <2>1, <2>2, PunchedAssumption, FS_Product
  <2>4. PICK f : f = [pair \in pairs |-> pair[1].most[pair[2]]]
    OBVIOUS
  <2>5. f \in Surjection(pairs, mosts)
    <3>1. f \in [pairs -> mosts]
      BY <2>4, <2>1, <1>1
    <3>2. \A x \in mosts : \E pair \in pairs : f[pair] = x
      <4> SUFFICES ASSUME NEW x \in mosts PROVE \E pair \in pairs : f[pair] = x
        OBVIOUS
      <4>1. PICK q \in Plans, s \in Ends : x = q.most[s]
        BY <1>1
      <4>2. <<q, s>> \in pairs /\ f[<<q, s>>] = x
        BY <4>1, <2>1, <2>4
      <4> QED
        BY <4>2
    <3> QED
      BY <3>1, <3>2 DEF Surjection
  <2> QED
    BY <2>3, <2>5, FS_Surjection
<1>4. Max(mosts) \in mosts /\ \A y \in mosts : y <= Max(mosts)
  <2>1. mosts # {}
    BY <1>2 DEF Ends
  <2> QED
    BY <2>1, <1>2, <1>3, GreatestOf
<1>5. PICK counts : counts = {q.connections : q \in Plans}
  OBVIOUS
<1>6. counts \subseteq Nat /\ p.connections \in counts
  BY <1>5, PunchedAssumption
<1>7. IsFiniteSet(counts)
  <2>1. PICK f : f = [q \in Plans |-> q.connections]
    OBVIOUS
  <2>2. f \in Surjection(Plans, counts)
    BY <2>1, <1>5 DEF Surjection
  <2> QED
    BY <2>2, PunchedAssumption, FS_Surjection
<1>8. Max(counts) \in counts /\ \A y \in counts : y <= Max(counts)
  BY <1>6, <1>7, GreatestOf
<1>9. MaxOut = Max(mosts)
  BY <1>1 DEF MaxOut
<1>10. Connections = 1 .. Max(counts)
  BY <1>5 DEF Connections
<1>11. MaxOut \in Nat /\ \A s \in Ends : p.most[s] \in Nat /\ p.most[s] <= MaxOut
  BY <1>2, <1>4, <1>9
<1>12. Max(counts) \in Nat /\ p.connections \in Nat /\ p.connections <= Max(counts)
  BY <1>6, <1>8
<1>13. 1 .. p.connections \subseteq Connections
  BY <1>10, <1>12
<1> QED
  BY <1>11, <1>12, <1>13

\* What is handed on of the segments held ends at the first gap.
LEMMA DrainedIs ==
    ASSUME NEW st \in Streams, NEW held, held \subseteq st.next_in .. MaxOut - 1,
           MaxOut \in Nat
    PROVE  LET after == Drained(st, held)
           IN  /\ after \in Streams
               /\ after = [st EXCEPT !.early = after.early, !.next_in = after.next_in]
               /\ after.next_in >= st.next_in
               /\ \A n \in st.next_in .. after.next_in - 1 : n \in held
               /\ after.early \subseteq held
               /\ \A n \in after.early : n >= after.next_in
<1>1. st.next_in \in 0 .. MaxOut
  BY DEF Streams
<1>2. CASE st.gone
  <2>1. PICK rest : rest = held \ {st.next_in}
    OBVIOUS
  <2>2. Drained(st, held) = [st EXCEPT !.early = rest]
    BY <1>2, <2>1 DEF Drained
  <2>3. rest \in SUBSET (0 .. MaxOut - 1) /\ rest \subseteq held /\ \A n \in rest : n >= st.next_in
    <3>1. \A n \in held : n \in 0 .. MaxOut - 1 /\ n >= st.next_in
      BY <1>1
    <3> QED
      BY <2>1, <3>1
  <2>4. [st EXCEPT !.early = rest] \in Streams
    BY <2>3 DEF Streams
  <2>5. /\ [st EXCEPT !.early = rest].early = rest
        /\ [st EXCEPT !.early = rest].next_in = st.next_in
        /\ [st EXCEPT !.early = rest] = [st EXCEPT !.early = rest, !.next_in = st.next_in]
    BY DEF Streams
  <2>6. st.next_in .. st.next_in - 1 = {}
    BY <1>1
  <2> QED
    BY <1>1, <2>2, <2>3, <2>4, <2>5, <2>6
<1>3. CASE ~ st.gone
  <2>1. PICK gap : gap = CHOOSE n \in st.next_in .. MaxOut :
                            n \notin held /\ st.next_in .. n - 1 \subseteq held
    OBVIOUS
  <2>2. gap \in st.next_in .. MaxOut /\ gap \notin held /\ st.next_in .. gap - 1 \subseteq held
    <3>1. PICK missing : missing = {n \in st.next_in .. MaxOut : n \notin held}
      OBVIOUS
    <3>2. MaxOut \in missing /\ missing \subseteq Nat
      BY <3>1, <1>1
    <3>3. PICK least \in missing : \A n \in missing : least <= n
      BY <3>2, LeastOf
    <3>4. \A n \in st.next_in .. least - 1 : n \in held
      <4> SUFFICES ASSUME NEW n \in st.next_in .. least - 1, n \notin held PROVE FALSE
        OBVIOUS
      <4>1. least \in st.next_in .. MaxOut
        BY <3>1
      <4>2. n \in missing
        BY <4>1, <1>1, <3>1
      <4> QED
        BY <4>1, <4>2, <3>3, <1>1
    <3>5. \E n \in st.next_in .. MaxOut : n \notin held /\ st.next_in .. n - 1 \subseteq held
      BY <3>1, <3>4
    <3> QED
      BY <3>5, <2>1
  <2>3. PICK rest : rest = held \ (st.next_in .. gap - 1)
    OBVIOUS
  <2>4. Drained(st, held) = [st EXCEPT !.early = rest, !.next_in = gap]
    BY <1>3, <2>1, <2>3 DEF Drained
  <2>5. rest \in SUBSET (0 .. MaxOut - 1) /\ rest \subseteq held
    <3>1. \A n \in held : n \in 0 .. MaxOut - 1
      BY <1>1
    <3> QED
      BY <2>3, <3>1
  <2>6. \A n \in rest : n >= gap
    BY <1>1, <2>2, <2>3
  <2>7. gap \in 0 .. MaxOut /\ gap >= st.next_in
    BY <1>1, <2>2
  <2>8. [st EXCEPT !.early = rest, !.next_in = gap] \in Streams
    BY <2>5, <2>7 DEF Streams
  <2>9. /\ [st EXCEPT !.early = rest, !.next_in = gap].early = rest
        /\ [st EXCEPT !.early = rest, !.next_in = gap].next_in = gap
    BY DEF Streams
  <2> QED
    BY <2>2, <2>4, <2>5, <2>6, <2>7, <2>8, <2>9
<1> QED
  BY <1>2, <1>3

\* What was read of a connection, or written to it.
HistoryTypes ==
    /\ wrote \in [Connections -> [Ends -> 0 .. MaxOut]]
    /\ final \in [Connections -> [Ends -> {NoFin} \cup 0 .. MaxOut]]
    /\ got \in [Connections -> [Ends -> Seq([by : Ends, n : Nat])]]
    /\ ended \in [Connections -> [Ends -> BOOLEAN]]
    /\ admitted \subseteq 1 .. connected
    /\ connected \in 0 .. plan.connections

\* The locals of s's stream agree with the histories of its connection c: the
\* numbers are those written and read, an acknowledged one was read, and a FIN was
\* heard only after all that was written.
NumbersAgree(s, st, c, t) ==
    /\ wrote[c][s] = st.next_out
    /\ st.read_closed <=> final[c][s] # NoFin
    /\ Len(got[c][s]) = st.next_in
    /\ st.acked <= Len(got[c][t])
    /\ \A n \in st.early : n >= st.next_in /\ n < wrote[c][t]
    /\ st.peer_fin # NoFin =>
          final[c][t] # NoFin /\ st.peer_fin = wrote[c][t] /\ st.next_in = st.peer_fin
    /\ st.fin_sent => st.read_closed /\ st.acked = st.next_out

Agrees(s, st, c, t) ==
    /\ c \in 1 .. connected
    /\ s = "client" => c = connected
    /\ s = "host" => c \in admitted
    /\ NumbersAgree(s, st, c, t)
    /\ ended[c][s] <=> st.peer_fin # NoFin

\* Every stream that runs agrees with its connection.
StreamsAgree ==
    \A s \in Ends : phase[s] # "off" => Agrees(s, stream[s], stream[s].id, Other(s))

\* Nobody wrote to, or read from, a connection before it was there.
Untouched(c, s) ==
    wrote[c][s] = 0 /\ final[c][s] = NoFin /\ got[c][s] = <<>> /\ ended[c][s] = FALSE

\* What s read of c is what t wrote, in order, never further behind than a window;
\* an end it read before all was there is one of a stream given up.
Carries(c, s, t) ==
    /\ c > connected => Untouched(c, s)
    /\ s = "host" /\ c \notin admitted => Untouched(c, s)
    /\ got[c][s] = [i \in 1 .. Len(got[c][s]) |-> [by |-> t, n |-> i - 1]]
    /\ Len(got[c][s]) <= wrote[c][t]
    /\ wrote[c][t] <= Len(got[c][s]) + Window
    /\ final[c][s] # NoFin => final[c][s] = wrote[c][s]
    /\ ended[c][s] /\ c \notin cut => final[c][t] # NoFin /\ Len(got[c][s]) = wrote[c][t]

ConnectionsCarry == \A c \in Connections, s \in Ends : Carries(c, s, Other(s))

\* A segment says what was so when it was sent, and still is.
TrueOf(m, t, s) ==
    /\ m.id <= connected
    /\ m.kind = "DATA" => m.seq < wrote[m.id][t]
    /\ m.kind = "ACK" => m.seq <= Len(got[m.id][t])
    /\ m.kind = "FIN" =>
          final[m.id][t] # NoFin /\ m.seq = wrote[m.id][t] /\ Len(got[m.id][s]) = m.seq

SegmentsAreTrue == \A m \in segments : TrueOf(m, Other(m.to), m.to)

\* A FIN is true because it goes out only after all was acknowledged, hence read.
PunchedInv ==
    /\ PunchedTypes /\ HistoryTypes
    /\ StreamsAgree /\ ConnectionsCarry /\ SegmentsAreTrue
    /\ CloseIsClean

-----------------------------------------------------------------------------
\* What the invariant says of an end s that has a stream, its connection c and the
\* other end t.
Facts(s, st, c, t) ==
    /\ st \in Streams /\ st.acked <= st.next_out
    /\ c \in Connections /\ c \in 1 .. connected
    /\ t \in Ends /\ t # s /\ Other(t) = s /\ Ends = {s, t}
    /\ Agrees(s, st, c, t)
    /\ Carries(c, s, t) /\ Carries(c, t, s)
    /\ wrote[c][s] \in 0 .. MaxOut /\ wrote[c][t] \in 0 .. MaxOut
    /\ final[c][s] \in {NoFin} \cup 0 .. MaxOut
    /\ final[c][t] \in {NoFin} \cup 0 .. MaxOut
    /\ got[c][s] \in Seq([by : Ends, n : Nat]) /\ got[c][t] \in Seq([by : Ends, n : Nat])
    /\ Len(got[c][s]) \in Nat /\ Len(got[c][t]) \in Nat
    /\ MaxOut \in Nat /\ Window \in Nat
    /\ connected \in Nat

\* An end that is not off agrees with its connection, so the facts hold of it.
LEMMA RunningFacts ==
    ASSUME PunchedInv, NEW s \in Ends, phase[s] # "off",
           NEW st, st = stream[s], NEW c, c = st.id, NEW t, t = Other(s)
    PROVE  Facts(s, st, c, t)
<1>1. /\ st \in Streams /\ st.acked <= st.next_out
      /\ MaxOut \in Nat /\ plan.connections \in Nat
      /\ 1 .. plan.connections \subseteq Connections
  BY PlansAreBounded DEF PunchedInv, PunchedTypes
<1>2. t \in Ends /\ t # s /\ Other(t) = s /\ Ends = {s, t}
  BY DEF Ends, Other
<1>3. Agrees(s, st, c, t)
  BY DEF PunchedInv, StreamsAgree
<1>4. connected \in Nat /\ connected \in 0 .. plan.connections
  BY <1>1 DEF PunchedInv, HistoryTypes
<1>5. c \in 1 .. connected /\ c \in Connections
  <2>1. c \in 1 .. connected
    BY <1>3 DEF Agrees
  <2>2. c \in 1 .. plan.connections
    BY <2>1, <1>4, <1>1
  <2> QED
    BY <2>1, <2>2, <1>1
<1>6. Carries(c, s, t) /\ Carries(c, t, s)
  BY <1>2, <1>5 DEF PunchedInv, ConnectionsCarry
<1>7. /\ wrote[c][s] \in 0 .. MaxOut /\ wrote[c][t] \in 0 .. MaxOut
      /\ final[c][s] \in {NoFin} \cup 0 .. MaxOut
      /\ final[c][t] \in {NoFin} \cup 0 .. MaxOut
      /\ got[c][s] \in Seq([by : Ends, n : Nat]) /\ got[c][t] \in Seq([by : Ends, n : Nat])
  <2>1. /\ wrote[c] \in [Ends -> 0 .. MaxOut]
        /\ final[c] \in [Ends -> {NoFin} \cup 0 .. MaxOut]
        /\ got[c] \in [Ends -> Seq([by : Ends, n : Nat])]
    BY <1>5 DEF PunchedInv, HistoryTypes
  <2> QED
    BY <2>1, <1>2
<1>8. Len(got[c][s]) \in Nat /\ Len(got[c][t]) \in Nat
  <2>1. PICK a \in Seq([by : Ends, n : Nat]), b \in Seq([by : Ends, n : Nat]) :
          a = got[c][s] /\ b = got[c][t]
    BY <1>7
  <2>2. Len(a) \in Nat /\ Len(b) \in Nat
    OBVIOUS
  <2> QED
    BY <2>1, <2>2
<1>9. Window \in Nat
  BY PunchedAssumption
<1> QED
  BY <1>1, <1>2, <1>3, <1>4, <1>5, <1>6, <1>7, <1>8, <1>9 DEF Facts

\* What the end of a turn changes.
LEMMA TurnEffects ==
    ASSUME PunchedInv, NEW s \in Ends, NEW after \in Streams, after.id \in Connections,
           Turn(s, after)
    PROVE  /\ stream' \in [Ends -> Streams]
           /\ \A u \in Ends : stream'[u] = IF u = s THEN after ELSE stream[u]
           /\ phase' \in [Ends -> {"off", "opening", "open"}]
           /\ \A u \in Ends : phase'[u] = IF u = s /\ after.peer_fin = after.next_in /\ after.fin_sent
                                            THEN "off" ELSE phase[u]
           /\ ended' \in [Connections -> [Ends -> BOOLEAN]]
           /\ \A d \in Connections, u \in Ends :
                 ended'[d][u] <=> (d = after.id /\ u = s /\ after.peer_fin = after.next_in) \/ ended[d][u]
           /\ after.peer_fin # after.next_in => ended' = ended
           /\ connected' = connected /\ admitted' = admitted /\ cut' = cut
<1>1. stream \in [Ends -> Streams] /\ phase \in [Ends -> {"off", "opening", "open"}]
  BY DEF PunchedInv, PunchedTypes
<1>2. ended \in [Connections -> [Ends -> BOOLEAN]]
  BY DEF PunchedInv, HistoryTypes
<1>3. stream' = [stream EXCEPT ![s] = after]
  BY DEF Turn
<1>4. phase' = IF after.peer_fin = after.next_in /\ after.fin_sent
                 THEN [phase EXCEPT ![s] = "off"] ELSE phase
  BY DEF Turn
<1>5. ended' = IF after.peer_fin = after.next_in
                 THEN [ended EXCEPT ![after.id][s] = TRUE] ELSE ended
  BY DEF Turn
<1>6. connected' = connected /\ admitted' = admitted /\ cut' = cut
  BY DEF Turn
<1>7. /\ stream' \in [Ends -> Streams]
      /\ \A u \in Ends : stream'[u] = IF u = s THEN after ELSE stream[u]
  BY <1>1, <1>3
<1>8. /\ phase' \in [Ends -> {"off", "opening", "open"}]
      /\ \A u \in Ends : phase'[u] = IF u = s /\ after.peer_fin = after.next_in /\ after.fin_sent
                                            THEN "off" ELSE phase[u]
  BY <1>1, <1>4
<1>9. /\ ended' \in [Connections -> [Ends -> BOOLEAN]]
      /\ \A d \in Connections, u \in Ends :
            ended'[d][u] <=> (d = after.id /\ u = s /\ after.peer_fin = after.next_in) \/ ended[d][u]
  <2>1. CASE after.peer_fin = after.next_in
    <3>1. PICK row : row = [ended[after.id] EXCEPT ![s] = TRUE]
      OBVIOUS
    <3>2. ended' = [ended EXCEPT ![after.id] = row]
      BY <1>5, <2>1, <3>1
    <3>3. row \in [Ends -> BOOLEAN] /\ \A u \in Ends : row[u] <=> (u = s \/ ended[after.id][u])
      BY <3>1, <1>2
    <3> QED
      BY <3>2, <3>3, <1>2, <2>1
  <2>2. CASE after.peer_fin # after.next_in
    BY <2>2, <1>2, <1>5
  <2> QED
    BY <2>1, <2>2
<1>10. after.peer_fin # after.next_in => ended' = ended
  BY <1>5
<1> QED
  BY <1>6, <1>7, <1>8, <1>9, <1>10

\* What a turn did to the histories of its own end c, s agrees with the locals it
\* leaves, and what it sent is true.
HistoriesTyped ==
    /\ wrote' \in [Connections -> [Ends -> 0 .. MaxOut]]
    /\ final' \in [Connections -> [Ends -> {NoFin} \cup 0 .. MaxOut]]
    /\ got' \in [Connections -> [Ends -> Seq([by : Ends, n : Nat])]]

\* A turn of s on c leaves every other history alone,
OthersKept(c, s) ==
    \A d \in Connections, u \in Ends : d # c \/ u # s =>
        wrote'[d][u] = wrote[d][u] /\ final'[d][u] = final[d][u] /\ got'[d][u] = got[d][u]

\* and its own only grows, within what the peer wrote and the window.
OwnGrows(c, s, t) ==
    /\ wrote'[c][s] >= wrote[c][s]
    /\ final[c][s] # NoFin => final'[c][s] = final[c][s] /\ wrote'[c][s] = wrote[c][s]
    /\ final'[c][s] # NoFin => final'[c][s] = wrote'[c][s]
    /\ Len(got'[c][s]) >= Len(got[c][s])
    /\ Len(got'[c][s]) <= wrote[c][t]
    /\ wrote'[c][s] <= Len(got[c][t]) + Window

\* The bytes t wrote, in the order it wrote them.
InOrder(q, t) == q = [i \in 1 .. Len(q) |-> [by |-> t, n |-> i - 1]]

\* Every segment sent is true once the step is taken.
SendsTruth ==
    /\ segments' \subseteq Segments
    /\ \A m \in segments' : m \in segments \/ TrueOf(m, Other(m.to), m.to)'

\* What a turn has to show.
TurnIsSound(s, c, t, st, after) ==
    /\ after.id = c /\ after.acked <= after.next_out
    /\ HistoriesTyped
    /\ OthersKept(c, s)
    /\ OwnGrows(c, s, t)
    /\ InOrder(got'[c][s], t)
    /\ st.peer_fin # NoFin => after.peer_fin # NoFin
    /\ NumbersAgree(s, after, c, t)'
    /\ SendsTruth

\* A turn gives no stream up.
LEMMA TurnCutsNothing ==
    ASSUME NEW s, NEW after, Turn(s, after)
    PROVE  cut' = cut
BY DEF Turn

\* A sound turn keeps the invariant.
LEMMA TurnKeeps ==
    ASSUME PunchedInv, NEW s \in Ends, Running(s), UNCHANGED plan, UNCHANGED dropped,
           NEW st, st = stream[s], NEW c, c = st.id, NEW t, t = Other(s),
           NEW after \in Streams, Turn(s, after),
           TurnIsSound(s, c, t, st, after)
    PROVE  PunchedInv'
<1>0. phase[s] # "off"
  BY DEF Running
<1>a. /\ after.id = c /\ after.acked <= after.next_out
      /\ HistoriesTyped
      /\ OthersKept(c, s)
      /\ OwnGrows(c, s, t)
      /\ InOrder(got'[c][s], t)
      /\ st.peer_fin # NoFin => after.peer_fin # NoFin
      /\ NumbersAgree(s, after, c, t)'
      /\ SendsTruth
  BY DEF TurnIsSound
<1>1. /\ st \in Streams /\ st.acked <= st.next_out
      /\ c \in Connections /\ c \in 1 .. connected
      /\ t \in Ends /\ t # s /\ Other(t) = s /\ Ends = {s, t}
      /\ Agrees(s, st, c, t)
      /\ Carries(c, s, t) /\ Carries(c, t, s)
      /\ wrote[c][s] \in 0 .. MaxOut /\ wrote[c][t] \in 0 .. MaxOut
      /\ final[c][s] \in {NoFin} \cup 0 .. MaxOut
      /\ final[c][t] \in {NoFin} \cup 0 .. MaxOut
      /\ Len(got[c][s]) \in Nat /\ Len(got[c][t]) \in Nat
      /\ MaxOut \in Nat /\ Window \in Nat /\ connected \in Nat
  <2>1. Facts(s, st, c, t)
    BY <1>0, RunningFacts
  <2> QED
    BY <2>1 DEF Facts
<1>2. /\ stream' \in [Ends -> Streams]
      /\ \A u \in Ends : stream'[u] = IF u = s THEN after ELSE stream[u]
      /\ phase' \in [Ends -> {"off", "opening", "open"}]
      /\ \A u \in Ends : phase'[u] = IF u = s /\ after.peer_fin = after.next_in /\ after.fin_sent
                                       THEN "off" ELSE phase[u]
      /\ ended' \in [Connections -> [Ends -> BOOLEAN]]
      /\ \A d \in Connections, u \in Ends :
            ended'[d][u] <=> (d = c /\ u = s /\ after.peer_fin = after.next_in) \/ ended[d][u]
      /\ connected' = connected /\ admitted' = admitted /\ cut' = cut
  <2>1. after.id \in Connections /\ after.id = c
    BY <1>1, <1>a
  <2> QED
    BY <2>1, TurnEffects
<1>3. /\ wrote'[c][s] \in 0 .. MaxOut /\ Len(got'[c][s]) \in Nat
      /\ wrote'[c][t] = wrote[c][t] /\ final'[c][t] = final[c][t] /\ got'[c][t] = got[c][t]
      /\ final'[c][s] \in {NoFin} \cup 0 .. MaxOut
  <2>1. wrote'[c][s] \in 0 .. MaxOut /\ final'[c][s] \in {NoFin} \cup 0 .. MaxOut
    <3>1. wrote'[c] \in [Ends -> 0 .. MaxOut] /\ final'[c] \in [Ends -> {NoFin} \cup 0 .. MaxOut]
      BY <1>1, <1>a DEF HistoriesTyped
    <3> QED
      BY <3>1
  <2>2. got'[c][s] \in Seq([by : Ends, n : Nat])
    <3>1. got'[c] \in [Ends -> Seq([by : Ends, n : Nat])]
      BY <1>1, <1>a DEF HistoriesTyped
    <3> QED
      BY <3>1
  <2>3. Len(got'[c][s]) \in Nat
    BY <2>2
  <2>4. wrote'[c][t] = wrote[c][t] /\ final'[c][t] = final[c][t] /\ got'[c][t] = got[c][t]
    BY <1>1, <1>a DEF OthersKept
  <2> QED
    BY <2>1, <2>3, <2>4
<1>4. ended'[c][s] <=> after.peer_fin # NoFin
  <2>1. after.next_in \in Nat /\ after.peer_fin \in Int /\ NoFin = -1
    BY <1>1 DEF Streams, NoFin
  <2>2. CASE after.peer_fin # NoFin
    BY <1>1, <1>2, <1>a, <1>3, <2>1, <2>2 DEF NumbersAgree
  <2>3. CASE after.peer_fin = NoFin
    <3>1. ~ ended[c][s]
      BY <2>3, <1>1, <1>a DEF Agrees
    <3>2. after.peer_fin # after.next_in
      BY <2>1, <2>3
    <3> QED
      BY <3>1, <3>2, <1>1, <1>2, <2>3
  <2> QED
    BY <2>2, <2>3
<1>5. PunchedTypes'
  <2>1. \A u \in Ends : stream'[u].acked <= stream'[u].next_out
    BY <1>2, <1>a DEF PunchedInv, PunchedTypes
  <2>2. segments' \subseteq Segments
    BY <1>a DEF SendsTruth
  <2> QED
    BY <1>2, <2>1, <2>2 DEF PunchedInv, PunchedTypes
<1>6. HistoryTypes'
  BY <1>2, <1>a DEF PunchedInv, HistoryTypes, HistoriesTyped
<1>7. StreamsAgree'
  <2> SUFFICES ASSUME NEW u \in Ends, phase'[u] # "off"
               PROVE  Agrees(u, stream[u], stream[u].id, Other(u))'
    BY DEF StreamsAgree
  <2>1. CASE u = s
    <3>1. Agrees(s, after, c, t)'
      BY <1>1, <1>2, <1>4, <1>a DEF Agrees
    <3>2. stream'[u] = after /\ Other(u) = t
      BY <2>1, <1>2
    <3> QED
      BY <2>1, <3>1, <3>2, <1>a
  <2>2. CASE u # s
    <3>1. u = t /\ Other(u) = s
      BY <1>1, <2>2
    <3>2. PICK su : su = stream[t]
      OBVIOUS
    <3>3. PICK d : d = su.id
      OBVIOUS
    <3>4. phase[t] # "off" /\ stream'[t] = su
      BY <1>1, <1>2, <3>1, <3>2
    <3>5. /\ su \in Streams /\ d \in Connections
          /\ Agrees(t, su, d, s)
          /\ wrote[d][s] \in 0 .. MaxOut /\ wrote[d][t] \in 0 .. MaxOut
          /\ Len(got[d][s]) \in Nat /\ Len(got[d][t]) \in Nat
      <4>1. Facts(t, su, d, s)
        BY <1>1, <3>2, <3>3, <3>4, RunningFacts
      <4> QED
        BY <4>1 DEF Facts
    <3>6. /\ wrote'[d][t] = wrote[d][t] /\ final'[d][t] = final[d][t] /\ got'[d][t] = got[d][t]
          /\ ended'[d][t] = ended[d][t]
      <4>1. wrote'[d][t] = wrote[d][t] /\ final'[d][t] = final[d][t] /\ got'[d][t] = got[d][t]
        BY <1>1, <1>a, <3>5 DEF OthersKept
      <4>2. ended'[d][t] <=> ended[d][t]
        BY <1>1, <1>2, <3>5
      <4>3. ended'[d][t] \in BOOLEAN /\ ended[d][t] \in BOOLEAN
        <5>1. ended'[d] \in [Ends -> BOOLEAN] /\ ended[d] \in [Ends -> BOOLEAN]
          BY <1>2, <3>5 DEF PunchedInv, HistoryTypes
        <5> QED
          BY <5>1, <1>1
      <4> QED
        BY <4>1, <4>2, <4>3
    <3>7. /\ wrote'[d][s] >= wrote[d][s] /\ wrote'[d][s] \in Int
          /\ final[d][s] # NoFin => final'[d][s] = final[d][s] /\ wrote'[d][s] = wrote[d][s]
          /\ Len(got'[d][s]) >= Len(got[d][s]) /\ Len(got'[d][s]) \in Nat
      <4>1. CASE d = c
        BY <4>1, <1>3, <1>a DEF OwnGrows
      <4>2. CASE d # c
        <5>1. wrote'[d][s] = wrote[d][s] /\ final'[d][s] = final[d][s] /\ got'[d][s] = got[d][s]
          BY <4>2, <3>5, <1>a DEF OthersKept
        <5>2. wrote[d][s] \in Int /\ Len(got[d][s]) \in Nat
          BY <3>5, <1>1
        <5> QED
          BY <5>1, <5>2
      <4> QED
        BY <4>1, <4>2
    <3>8. \A n \in su.early : n \in Int
      BY <3>5, <1>1 DEF Streams
    <3>9. su.acked \in Int
      BY <3>5 DEF Streams
    <3>10. NumbersAgree(t, su, d, s)'
      <4>1. /\ wrote[d][t] = su.next_out
            /\ su.read_closed <=> final[d][t] # NoFin
            /\ Len(got[d][t]) = su.next_in
            /\ su.acked <= Len(got[d][s])
            /\ \A n \in su.early : n >= su.next_in /\ n < wrote[d][s]
            /\ su.peer_fin # NoFin =>
                  final[d][s] # NoFin /\ su.peer_fin = wrote[d][s] /\ su.next_in = su.peer_fin
            /\ su.fin_sent => su.read_closed /\ su.acked = su.next_out
        BY <3>5 DEF Agrees, NumbersAgree
      <4>2. su.acked <= Len(got'[d][s])
        BY <4>1, <3>5, <3>7, <3>9
      <4>3. \A n \in su.early : n >= su.next_in /\ n < wrote'[d][s]
        BY <4>1, <3>5, <3>7, <3>8
      <4>4. su.peer_fin # NoFin =>
                  final'[d][s] # NoFin /\ su.peer_fin = wrote'[d][s] /\ su.next_in = su.peer_fin
        BY <4>1, <3>7
      <4> QED
        BY <4>1, <4>2, <4>3, <4>4, <3>6 DEF NumbersAgree
    <3>11. Agrees(t, su, d, s)'
      BY <3>5, <3>6, <3>10, <1>2 DEF Agrees
    <3> QED
      BY <3>1, <3>3, <3>4, <3>11
  <2> QED
    BY <2>1, <2>2
<1>8. ConnectionsCarry'
  <2> SUFFICES ASSUME NEW d \in Connections, NEW u \in Ends
               PROVE  Carries(d, u, Other(u))'
    BY DEF ConnectionsCarry
  <2>1. Carries(d, u, Other(u)) /\ Other(u) \in Ends /\ Other(u) # u
    BY DEF PunchedInv, ConnectionsCarry, Ends, Other
  <2>2. CASE d # c
    <3>1. /\ wrote'[d][u] = wrote[d][u] /\ final'[d][u] = final[d][u] /\ got'[d][u] = got[d][u]
          /\ ended'[d][u] = ended[d][u]
          /\ wrote'[d][Other(u)] = wrote[d][Other(u)] /\ final'[d][Other(u)] = final[d][Other(u)]
      <4>1. /\ wrote'[d][u] = wrote[d][u] /\ final'[d][u] = final[d][u] /\ got'[d][u] = got[d][u]
            /\ wrote'[d][Other(u)] = wrote[d][Other(u)] /\ final'[d][Other(u)] = final[d][Other(u)]
        BY <2>1, <2>2, <1>a DEF OthersKept
      <4>2. ended'[d][u] <=> ended[d][u]
        BY <2>2, <1>2
      <4>3. ended'[d][u] \in BOOLEAN /\ ended[d][u] \in BOOLEAN
        <5>1. ended'[d] \in [Ends -> BOOLEAN] /\ ended[d] \in [Ends -> BOOLEAN]
          BY <1>2 DEF PunchedInv, HistoryTypes
        <5> QED
          BY <5>1
      <4> QED
        BY <4>1, <4>2, <4>3
    <3> QED
      BY <2>1, <3>1, <1>2, TurnCutsNothing DEF Carries, Untouched
  <2>3. CASE d = c /\ u = s
    <3>1. ~ (c > connected) /\ ~ (s = "host" /\ c \notin admitted)
      BY <1>1 DEF Agrees
    <3>2. wrote'[c][t] <= Len(got'[c][s]) + Window
      <4>1. wrote[c][t] <= Len(got[c][s]) + Window
        BY <1>1 DEF Carries
      <4>2. Len(got'[c][s]) >= Len(got[c][s])
        BY <1>a DEF OwnGrows
      <4>3. wrote[c][t] \in Int /\ Len(got[c][s]) \in Int /\ Len(got'[c][s]) \in Int /\ Window \in Int
        BY <1>1, <1>3
      <4>4. wrote[c][t] <= Len(got'[c][s]) + Window
        <5>1. PICK w : w = wrote[c][t]
          OBVIOUS
        <5>2. PICK l : l = Len(got[c][s])
          OBVIOUS
        <5>3. PICK m : m = Len(got'[c][s])
          OBVIOUS
        <5>4. w \in Int /\ l \in Int /\ m \in Int /\ w <= l + Window /\ m >= l
          BY <4>1, <4>2, <4>3, <5>1, <5>2, <5>3
        <5>5. w <= m + Window
          BY <5>4, <4>3
        <5> QED
          BY <5>5, <5>1, <5>3
      <4> QED
        BY <4>4, <1>3
    <3>3. ended'[c][s] => final'[c][t] # NoFin /\ Len(got'[c][s]) = wrote'[c][t]
      BY <1>3, <1>4, <1>a DEF NumbersAgree
    <3>4. Carries(c, s, t)'
      BY <3>1, <3>2, <3>3, <1>2, <1>3, <1>a DEF Carries, OwnGrows, InOrder
    <3> QED
      BY <2>3, <3>4
  <2>4. CASE d = c /\ u = t
    <3>1. ~ (c > connected)
      BY <1>1
    <3>2. ended'[c][t] <=> ended[c][t]
      BY <1>1, <1>2
    <3>3. t = "host" /\ c \notin admitted => Untouched(c, t)'
      <4>1. t = "host" /\ c \notin admitted => Untouched(c, t)
        BY <1>1 DEF Carries
      <4>2. wrote'[c][t] = wrote[c][t] /\ final'[c][t] = final[c][t] /\ got'[c][t] = got[c][t]
        BY <1>3
      <4>3. ended'[c][t] = ended[c][t]
        <5>1. ended'[c] \in [Ends -> BOOLEAN] /\ ended[c] \in [Ends -> BOOLEAN]
          BY <1>1, <1>2 DEF PunchedInv, HistoryTypes
        <5>2. ended'[c][t] \in BOOLEAN /\ ended[c][t] \in BOOLEAN
          BY <5>1, <1>1
        <5> QED
          BY <5>2, <3>2
      <4> QED
        BY <4>1, <4>2, <4>3 DEF Untouched
    <3>4. Len(got'[c][t]) <= wrote'[c][s] /\ wrote'[c][s] <= Len(got'[c][t]) + Window
      <4>1. Len(got[c][t]) <= wrote[c][s]
        BY <1>1 DEF Carries
      <4>2. wrote'[c][s] >= wrote[c][s] /\ wrote'[c][s] <= Len(got[c][t]) + Window
        BY <1>a DEF OwnGrows
      <4>3. wrote[c][s] \in Int /\ Len(got[c][t]) \in Int /\ wrote'[c][s] \in Int
        BY <1>1, <1>3
      <4>4. Len(got[c][t]) <= wrote'[c][s]
        BY <4>1, <4>2, <4>3
      <4>5. got'[c][t] = got[c][t]
        BY <1>3
      <4> QED
        BY <4>2, <4>4, <4>5
    <3>5. ended'[c][t] /\ c \notin cut'
            => final'[c][s] # NoFin /\ Len(got'[c][t]) = wrote'[c][s]
      BY <1>1, <1>3, <1>a, <3>2, TurnCutsNothing DEF Carries, OwnGrows
    <3>6. Carries(c, t, s)'
      BY <3>1, <3>3, <3>4, <3>5, <1>1, <1>2, <1>3 DEF Carries
    <3> QED
      BY <2>4, <3>6, <1>1
  <2> QED
    BY <2>2, <2>3, <2>4, <1>1
<1>9. SegmentsAreTrue'
  <2> SUFFICES ASSUME NEW m \in segments' PROVE TrueOf(m, Other(m.to), m.to)'
    BY DEF SegmentsAreTrue
  <2>1. CASE m \in segments
    <3>1. PICK u : u = m.to
      OBVIOUS
    <3>2. PICK v : v = Other(u)
      OBVIOUS
    <3>3. PICK d : d = m.id
      OBVIOUS
    <3>4. u \in Ends /\ v \in Ends /\ u # v /\ d \in Connections /\ m.seq \in Nat
      BY <2>1, <3>1, <3>2, <3>3, <1>1 DEF PunchedInv, PunchedTypes, Segments, Ends, Other
    <3>5. TrueOf(m, v, u)
      BY <2>1, <3>1, <3>2 DEF PunchedInv, SegmentsAreTrue
    <3>6. /\ wrote[d] \in [Ends -> 0 .. MaxOut] /\ wrote'[d] \in [Ends -> 0 .. MaxOut]
          /\ got[d] \in [Ends -> Seq([by : Ends, n : Nat])]
          /\ got'[d] \in [Ends -> Seq([by : Ends, n : Nat])]
      BY <3>4, <1>a DEF PunchedInv, HistoryTypes, HistoriesTyped
    <3>7. /\ wrote[d][v] \in Int /\ wrote'[d][v] \in Int
          /\ got[d][v] \in Seq([by : Ends, n : Nat]) /\ got'[d][v] \in Seq([by : Ends, n : Nat])
          /\ got[d][u] \in Seq([by : Ends, n : Nat]) /\ got'[d][u] \in Seq([by : Ends, n : Nat])
      <4>1. wrote[d][v] \in 0 .. MaxOut /\ wrote'[d][v] \in 0 .. MaxOut
        BY <3>4, <3>6
      <4>2. /\ got[d][v] \in Seq([by : Ends, n : Nat]) /\ got'[d][v] \in Seq([by : Ends, n : Nat])
            /\ got[d][u] \in Seq([by : Ends, n : Nat]) /\ got'[d][u] \in Seq([by : Ends, n : Nat])
        <5>1. v \in Ends /\ u \in Ends
          BY <3>4
        <5> QED
          BY <3>6, <5>1, Zenon
      <4>3. \A n \in 0 .. MaxOut : n \in Int
        OBVIOUS
      <4> QED
        BY <4>1, <4>2, <4>3, Zenon
    <3>8. /\ Len(got[d][v]) \in Int /\ Len(got'[d][v]) \in Int
          /\ Len(got[d][u]) \in Int /\ Len(got'[d][u]) \in Int
      BY <3>7
    <3>9. /\ wrote'[d][v] >= wrote[d][v]
          /\ final[d][v] # NoFin => final'[d][v] = final[d][v] /\ wrote'[d][v] = wrote[d][v]
          /\ Len(got'[d][v]) >= Len(got[d][v])
      <4>1. CASE d = c /\ v = s
        BY <4>1, <1>a DEF OwnGrows
      <4>2. CASE d # c \/ v # s
        BY <4>2, <3>4, <3>7, <3>8, <1>a DEF OthersKept
      <4> QED
        BY <4>1, <4>2
    <3>10. Len(got'[d][u]) >= Len(got[d][u]) /\ Len(got'[d][u]) <= wrote'[d][v]
      <4>1. Carries(d, u, v)' /\ Len(got'[d][u]) >= Len(got[d][u])
        <5>1. Carries(d, u, v)'
          BY <1>8, <3>2, <3>4 DEF ConnectionsCarry
        <5>2. CASE d = c /\ u = s
          BY <5>1, <5>2, <1>a DEF OwnGrows
        <5>3. CASE d # c \/ u # s
          BY <5>1, <5>3, <3>4, <3>8, <1>a DEF OthersKept
        <5> QED
          BY <5>2, <5>3
      <4> QED
        BY <4>1 DEF Carries
    <3>11. TrueOf(m, v, u)'
      BY <3>3, <3>4, <3>5, <3>7, <3>8, <3>9, <3>10, <1>2 DEF TrueOf
    <3> QED
      BY <3>1, <3>2, <3>11
  <2>2. CASE m \notin segments
    BY <2>2, <1>a DEF SendsTruth
  <2> QED
    BY <2>1, <2>2
<1>10. CloseIsClean'
  <2> SUFFICES ASSUME NEW d \in Connections, d \notin cut', NEW u \in Ends,
                      phase'[u] = "off", stream'[u].id = d, stream'[u].peer_fin # NoFin
               PROVE  Len(got'[d][Other(u)]) = wrote'[d][u]
    BY DEF CloseIsClean
  <2>1. CASE u = s
    <3>1. after.fin_sent /\ d = c
      BY <2>1, <1>0, <1>2, <1>a
    <3>2. wrote'[c][s] <= Len(got'[c][t])
      BY <3>1, <1>3, <1>a DEF NumbersAgree
    <3>3. Len(got'[c][t]) <= wrote'[c][s]
      BY <1>8, <1>1 DEF ConnectionsCarry, Carries
    <3> QED
      BY <2>1, <3>1, <3>2, <3>3, <1>1, <1>3
  <2>2. CASE u # s
    <3>1. u = t /\ Other(u) = s /\ phase[t] = "off" /\ stream[t].id = d /\ stream[t].peer_fin # NoFin /\ d \notin cut
      BY <2>2, <1>1, <1>2
    <3>2. Len(got[d][s]) = wrote[d][t] /\ wrote'[d][t] = wrote[d][t]
      BY <3>1, <1>1, <1>a DEF PunchedInv, CloseIsClean, OthersKept
    <3>3. Len(got'[d][s]) <= wrote'[d][t]
      BY <1>8, <1>1, <3>1 DEF ConnectionsCarry, Carries
    <3>4. wrote[d] \in [Ends -> 0 .. MaxOut] /\ got'[d] \in [Ends -> Seq([by : Ends, n : Nat])]
      BY <1>a DEF PunchedInv, HistoryTypes, HistoriesTyped
    <3>5. wrote[d][t] \in Int /\ got'[d][s] \in Seq([by : Ends, n : Nat])
      BY <3>4, <1>1
    <3>6. Len(got'[d][s]) \in Nat
      BY <3>5
    <3>7. Len(got'[d][s]) >= Len(got[d][s])
      <4>1. CASE d = c
        BY <4>1, <1>a DEF OwnGrows
      <4>2. CASE d # c
        BY <4>2, <3>2, <3>5, <3>6, <1>1, <1>a DEF OthersKept
      <4> QED
        BY <4>1, <4>2
    <3> QED
      BY <3>1, <3>2, <3>3, <3>5, <3>6, <3>7
  <2> QED
    BY <2>1, <2>2
<1> QED
  BY <1>5, <1>6, <1>7, <1>8, <1>9, <1>10 DEF PunchedInv

\* One entry of a history changes.
LEMMA OneEntry ==
    ASSUME NEW C, NEW E, NEW V, NEW f \in [C -> [E -> V]], NEW x \in C, NEW y \in E, NEW v \in V,
           NEW g, g = [f EXCEPT ![x][y] = v]
    PROVE  /\ g \in [C -> [E -> V]]
           /\ g[x][y] = v
           /\ \A d \in C, u \in E : d # x \/ u # y => g[d][u] = f[d][u]
<1>1. PICK row : row = [f[x] EXCEPT ![y] = v]
  OBVIOUS
<1>2. row \in [E -> V] /\ row[y] = v /\ \A u \in E : u # y => row[u] = f[x][u]
  BY <1>1
<1>3. g = [f EXCEPT ![x] = row]
  BY <1>1
<1> QED
  BY <1>2, <1>3

\* A turn in which no FIN came shows no end that was not shown before.
LEMMA TurnShowsNothing ==
    ASSUME PunchedInv, NEW s \in Ends, Running(s),
           NEW st, st = stream[s], NEW c, c = st.id,
           NEW after \in Streams, after.id = c, Turn(s, after), after.peer_fin = st.peer_fin
    PROVE  ended' = ended
<1>1. PICK t : t = Other(s)
  OBVIOUS
<1>2. c \in Connections /\ Agrees(s, st, c, t)
  <2>1. Facts(s, st, c, t)
    BY <1>1, RunningFacts DEF Running
  <2> QED
    BY <2>1 DEF Facts
<1>3. CASE after.peer_fin = after.next_in
  <2>1. after.peer_fin # NoFin
    BY <1>3 DEF Streams, NoFin
  <2>2. ended[c][s] <=> TRUE
    BY <2>1, <1>2 DEF Agrees
  <2>3. ended[c] \in [Ends -> BOOLEAN] /\ ended \in [Connections -> [Ends -> BOOLEAN]]
    BY <1>2 DEF PunchedInv, HistoryTypes
  <2>4. ended[c][s] = TRUE
    BY <2>2, <2>3
  <2>5. [ended[c] EXCEPT ![s] = TRUE] = ended[c]
    BY <2>3, <2>4
  <2>6. ended' = [ended EXCEPT ![c][s] = TRUE]
    BY <1>3 DEF Turn
  <2>7. PICK row : row = [ended[c] EXCEPT ![s] = TRUE]
    OBVIOUS
  <2>8. ended' = [ended EXCEPT ![c] = row]
    BY <2>6, <2>7
  <2> QED
    BY <2>3, <2>5, <2>7, <2>8, <1>2
<1>4. CASE after.peer_fin # after.next_in
  BY <1>4 DEF Turn
<1> QED
  BY <1>3, <1>4

\* The abstract stream sees nothing of a step that leaves the histories alone and
\* gives no stream up.
LEMMA NothingSeen ==
    ASSUME UNCHANGED history, UNCHANGED cut
    PROVE  UNCHANGED Stream!vars
BY DEF history, Stream!vars

\* A turn that leaves what was written and read alone is sound if its locals still
\* agree and it sends the truth.
LEMMA QuietTurn ==
    ASSUME PunchedInv, NEW s \in Ends, Running(s), UNCHANGED plan, UNCHANGED dropped,
           NEW st, st = stream[s], NEW c, c = st.id, NEW t, t = Other(s),
           NEW after \in Streams, Turn(s, after),
           after.id = c, after.acked <= after.next_out,
           after.peer_fin = st.peer_fin,
           UNCHANGED <<wrote, final, got>>,
           NumbersAgree(s, after, c, t), SendsTruth
    PROVE  PunchedInv' /\ UNCHANGED Stream!vars
<1>1. ended' = ended
  BY TurnShowsNothing
<1>2. /\ c \in Connections
      /\ t \in Ends
      /\ Carries(c, s, t) /\ Carries(c, t, s)
      /\ wrote[c][s] \in 0 .. MaxOut
      /\ Len(got[c][s]) \in Nat
  <2>1. Facts(s, st, c, t)
    BY RunningFacts DEF Running
  <2> QED
    BY <2>1 DEF Facts
<1>3. wrote' = wrote /\ final' = final /\ got' = got
  OBVIOUS
<1>4. HistoriesTyped
  BY <1>3 DEF HistoriesTyped, PunchedInv, HistoryTypes
<1>5. OthersKept(c, s)
  BY <1>3 DEF OthersKept
<1>6. OwnGrows(c, s, t)
  BY <1>2, <1>3 DEF OwnGrows, Carries
<1>7. InOrder(got'[c][s], t)
  BY <1>2, <1>3 DEF InOrder, Carries
<1>8. NumbersAgree(s, after, c, t)'
  BY <1>3 DEF NumbersAgree
<1>9. TurnIsSound(s, c, t, st, after)
  BY <1>4, <1>5, <1>6, <1>7, <1>8 DEF TurnIsSound
<1>10. PunchedInv'
  BY <1>9, TurnKeeps
<1>11. UNCHANGED history /\ UNCHANGED cut
  BY <1>1, <1>3 DEF history, Turn
<1> QED
  BY <1>10, <1>11, NothingSeen

-----------------------------------------------------------------------------
(* The actions of run_stream. *)

\* What is written is within the window over what was acknowledged, hence read, and
\* extends the abstract stream.
LEMMA WriteKeeps ==
    ASSUME PunchedInv, UNCHANGED plan, UNCHANGED dropped, NEW s \in Ends, SendBytes(s)
    PROVE  PunchedInv' /\ Stream!Next
<1>1. PICK st : st = stream[s]
  OBVIOUS
<1>2. PICK c : c = st.id
  OBVIOUS
<1>3. PICK t : t = Other(s)
  OBVIOUS
<1>4. PICK after : after = [st EXCEPT !.next_out = @ + 1]
  OBVIOUS
<1>5. /\ Running(s)
      /\ ~ st.read_closed /\ ~ st.gone
      /\ st.next_out - st.acked < Window
      /\ st.next_out < plan.most[s]
      /\ segments' = segments \cup {Segment(s, "DATA", c, st.next_out)}
      /\ wrote' = [wrote EXCEPT ![c][s] = @ + 1]
      /\ Turn(s, after)
      /\ UNCHANGED <<final, got>>
  BY <1>1, <1>2, <1>4 DEF SendBytes
<1>6. /\ st \in Streams /\ st.acked <= st.next_out
      /\ c \in Connections /\ c \in 1 .. connected
      /\ t \in Ends /\ t # s /\ Other(t) = s /\ Ends = {s, t}
      /\ Agrees(s, st, c, t)
      /\ Carries(c, s, t) /\ Carries(c, t, s)
      /\ wrote[c][s] \in 0 .. MaxOut /\ wrote[c][t] \in 0 .. MaxOut
      /\ Len(got[c][s]) \in Nat /\ Len(got[c][t]) \in Nat
      /\ MaxOut \in Nat /\ Window \in Nat
  <2>1. Facts(s, st, c, t)
    BY <1>1, <1>2, <1>3, <1>5, RunningFacts DEF Running
  <2> QED
    BY <2>1 DEF Facts
<1>7. NumbersAgree(s, st, c, t)
  BY <1>6 DEF Agrees
<1>8. st.next_out \in 0 .. MaxOut /\ st.next_out + 1 \in 0 .. MaxOut
  <2>1. plan \in Plans
    BY DEF PunchedInv, PunchedTypes
  <2>2. plan.most[s] \in Nat /\ plan.most[s] <= MaxOut
    BY <2>1, PlansAreBounded
  <2>3. st.next_out \in 0 .. MaxOut
    BY <1>6 DEF Streams
  <2> QED
    BY <2>2, <2>3, <1>5, <1>6
<1>9. wrote[c][s] = st.next_out /\ st.acked <= Len(got[c][t]) /\ final[c][s] = NoFin
  BY <1>5, <1>7 DEF NumbersAgree
<1>10. /\ after \in Streams /\ after.id = c /\ after.acked <= after.next_out
       /\ after.peer_fin = st.peer_fin
       /\ after.next_out = st.next_out + 1
       /\ after.read_closed = st.read_closed /\ after.next_in = st.next_in
       /\ after.acked = st.acked /\ after.early = st.early /\ after.fin_sent = st.fin_sent
  <2>1. after \in Streams
    BY <1>4, <1>6, <1>8 DEF Streams
  <2>2. st.acked \in Int /\ st.next_out \in Int
    BY <1>6 DEF Streams
  <2>3. /\ after.id = st.id /\ after.peer_fin = st.peer_fin
        /\ after.next_out = st.next_out + 1
        /\ after.read_closed = st.read_closed /\ after.next_in = st.next_in
        /\ after.acked = st.acked /\ after.early = st.early /\ after.fin_sent = st.fin_sent
    BY <1>4, <1>6 DEF Streams
  <2> QED
    BY <2>1, <2>2, <2>3, <1>2, <1>6
<1>11. ended' = ended
  BY <1>1, <1>2, <1>5, <1>10, TurnShowsNothing
<1>12. /\ wrote' \in [Connections -> [Ends -> 0 .. MaxOut]]
       /\ wrote'[c][s] = wrote[c][s] + 1
       /\ \A d \in Connections, u \in Ends : d # c \/ u # s => wrote'[d][u] = wrote[d][u]
  <2>1. wrote \in [Connections -> [Ends -> 0 .. MaxOut]]
    BY DEF PunchedInv, HistoryTypes
  <2>2. PICK v : v = wrote[c][s] + 1
    OBVIOUS
  <2>3. v \in 0 .. MaxOut
    BY <2>2, <1>8, <1>9
  <2>4. PICK before : before = wrote
    OBVIOUS
  <2>5. PICK now : now = wrote'
    OBVIOUS
  <2>6. PICK range : range = 0 .. MaxOut
    OBVIOUS
  <2>7. /\ now = [before EXCEPT ![c][s] = v]
        /\ before \in [Connections -> [Ends -> range]] /\ v \in range
    BY <2>1, <2>2, <2>3, <2>4, <2>5, <2>6, <1>5
  <2>8. /\ now \in [Connections -> [Ends -> range]]
        /\ now[c][s] = v
        /\ \A d \in Connections, u \in Ends : d # c \/ u # s => now[d][u] = before[d][u]
    <3>1. c \in Connections
      BY <1>6
    <3> QED
      BY <2>7, <3>1, OneEntry, Zenon
  <2> QED
    BY <2>2, <2>4, <2>5, <2>6, <2>8
<1>13. HistoriesTyped
  BY <1>5, <1>12 DEF HistoriesTyped, PunchedInv, HistoryTypes
<1>14. OthersKept(c, s)
  BY <1>5, <1>12 DEF OthersKept
<1>15. OwnGrows(c, s, t)
  <2>1. wrote'[c][s] <= Len(got[c][t]) + Window
    <3>1. st.acked \in Int
      BY <1>6 DEF Streams
    <3>2. wrote[c][s] - st.acked < Window /\ wrote'[c][s] = wrote[c][s] + 1
      BY <1>5, <1>9, <1>12
    <3>3. wrote[c][s] \in Int /\ Len(got[c][t]) \in Int /\ Window \in Int
          /\ st.acked <= Len(got[c][t])
      BY <1>6, <1>9
    <3> QED
      BY <3>1, <3>2, <3>3
  <2>2. Len(got[c][s]) <= wrote[c][t]
    BY <1>6 DEF Carries
  <2> QED
    BY <2>1, <2>2, <1>5, <1>6, <1>9, <1>12 DEF OwnGrows
<1>16. InOrder(got'[c][s], t)
  BY <1>5, <1>6 DEF InOrder, Carries
<1>17. NumbersAgree(s, after, c, t)'
  <2>1. wrote'[c][t] = wrote[c][t]
    BY <1>6, <1>12
  <2>2. ~ st.fin_sent
    BY <1>5, <1>7 DEF NumbersAgree
  <2> QED
    BY <2>1, <2>2, <1>5, <1>7, <1>9, <1>10, <1>12 DEF NumbersAgree
<1>18. SendsTruth
  <2>1. PICK m : m = Segment(s, "DATA", c, st.next_out)
    OBVIOUS
  <2>2. m.to = t /\ m.kind = "DATA" /\ m.id = c /\ m.seq = st.next_out /\ m \in Segments
    BY <2>1, <1>3, <1>6, <1>8 DEF Segment, Segments, SegmentKinds
  <2>3. connected' = connected
    BY <1>5 DEF Turn
  <2>4. TrueOf(m, s, t)'
    BY <2>2, <2>3, <1>6, <1>8, <1>9, <1>12 DEF TrueOf
  <2>5. segments \subseteq Segments
    BY DEF PunchedInv, PunchedTypes
  <2> QED
    BY <2>1, <2>2, <2>4, <2>5, <1>5, <1>6 DEF SendsTruth
<1>19. TurnIsSound(s, c, t, st, after)
  BY <1>10, <1>13, <1>14, <1>15, <1>16, <1>17, <1>18 DEF TurnIsSound
<1>20. PunchedInv'
  BY <1>1, <1>2, <1>3, <1>5, <1>10, <1>19, TurnKeeps
<1>21. Stream!Next
  <2>1. Stream!Write(c, s)
    BY <1>5, <1>6, <1>9, <1>11, TurnCutsNothing DEF Stream!Write
  <2> QED
    BY <2>1, <1>6 DEF Stream!Next
<1> QED
  BY <1>20, <1>21

\* The program closing its half ends the abstract stream at what it wrote.
LEMMA CloseWriteKeeps ==
    ASSUME PunchedInv, UNCHANGED plan, UNCHANGED dropped, NEW s \in Ends, CloseWrite(s)
    PROVE  PunchedInv' /\ Stream!Next
<1>1. PICK st : st = stream[s]
  OBVIOUS
<1>2. PICK c : c = st.id
  OBVIOUS
<1>3. PICK t : t = Other(s)
  OBVIOUS
<1>4. PICK after : after = [st EXCEPT !.read_closed = TRUE]
  OBVIOUS
<1>5. /\ Running(s)
      /\ ~ st.read_closed
      /\ final' = [final EXCEPT ![c][s] = wrote[c][s]]
      /\ Turn(s, after)
      /\ segments' = segments /\ wrote' = wrote /\ got' = got
  BY <1>1, <1>2, <1>4 DEF CloseWrite
<1>6. /\ st \in Streams /\ st.acked <= st.next_out
      /\ c \in Connections
      /\ t \in Ends /\ t # s
      /\ Agrees(s, st, c, t)
      /\ Carries(c, s, t) /\ Carries(c, t, s)
      /\ wrote[c][s] \in 0 .. MaxOut
      /\ Len(got[c][s]) \in Nat /\ Len(got[c][t]) \in Nat
  <2>1. Facts(s, st, c, t)
    BY <1>1, <1>2, <1>3, <1>5, RunningFacts DEF Running
  <2> QED
    BY <2>1 DEF Facts
<1>7. NumbersAgree(s, st, c, t)
  BY <1>6 DEF Agrees
<1>8. final[c][s] = NoFin /\ ~ st.fin_sent
  BY <1>5, <1>7 DEF NumbersAgree
<1>9. /\ after \in Streams /\ after.id = c /\ after.acked <= after.next_out
      /\ after.peer_fin = st.peer_fin /\ after.read_closed = TRUE
      /\ after.next_out = st.next_out /\ after.next_in = st.next_in
      /\ after.acked = st.acked /\ after.early = st.early /\ after.fin_sent = st.fin_sent
  BY <1>2, <1>4, <1>6 DEF Streams
<1>10. ended' = ended
  BY <1>1, <1>2, <1>5, <1>9, TurnShowsNothing
<1>11. PICK v : v = wrote[c][s]
  OBVIOUS
<1>12. /\ final' \in [Connections -> [Ends -> {NoFin} \cup 0 .. MaxOut]]
       /\ final'[c][s] = v
       /\ \A d \in Connections, u \in Ends : d # c \/ u # s => final'[d][u] = final[d][u]
  <2>1. PICK before : before = final
    OBVIOUS
  <2>2. PICK now : now = final'
    OBVIOUS
  <2>3. /\ now = [before EXCEPT ![c][s] = v]
        /\ before \in [Connections -> [Ends -> {NoFin} \cup 0 .. MaxOut]]
        /\ v \in {NoFin} \cup 0 .. MaxOut
    BY <2>1, <2>2, <1>5, <1>6, <1>11 DEF PunchedInv, HistoryTypes
  <2>4. /\ now \in [Connections -> [Ends -> {NoFin} \cup 0 .. MaxOut]]
        /\ now[c][s] = v
        /\ \A d \in Connections, u \in Ends : d # c \/ u # s => now[d][u] = before[d][u]
    BY <2>3, <1>6, OneEntry
  <2> QED
    BY <2>1, <2>2, <2>4
<1>13. v # NoFin
  BY <1>6, <1>11 DEF NoFin
<1>14. HistoriesTyped
  BY <1>5, <1>12 DEF HistoriesTyped, PunchedInv, HistoryTypes
<1>15. OthersKept(c, s)
  BY <1>5, <1>12 DEF OthersKept
<1>16. OwnGrows(c, s, t)
  BY <1>5, <1>6, <1>8, <1>11, <1>12 DEF OwnGrows, Carries
<1>17. InOrder(got'[c][s], t)
  BY <1>5, <1>6 DEF InOrder, Carries
<1>18. NumbersAgree(s, after, c, t)'
  <2>1. final'[c][t] = final[c][t]
    BY <1>6, <1>12
  <2> QED
    BY <2>1, <1>5, <1>7, <1>8, <1>9, <1>12, <1>13 DEF NumbersAgree
<1>19. SendsTruth
  BY <1>5 DEF SendsTruth, PunchedInv, PunchedTypes
<1>20. TurnIsSound(s, c, t, st, after)
  BY <1>9, <1>14, <1>15, <1>16, <1>17, <1>18, <1>19 DEF TurnIsSound
<1>21. PunchedInv'
  BY <1>1, <1>2, <1>3, <1>5, <1>9, <1>20, TurnKeeps
<1>22. Stream!Next
  <2>1. PICK shut : shut = [d \in Connections |-> [u \in Ends |-> final[d][u] # NoFin]]
    OBVIOUS
  <2>2. PICK now : now = [d \in Connections |-> [u \in Ends |-> final'[d][u] # NoFin]]
    OBVIOUS
  <2>3. now = [shut EXCEPT ![c][s] = TRUE]
    <3>1. PICK row : row = [shut[c] EXCEPT ![s] = TRUE]
      OBVIOUS
    <3>2. now[c] = row
      <4>1. shut[c] \in [Ends -> BOOLEAN] /\ \A u \in Ends : shut[c][u] = (final[c][u] # NoFin)
        BY <2>1, <1>6
      <4>2. \A u \in Ends : now[c][u] = row[u]
        <5> SUFFICES ASSUME NEW u \in Ends PROVE now[c][u] = row[u]
          OBVIOUS
        <5>1. now[c][u] = (final'[c][u] # NoFin)
          BY <2>2, <1>6
        <5>2. CASE u = s
          BY <5>1, <5>2, <4>1, <3>1, <1>12, <1>13
        <5>3. CASE u # s
          BY <5>1, <5>3, <4>1, <3>1, <1>6, <1>12
        <5> QED
          BY <5>2, <5>3
      <4>3. row \in [Ends -> BOOLEAN] /\ now[c] \in [Ends -> BOOLEAN]
        BY <4>1, <3>1, <2>2, <1>6
      <4> QED
        BY <4>2, <4>3
    <3>3. \A d \in Connections : d # c => now[d] = shut[d]
      BY <2>1, <2>2, <1>12
    <3>4. now \in [Connections -> [Ends -> BOOLEAN]] /\ shut \in [Connections -> [Ends -> BOOLEAN]]
      BY <2>1, <2>2
    <3>5. now = [shut EXCEPT ![c] = row]
      BY <3>2, <3>3, <3>4
    <3> QED
      BY <3>1, <3>5
  <2>4. Stream!Finish(c, s)
    BY <2>1, <2>2, <2>3, <1>5, <1>10, TurnCutsNothing DEF Stream!Finish
  <2> QED
    BY <2>4, <1>6 DEF Stream!Next
<1> QED
  BY <1>21, <1>22

\* The greater, and the less, of two numbers.
LEMMA OfTwo ==
    ASSUME NEW a \in Int, NEW b \in Int
    PROVE  /\ Max({a, b}) \in {a, b} /\ Max({a, b}) >= a /\ Max({a, b}) >= b
           /\ Min({a, b}) \in {a, b} /\ Min({a, b}) <= a /\ Min({a, b}) <= b
<1>1. \E x \in {a, b} : \A y \in {a, b} : x >= y
  <2>1. CASE a >= b
    BY <2>1
  <2>2. CASE ~ (a >= b)
    BY <2>2
  <2> QED
    BY <2>1, <2>2
<1>2. \E x \in {a, b} : \A y \in {a, b} : x =< y
  <2>1. CASE a >= b
    BY <2>1
  <2>2. CASE ~ (a >= b)
    BY <2>2
  <2> QED
    BY <2>1, <2>2
<1>3. Max({a, b}) \in {a, b} /\ \A y \in {a, b} : Max({a, b}) >= y
  BY <1>1 DEF Max
<1>4. Min({a, b}) \in {a, b} /\ \A y \in {a, b} : Min({a, b}) =< y
  BY <1>2 DEF Min
<1> QED
  BY <1>3, <1>4

\* What is sent and true.
LEMMA SentTruth ==
    ASSUME PunchedInv, UNCHANGED connected, UNCHANGED <<wrote, final, got>>,
           NEW new, new \subseteq Segments, segments' \subseteq segments \cup new,
           \A m \in new : TrueOf(m, Other(m.to), m.to)
    PROVE  SendsTruth
<1>1. \A m \in new : TrueOf(m, Other(m.to), m.to)'
  BY DEF TrueOf
<1>2. segments \subseteq Segments
  BY DEF PunchedInv, PunchedTypes
<1> QED
  BY <1>1, <1>2 DEF SendsTruth

\* An acknowledgement names what was read: `acked` moves up to it, and a FIN goes out
\* once it reaches all that was written.
LEMMA OnAckKeeps ==
    ASSUME PunchedInv, UNCHANGED plan, UNCHANGED dropped, NEW m \in segments,
           Running(m.to), m.id = stream[m.to].id, OnAck(m.to, m)
    PROVE  PunchedInv' /\ UNCHANGED Stream!vars
<1>1. PICK s : s = m.to
  OBVIOUS
<1>2. PICK st : st = stream[s]
  OBVIOUS
<1>3. PICK c : c = st.id
  OBVIOUS
<1>4. PICK t : t = Other(s)
  OBVIOUS
<1>5. PICK a : a = Max({st.acked, Min({m.seq, st.next_out})})
  OBVIOUS
<1>6. PICK after : after = [st EXCEPT !.acked = a]
  OBVIOUS
<1>7. m \in Segments /\ TrueOf(m, Other(m.to), m.to)
  BY DEF PunchedInv, PunchedTypes, SegmentsAreTrue
<1>8. s \in Ends /\ m.seq \in Nat
  BY <1>1, <1>7 DEF Segments
<1>9. /\ m.kind = "ACK" /\ segments' = Without(m)
      /\ Turn(s, after) /\ UNCHANGED <<wrote, final, got>>
      /\ Running(s) /\ m.id = c
  BY <1>1, <1>2, <1>3, <1>5, <1>6 DEF OnAck
<1>10. /\ st \in Streams /\ st.acked <= st.next_out
       /\ c \in Connections
       /\ t \in Ends /\ t # s
       /\ Agrees(s, st, c, t)
       /\ Len(got[c][t]) \in Nat
  <2>1. Facts(s, st, c, t)
    BY <1>2, <1>3, <1>4, <1>8, <1>9, RunningFacts DEF Running
  <2> QED
    BY <2>1 DEF Facts
<1>11. NumbersAgree(s, st, c, t)
  BY <1>10 DEF Agrees
<1>12. a \in 0 .. MaxOut /\ a <= st.next_out /\ a <= Len(got[c][t]) /\ (st.acked = st.next_out => a = st.next_out)
  <2>1. st.acked \in Nat /\ st.next_out \in Nat /\ st.next_out \in 0 .. MaxOut /\ st.acked \in 0 .. MaxOut
    BY <1>10 DEF Streams
  <2>2. PICK least : least = Min({m.seq, st.next_out})
    OBVIOUS
  <2>3. least \in Nat /\ least <= m.seq /\ least <= st.next_out
    <3>1. m.seq \in Int /\ st.next_out \in Int
      BY <2>1, <1>8
    <3>2. least \in {m.seq, st.next_out} /\ least <= m.seq /\ least <= st.next_out
      BY <3>1, <2>2, OfTwo, Zenon
    <3> QED
      BY <3>2, <2>1, <1>8
  <2>4. a \in {st.acked, least} /\ a >= st.acked
    <3>1. least \in Int /\ st.acked \in Int
      BY <2>1, <2>3
    <3>2. a = Max({st.acked, least})
      BY <2>2, <1>5
    <3> QED
      BY <3>1, <3>2, OfTwo, Zenon
  <2>5. m.seq <= Len(got[c][t]) /\ st.acked <= Len(got[c][t])
    BY <1>1, <1>4, <1>7, <1>9, <1>11 DEF TrueOf, NumbersAgree
  <2>6. MaxOut \in Int
    BY PlansAreBounded DEF PunchedInv, PunchedTypes
  <2> QED
    BY <2>1, <2>3, <2>4, <2>5, <2>6, <1>8, <1>10
<1>13. /\ after \in Streams /\ after.id = c /\ after.acked = a
       /\ after.peer_fin = st.peer_fin /\ after.read_closed = st.read_closed
       /\ after.next_out = st.next_out /\ after.next_in = st.next_in
       /\ after.early = st.early /\ after.fin_sent = st.fin_sent
  BY <1>3, <1>6, <1>10, <1>12 DEF Streams
<1>14. NumbersAgree(s, after, c, t)
  BY <1>11, <1>12, <1>13 DEF NumbersAgree
<1>15. SendsTruth
  <2>1. PICK new : new = {}
    OBVIOUS
  <2>2. /\ segments' \subseteq segments \cup new /\ UNCHANGED connected
        /\ new \subseteq Segments
        /\ \A x \in new : TrueOf(x, Other(x.to), x.to)
    BY <2>1, <1>9 DEF Without, Turn
  <2> QED
    BY <2>2, <1>9, SentTruth
<1>16. after.acked <= after.next_out
  BY <1>12, <1>13
<1> QED
  BY <1>2, <1>3, <1>4, <1>8, <1>9, <1>13, <1>14, <1>15, <1>16, QuietTurn

\* What is handed on continues what was handed on before.
LEMMA Continued ==
    ASSUME NEW t, NEW s, t = Other(s), NEW S, NEW q \in Seq(S), InOrder(q, t),
           NEW a, a = Len(q), NEW b \in Nat, a <= b
    PROVE  LET more == q \o Payloads(s, a, b)
           IN  InOrder(more, t) /\ Len(more) = b /\ (a = b => more = q)
<1>1. PICK fresh : fresh = Payloads(s, a, b)
  OBVIOUS
<1>2. PICK k : k = b - a
  OBVIOUS
<1>3. k \in Nat /\ a \in Nat /\ a + k = b
  BY <1>2
<1>4. fresh = [i \in 1 .. k |-> [by |-> t, n |-> a + i - 1]]
  BY <1>1, <1>2 DEF Payloads
<1>5. PICK R : R = {fresh[i] : i \in 1 .. k}
  OBVIOUS
<1>6. fresh \in Seq(R) /\ Len(fresh) = k
  <2>1. fresh \in [1 .. k -> R]
    BY <1>4, <1>5
  <2> QED
    BY <2>1, <1>3
<1>7. PICK W : W = S \cup R
  OBVIOUS
<1>8. q \in Seq(W) /\ fresh \in Seq(W)
  BY <1>6, <1>7
<1>9. PICK more : more = q \o fresh
  OBVIOUS
<1>10. more \in Seq(W) /\ Len(more) = b
  <2>1. more \in Seq(W) /\ Len(more) = Len(q) + Len(fresh)
    BY <1>8, <1>9
  <2> QED
    BY <2>1, <1>3, <1>6
<1>11. ASSUME NEW i \in 1 .. b PROVE more[i] = [by |-> t, n |-> i - 1]
  <2>1. CASE i <= a
    <3>1. q[i] = [by |-> t, n |-> i - 1]
      <4>1. PICK l : l = Len(q)
        OBVIOUS
      <4>2. q = [j \in 1 .. l |-> [by |-> t, n |-> j - 1]]
        BY <4>1 DEF InOrder
      <4>3. i \in 1 .. l
        BY <2>1, <1>3, <4>1
      <4> QED
        BY <4>2, <4>3
    <3>2. more[i] = q[i]
      BY <2>1, <1>3, <1>6, <1>8, <1>9
    <3> QED
      BY <3>1, <3>2
  <2>2. CASE ~ (i <= a)
    <3>1. i - a \in 1 .. k
      BY <2>2, <1>3
    <3>2. more[i] = fresh[i - a]
      BY <2>2, <3>1, <1>3, <1>6, <1>8, <1>9
    <3>3. fresh[i - a] = [by |-> t, n |-> a + (i - a) - 1]
      BY <1>4, <3>1
    <3>4. a + (i - a) - 1 = i - 1
      BY <1>3, <2>2
    <3> QED
      BY <3>2, <3>3, <3>4
  <2> QED
    BY <2>1, <2>2
<1>12. InOrder(more, t)
  <2>1. more = [i \in 1 .. b |-> more[i]]
    BY <1>10
  <2>2. more = [i \in 1 .. b |-> [by |-> t, n |-> i - 1]]
    BY <2>1, <1>11
  <2> QED
    BY <2>2, <1>10 DEF InOrder
<1>13. a = b => more = q
  <2> SUFFICES ASSUME a = b PROVE more = q
    OBVIOUS
  <2>1. Len(q) = Len(more) /\ \A i \in 1 .. Len(q) : more[i] = q[i]
    BY <1>3, <1>6, <1>8, <1>9, <1>10
  <2> QED
    BY <2>1, <1>8, <1>10
<1> QED
  BY <1>1, <1>9, <1>10, <1>12, <1>13

\* A segment: what it and those held before it complete is read at once.
LEMMA OnDataKeeps ==
    ASSUME PunchedInv, UNCHANGED plan, UNCHANGED dropped, NEW m \in segments,
           Running(m.to), m.id = stream[m.to].id, OnData(m.to, m)
    PROVE  PunchedInv' /\ [Stream!Next]_(Stream!vars)
<1>1. PICK s : s = m.to
  OBVIOUS
<1>2. PICK st : st = stream[s]
  OBVIOUS
<1>3. PICK c : c = st.id
  OBVIOUS
<1>4. PICK t : t = Other(s)
  OBVIOUS
<1>5. PICK held : held = IF m.seq >= st.next_in THEN st.early \cup {m.seq} ELSE st.early
  OBVIOUS
<1>6. PICK after : after = Drained(st, held)
  OBVIOUS
<1>7. m \in Segments /\ TrueOf(m, Other(m.to), m.to)
  BY DEF PunchedInv, PunchedTypes, SegmentsAreTrue
<1>8. s \in Ends /\ m.seq \in Nat
  BY <1>1, <1>7 DEF Segments
<1>9. /\ m.kind = "DATA"
      /\ got' = [got EXCEPT ![c][s] = @ \o Payloads(s, st.next_in, after.next_in)]
      /\ segments' = Without(m) \cup {Segment(s, "ACK", c, after.next_in)}
      /\ Turn(s, after)
      /\ wrote' = wrote /\ final' = final
      /\ Running(s) /\ m.id = c
  BY <1>1, <1>2, <1>3, <1>5, <1>6 DEF OnData
<1>10. /\ st \in Streams /\ st.acked <= st.next_out
       /\ c \in Connections /\ c \in 1 .. connected
       /\ t \in Ends /\ t # s /\ Other(t) = s /\ Ends = {s, t}
       /\ Agrees(s, st, c, t)
       /\ Carries(c, s, t) /\ Carries(c, t, s)
       /\ wrote[c][s] \in 0 .. MaxOut /\ wrote[c][t] \in 0 .. MaxOut
       /\ got[c][s] \in Seq([by : Ends, n : Nat])
       /\ Len(got[c][s]) \in Nat /\ Len(got[c][t]) \in Nat
       /\ MaxOut \in Nat /\ Window \in Nat
  <2>1. Facts(s, st, c, t)
    BY <1>2, <1>3, <1>4, <1>8, <1>9, RunningFacts DEF Running
  <2> QED
    BY <2>1 DEF Facts
<1>11. NumbersAgree(s, st, c, t)
  BY <1>10 DEF Agrees
<1>12. \A n \in held : n \in Int /\ n >= st.next_in /\ n < wrote[c][t]
  <2>1. m.seq < wrote[c][t]
    BY <1>1, <1>4, <1>7, <1>9 DEF TrueOf
  <2>2. \A n \in st.early : n \in Int /\ n >= st.next_in /\ n < wrote[c][t]
    <3>1. st.early \subseteq 0 .. MaxOut - 1
      BY <1>10 DEF Streams
    <3> QED
      BY <3>1, <1>10, <1>11 DEF NumbersAgree
  <2> QED
    BY <2>1, <2>2, <1>5, <1>8
<1>13. st.next_in \in Nat /\ st.next_in <= wrote[c][t]
  BY <1>10, <1>11 DEF NumbersAgree, Carries
<1>14. held \subseteq st.next_in .. MaxOut - 1
  BY <1>10, <1>12, <1>13
<1>15. /\ after \in Streams
       /\ after = [st EXCEPT !.early = after.early, !.next_in = after.next_in]
       /\ after.next_in >= st.next_in
       /\ \A n \in st.next_in .. after.next_in - 1 : n \in held
       /\ after.early \subseteq held
       /\ \A n \in after.early : n >= after.next_in
  BY <1>6, <1>10, <1>14, DrainedIs
<1>16. /\ after.id = c /\ after.acked = st.acked /\ after.next_out = st.next_out
       /\ after.peer_fin = st.peer_fin /\ after.read_closed = st.read_closed
       /\ after.fin_sent = st.fin_sent
  BY <1>3, <1>10, <1>15 DEF Streams
<1>17. after.next_in \in Nat /\ after.next_in <= wrote[c][t]
  <2>1. after.next_in \in Nat
    BY <1>15 DEF Streams
  <2>2. CASE after.next_in = st.next_in
    BY <2>1, <2>2, <1>13
  <2>3. CASE after.next_in # st.next_in
    <3>1. after.next_in - 1 \in st.next_in .. after.next_in - 1
      BY <2>1, <2>3, <1>13, <1>15
    <3>2. after.next_in - 1 < wrote[c][t]
      BY <3>1, <1>12, <1>15
    <3> QED
      BY <3>2, <2>1, <1>10
  <2> QED
    BY <2>2, <2>3
<1>18. st.peer_fin # NoFin => after.next_in = st.next_in
  BY <1>11, <1>13, <1>15, <1>17 DEF NumbersAgree
<1>19. PICK q : q = got[c][s] \o Payloads(s, st.next_in, after.next_in)
  OBVIOUS
<1>20. InOrder(q, t) /\ Len(q) = after.next_in /\ (after.next_in = st.next_in => q = got[c][s])
  <2>1. PICK old : old = got[c][s]
    OBVIOUS
  <2>2. InOrder(old, t) /\ Len(old) = st.next_in /\ old \in Seq([by : Ends, n : Nat])
    BY <2>1, <1>10, <1>11 DEF Carries, NumbersAgree, InOrder
  <2>3. PICK S : S = [by : Ends, n : Nat]
    OBVIOUS
  <2>4. old \in Seq(S) /\ q = old \o Payloads(s, st.next_in, after.next_in)
    BY <2>1, <2>2, <2>3, <1>19
  <2>5. PICK a : a = st.next_in
    OBVIOUS
  <2>6. PICK b : b = after.next_in
    OBVIOUS
  <2>7. InOrder(q, t) /\ Len(q) = b /\ (a = b => q = old)
    BY <2>2, <2>4, <2>5, <2>6, <1>4, <1>15, <1>17, Continued
  <2> QED
    BY <2>1, <2>5, <2>6, <2>7
<1>21. q \in Seq([by : Ends, n : Nat])
  <2>1. PICK l : l = after.next_in
    OBVIOUS
  <2>2. q = [i \in 1 .. l |-> [by |-> t, n |-> i - 1]] /\ l \in Nat
    BY <2>1, <1>17, <1>20 DEF InOrder
  <2>3. \A i \in 1 .. l : [by |-> t, n |-> i - 1] \in [by : Ends, n : Nat]
    BY <2>2, <1>10
  <2> QED
    BY <2>2, <2>3
<1>22. /\ got' \in [Connections -> [Ends -> Seq([by : Ends, n : Nat])]]
       /\ got'[c][s] = q
       /\ \A d \in Connections, u \in Ends : d # c \/ u # s => got'[d][u] = got[d][u]
  <2>1. PICK before : before = got
    OBVIOUS
  <2>2. PICK now : now = got'
    OBVIOUS
  <2>3. PICK S : S = Seq([by : Ends, n : Nat])
    OBVIOUS
  <2>4. /\ now = [before EXCEPT ![c][s] = q]
        /\ before \in [Connections -> [Ends -> S]] /\ q \in S
    BY <2>1, <2>2, <2>3, <1>9, <1>19, <1>21 DEF PunchedInv, HistoryTypes
  <2>5. /\ now \in [Connections -> [Ends -> S]]
        /\ now[c][s] = q
        /\ \A d \in Connections, u \in Ends : d # c \/ u # s => now[d][u] = before[d][u]
    <3>1. c \in Connections
      BY <1>10
    <3> QED
      BY <2>4, <3>1, <1>8, OneEntry, Zenon
  <2> QED
    BY <2>1, <2>2, <2>3, <2>5
<1>23. HistoriesTyped
  BY <1>9, <1>22 DEF HistoriesTyped, PunchedInv, HistoryTypes
<1>24. OthersKept(c, s)
  BY <1>9, <1>22 DEF OthersKept
<1>25. OwnGrows(c, s, t)
  <2>1. Len(got'[c][s]) >= Len(got[c][s]) /\ Len(got'[c][s]) <= wrote[c][t]
    BY <1>11, <1>15, <1>17, <1>20, <1>22 DEF NumbersAgree
  <2> QED
    BY <2>1, <1>9, <1>10 DEF OwnGrows, Carries
<1>26. got'[c][t] = got[c][t]
  BY <1>10, <1>22
<1>27. NumbersAgree(s, after, c, t)'
  <2>1. \A n \in after.early : n >= after.next_in /\ n < wrote[c][t]
    BY <1>12, <1>15
  <2>2. Len(got'[c][s]) = after.next_in
    BY <1>20, <1>22
  <2>3. /\ wrote'[c][s] = after.next_out
        /\ after.read_closed <=> final'[c][s] # NoFin
        /\ after.acked <= Len(got'[c][t])
        /\ after.fin_sent => after.read_closed /\ after.acked = after.next_out
    BY <1>9, <1>11, <1>16, <1>26 DEF NumbersAgree
  <2>4. after.peer_fin # NoFin =>
           final'[c][t] # NoFin /\ after.peer_fin = wrote'[c][t] /\ after.next_in = after.peer_fin
    BY <1>9, <1>11, <1>16, <1>18 DEF NumbersAgree
  <2> QED
    BY <2>1, <2>2, <2>3, <2>4, <1>9 DEF NumbersAgree
<1>28. SendsTruth
  <2>1. PICK a : a = Segment(s, "ACK", c, after.next_in)
    OBVIOUS
  <2>2. a.to = t /\ a.kind = "ACK" /\ a.id = c /\ a.seq = after.next_in /\ a \in Segments
    <3>1. after.next_in \in 0 .. MaxOut
      BY <1>15 DEF Streams
    <3> QED
      BY <2>1, <3>1, <1>4, <1>10 DEF Segment, Segments, SegmentKinds
  <2>3. connected' = connected
    BY <1>9 DEF Turn
  <2>4. Len(got'[c][s]) = after.next_in
    BY <1>20, <1>22
  <2>5. TrueOf(a, s, t)'
    BY <2>2, <2>3, <2>4, <1>10, <1>17 DEF TrueOf
  <2>6. segments \subseteq Segments
    BY DEF PunchedInv, PunchedTypes
  <2> QED
    BY <2>1, <2>2, <2>5, <2>6, <1>9, <1>10 DEF SendsTruth, Without
<1>29. InOrder(got'[c][s], t)
  BY <1>20, <1>22
<1>30. TurnIsSound(s, c, t, st, after)
  BY <1>10, <1>16, <1>23, <1>24, <1>25, <1>27, <1>28, <1>29 DEF TurnIsSound
<1>31. PunchedInv'
  BY <1>2, <1>3, <1>4, <1>8, <1>9, <1>15, <1>30, TurnKeeps
<1>32. ended' = ended
  BY <1>2, <1>3, <1>8, <1>9, <1>15, <1>16, TurnShowsNothing
<1>33. CASE after.next_in = st.next_in
  <2>1. got' = got
    <3>1. q = got[c][s]
      BY <1>20, <1>33
    <3>2. got' = [got EXCEPT ![c][s] = q]
      BY <1>9, <1>19
    <3>3. got \in [Connections -> [Ends -> Seq([by : Ends, n : Nat])]]
      BY DEF PunchedInv, HistoryTypes
    <3>4. got'[c] = got[c]
      BY <3>1, <3>2, <3>3, <1>8, <1>10
    <3> QED
      BY <3>2, <3>3, <3>4, <1>10
  <2>2. UNCHANGED history /\ UNCHANGED cut
    BY <2>1, <1>9, <1>32, TurnCutsNothing DEF history
  <2> QED
    BY <2>2, <1>31, NothingSeen
<1>34. CASE after.next_in # st.next_in
  <2>1. PICK n : n = after.next_in - st.next_in
    OBVIOUS
  <2>2. n \in 1 .. wrote[c][t] /\ Len(got[c][s]) + n = after.next_in
    BY <2>1, <1>10, <1>11, <1>13, <1>15, <1>17, <1>34 DEF NumbersAgree
  <2>3. ~ ended[c][s]
    BY <1>10, <1>18, <1>34 DEF Agrees
  <2>4. got' = [got EXCEPT ![c][s] = [i \in 1 .. Len(got[c][s]) + n |-> [by |-> t, n |-> i - 1]]]
    <3>1. PICK l : l = Len(got[c][s]) + n
      OBVIOUS
    <3>2. q = [i \in 1 .. l |-> [by |-> t, n |-> i - 1]]
      BY <3>1, <2>2, <1>20 DEF InOrder
    <3>3. got' = [got EXCEPT ![c][s] = q]
      BY <1>9, <1>19
    <3> QED
      BY <3>1, <3>2, <3>3
  <2>5. Stream!Read(c, s, t, n)
    <3>1. Len(got[c][s]) + n <= wrote[c][t]
      BY <2>2, <1>17
    <3> QED
      BY <2>3, <2>4, <3>1, <1>9, <1>32, TurnCutsNothing DEF Stream!Read
  <2>6. t \in Ends \ {s}
    BY <1>10
  <2>7. Stream!Next
    BY <2>2, <2>5, <2>6, <1>8, <1>10 DEF Stream!Next
  <2> QED
    BY <2>7, <1>31
<1> QED
  BY <1>33, <1>34

\* A FIN that is heard follows all that was written, which was read: the end is
\* shown.
LEMMA OnFinKeeps ==
    ASSUME PunchedInv, UNCHANGED plan, UNCHANGED dropped, NEW m \in segments,
           Running(m.to), m.id = stream[m.to].id, OnFin(m.to, m)
    PROVE  PunchedInv' /\ Stream!Next
<1>1. PICK s : s = m.to
  OBVIOUS
<1>2. PICK st : st = stream[s]
  OBVIOUS
<1>3. PICK c : c = st.id
  OBVIOUS
<1>4. PICK t : t = Other(s)
  OBVIOUS
<1>5. PICK after : after = [st EXCEPT !.peer_fin = m.seq]
  OBVIOUS
<1>6. m \in Segments /\ TrueOf(m, Other(m.to), m.to)
  BY DEF PunchedInv, PunchedTypes, SegmentsAreTrue
<1>7. s \in Ends /\ m.seq \in 0 .. MaxOut
  BY <1>1, <1>6 DEF Segments
<1>8. /\ m.kind = "FIN"
      /\ segments' = Without(m) \cup {Segment(s, "ACK", c, st.next_in)}
      /\ Turn(s, after)
      /\ wrote' = wrote /\ final' = final /\ got' = got
      /\ Running(s) /\ m.id = c
  BY <1>1, <1>2, <1>3, <1>5 DEF OnFin
<1>9. /\ st \in Streams /\ st.acked <= st.next_out
      /\ c \in Connections /\ c \in 1 .. connected
      /\ t \in Ends /\ t # s /\ Other(t) = s /\ Ends = {s, t}
      /\ Agrees(s, st, c, t)
      /\ Carries(c, s, t) /\ Carries(c, t, s)
      /\ wrote[c][s] \in 0 .. MaxOut
      /\ Len(got[c][s]) \in Nat /\ Len(got[c][t]) \in Nat
  <2>1. Facts(s, st, c, t)
    BY <1>2, <1>3, <1>4, <1>7, <1>8, RunningFacts DEF Running
  <2> QED
    BY <2>1 DEF Facts
<1>10. NumbersAgree(s, st, c, t)
  BY <1>9 DEF Agrees
<1>11. final[c][t] # NoFin /\ m.seq = wrote[c][t] /\ Len(got[c][s]) = m.seq /\ st.next_in = m.seq
  BY <1>1, <1>4, <1>6, <1>8, <1>10 DEF TrueOf, NumbersAgree
<1>12. /\ after \in Streams /\ after.id = c /\ after.acked <= after.next_out
       /\ after.peer_fin = m.seq /\ after.read_closed = st.read_closed
       /\ after.next_out = st.next_out /\ after.next_in = st.next_in
       /\ after.acked = st.acked /\ after.early = st.early /\ after.fin_sent = st.fin_sent
  BY <1>3, <1>5, <1>7, <1>9 DEF Streams
<1>13. HistoriesTyped
  BY <1>8 DEF HistoriesTyped, PunchedInv, HistoryTypes
<1>14. OthersKept(c, s)
  BY <1>8 DEF OthersKept
<1>15. OwnGrows(c, s, t)
  BY <1>8, <1>9 DEF OwnGrows, Carries
<1>16. InOrder(got'[c][s], t)
  BY <1>8, <1>9 DEF InOrder, Carries
<1>17. NumbersAgree(s, after, c, t)'
  BY <1>8, <1>10, <1>11, <1>12 DEF NumbersAgree
<1>18. SendsTruth
  <2>1. PICK new : new = {Segment(s, "ACK", c, st.next_in)}
    OBVIOUS
  <2>2. \A a \in new : /\ a.to = t /\ a.kind = "ACK" /\ a.id = c /\ a.seq = st.next_in
                       /\ a \in Segments
    BY <2>1, <1>4, <1>7, <1>9, <1>11 DEF Segment, Segments, SegmentKinds
  <2>3. \A a \in new : TrueOf(a, Other(a.to), a.to)
    BY <2>2, <1>7, <1>9, <1>10, <1>11 DEF TrueOf, NumbersAgree
  <2>4. segments' \subseteq segments \cup new /\ UNCHANGED connected /\ new \subseteq Segments
    BY <2>1, <2>2, <1>8 DEF Without, Turn
  <2> QED
    BY <2>3, <2>4, <1>8, SentTruth
<1>19. after.peer_fin # NoFin
  BY <1>7, <1>12 DEF NoFin
<1>20. TurnIsSound(s, c, t, st, after)
  BY <1>12, <1>13, <1>14, <1>15, <1>16, <1>17, <1>18, <1>19 DEF TurnIsSound
<1>21. PunchedInv'
  BY <1>2, <1>3, <1>4, <1>7, <1>8, <1>12, <1>20, TurnKeeps
<1>22. Stream!ShowEnd(c, s, t)
  <2>1. ended' = [ended EXCEPT ![c][s] = TRUE]
    BY <1>8, <1>11, <1>12 DEF Turn
  <2>2. Len(got[c][s]) = wrote[c][t]
    BY <1>11
  <2>3. [d \in Connections |-> [u \in Ends |-> final[d][u] # NoFin]][c][t] = TRUE
    BY <1>9, <1>11
  <2> QED
    BY <2>1, <2>2, <2>3, <1>8, TurnCutsNothing DEF Stream!ShowEnd
<1>23. t \in Ends \ {s}
  BY <1>9
<1>24. Stream!Next
  BY <1>7, <1>9, <1>22, <1>23 DEF Stream!Next
<1> QED
  BY <1>21, <1>24

\* A repeated SYN of the running connection is answered, and nothing else changes.
LEMMA OnSynKeeps ==
    ASSUME PunchedInv, UNCHANGED plan, UNCHANGED dropped, NEW m \in segments,
           Running(m.to), m.id = stream[m.to].id, OnSyn(m.to, m)
    PROVE  PunchedInv' /\ UNCHANGED Stream!vars
<1>1. PICK s : s = m.to
  OBVIOUS
<1>2. PICK st : st = stream[s]
  OBVIOUS
<1>3. PICK c : c = st.id
  OBVIOUS
<1>4. PICK t : t = Other(s)
  OBVIOUS
<1>5. s \in Ends
  BY <1>1 DEF PunchedInv, PunchedTypes, Segments
<1>6. /\ segments' = Without(m) \cup {Segment(s, "SYN", c, 0)}
      /\ Turn(s, st)
      /\ UNCHANGED <<wrote, final, got>>
      /\ Running(s)
  BY <1>1, <1>2, <1>3 DEF OnSyn
<1>7. /\ st \in Streams /\ st.acked <= st.next_out
      /\ c \in Connections /\ c \in 1 .. connected
      /\ t \in Ends
      /\ Agrees(s, st, c, t)
      /\ MaxOut \in Nat
  <2>1. Facts(s, st, c, t)
    BY <1>2, <1>3, <1>4, <1>5, <1>6, RunningFacts DEF Running
  <2> QED
    BY <2>1 DEF Facts
<1>8. NumbersAgree(s, st, c, t)
  BY <1>7 DEF Agrees
<1>9. SendsTruth
  <2>1. PICK new : new = {Segment(s, "SYN", c, 0)}
    OBVIOUS
  <2>2. \A a \in new : a.to = t /\ a.kind = "SYN" /\ a.id = c /\ a \in Segments
    BY <2>1, <1>4, <1>7 DEF Segment, Segments, SegmentKinds
  <2>3. \A a \in new : TrueOf(a, Other(a.to), a.to)
    BY <2>2, <1>7 DEF TrueOf
  <2>4. segments' \subseteq segments \cup new /\ UNCHANGED connected /\ new \subseteq Segments
    BY <2>1, <2>2, <1>6 DEF Without, Turn
  <2> QED
    BY <2>3, <2>4, <1>6, SentTruth
<1> QED
  BY <1>2, <1>3, <1>4, <1>5, <1>6, <1>7, <1>8, <1>9, QuietTurn

\* What is due again was written before: its segments are true.
LEMMA ResendKeeps ==
    ASSUME PunchedInv, UNCHANGED plan, UNCHANGED dropped, NEW s \in Ends, Resend(s)
    PROVE  PunchedInv' /\ UNCHANGED Stream!vars
<1>1. PICK st : st = stream[s]
  OBVIOUS
<1>2. PICK c : c = st.id
  OBVIOUS
<1>3. PICK t : t = Other(s)
  OBVIOUS
<1>4. PICK due \in SUBSET (st.acked .. st.next_out - 1) :
         segments' = segments \cup {Segment(s, "DATA", c, q) : q \in due}
  BY <1>1, <1>2 DEF Resend
<1>5. Turn(s, st) /\ UNCHANGED <<wrote, final, got>> /\ Running(s)
  BY <1>1 DEF Resend
<1>6. /\ st \in Streams /\ st.acked <= st.next_out
      /\ c \in Connections /\ c \in 1 .. connected
      /\ t \in Ends /\ Other(t) = s
      /\ Agrees(s, st, c, t)
      /\ MaxOut \in Nat
  <2>1. Facts(s, st, c, t)
    BY <1>1, <1>2, <1>3, <1>5, RunningFacts DEF Running
  <2> QED
    BY <2>1 DEF Facts
<1>7. NumbersAgree(s, st, c, t)
  BY <1>6 DEF Agrees
<1>8. SendsTruth
  <2>1. PICK new : new = {Segment(s, "DATA", c, q) : q \in due}
    OBVIOUS
  <2>2. \A q \in due : q \in 0 .. MaxOut /\ q < wrote[c][s]
    <3>1. st.acked \in 0 .. MaxOut /\ st.next_out \in 0 .. MaxOut
      BY <1>6 DEF Streams
    <3>2. wrote[c][s] = st.next_out
      BY <1>7 DEF NumbersAgree
    <3> QED
      BY <3>1, <3>2, <1>4, <1>6
  <2>3. \A a \in new : /\ a.to = t /\ a.kind = "DATA" /\ a.id = c /\ a.seq < wrote[c][s]
                       /\ a \in Segments
    BY <2>1, <2>2, <1>3, <1>6 DEF Segment, Segments, SegmentKinds
  <2>4. \A a \in new : TrueOf(a, Other(a.to), a.to)
    BY <2>3, <1>6 DEF TrueOf
  <2>5. segments' \subseteq segments \cup new /\ UNCHANGED connected /\ new \subseteq Segments
    BY <2>1, <2>3, <1>4, <1>5 DEF Turn
  <2> QED
    BY <2>4, <2>5, <1>5, SentTruth
<1> QED
  BY <1>1, <1>2, <1>3, <1>5, <1>6, <1>7, <1>8, QuietTurn

\* A FIN goes out once everything is acknowledged, so read.
LEMMA SendFinKeeps ==
    ASSUME PunchedInv, UNCHANGED plan, UNCHANGED dropped, NEW s \in Ends, SendFin(s)
    PROVE  PunchedInv' /\ UNCHANGED Stream!vars
<1>1. PICK st : st = stream[s]
  OBVIOUS
<1>2. PICK c : c = st.id
  OBVIOUS
<1>3. PICK t : t = Other(s)
  OBVIOUS
<1>4. PICK after : after = [st EXCEPT !.fin_sent = TRUE]
  OBVIOUS
<1>5. /\ Running(s)
      /\ st.read_closed /\ st.acked = st.next_out
      /\ segments' = segments \cup {Segment(s, "FIN", c, st.next_out)}
      /\ Turn(s, after)
      /\ UNCHANGED <<wrote, final, got>>
  BY <1>1, <1>2, <1>4 DEF SendFin
<1>6. /\ st \in Streams /\ st.acked <= st.next_out
      /\ c \in Connections /\ c \in 1 .. connected
      /\ t \in Ends /\ Other(t) = s
      /\ Agrees(s, st, c, t)
      /\ Carries(c, t, s)
      /\ wrote[c][s] \in 0 .. MaxOut /\ Len(got[c][t]) \in Nat
  <2>1. Facts(s, st, c, t)
    BY <1>1, <1>2, <1>3, <1>5, RunningFacts DEF Running
  <2> QED
    BY <2>1 DEF Facts
<1>7. NumbersAgree(s, st, c, t)
  BY <1>6 DEF Agrees
<1>8. /\ after \in Streams /\ after.id = c /\ after.acked <= after.next_out
      /\ after.peer_fin = st.peer_fin /\ after.read_closed = st.read_closed
      /\ after.next_out = st.next_out /\ after.next_in = st.next_in
      /\ after.acked = st.acked /\ after.early = st.early /\ after.fin_sent = TRUE
  BY <1>2, <1>4, <1>6 DEF Streams
<1>9. NumbersAgree(s, after, c, t)
  BY <1>5, <1>7, <1>8 DEF NumbersAgree
<1>10. wrote[c][s] = st.next_out /\ Len(got[c][t]) = st.next_out /\ final[c][s] # NoFin
  <2>1. wrote[c][s] = st.next_out /\ st.next_out <= Len(got[c][t]) /\ final[c][s] # NoFin
    BY <1>5, <1>7 DEF NumbersAgree
  <2>2. Len(got[c][t]) <= wrote[c][s]
    BY <1>6 DEF Carries
  <2> QED
    BY <2>1, <2>2, <1>6
<1>11. SendsTruth
  <2>1. PICK new : new = {Segment(s, "FIN", c, st.next_out)}
    OBVIOUS
  <2>2. \A a \in new : /\ a.to = t /\ a.kind = "FIN" /\ a.id = c /\ a.seq = st.next_out
                       /\ a \in Segments
    BY <2>1, <1>3, <1>6, <1>10 DEF Segment, Segments, SegmentKinds
  <2>3. \A a \in new : TrueOf(a, Other(a.to), a.to)
    BY <2>2, <1>6, <1>10 DEF TrueOf
  <2>4. segments' \subseteq segments \cup new /\ UNCHANGED connected /\ new \subseteq Segments
    BY <2>1, <2>2, <1>5 DEF Turn
  <2> QED
    BY <2>3, <2>4, <1>5, SentTruth
<1> QED
  BY <1>1, <1>2, <1>3, <1>5, <1>8, <1>9, <1>11, QuietTurn

-----------------------------------------------------------------------------
(* The other actions: opening, what nobody takes, what is lost, the timers. *)

\* Outside of a turn, a program is shown an end only where its stream is given up.
OnlyOwnEnd ==
    \A d \in Connections, u \in Ends :
        ended'[d][u] # ended[d][u] =>
            /\ d \in cut' /\ d = stream[u].id /\ phase'[u] = "off"
            /\ d \in 1 .. connected /\ (u = "host" => d \in admitted)

\* A step that changes no stream and no history, and ends none but those it cuts.
LEMMA QuietStep ==
    ASSUME PunchedInv, UNCHANGED plan, UNCHANGED dropped,
           UNCHANGED <<connected, stream, wrote, final, got, admitted>>,
           phase' \in [Ends -> {"off", "opening", "open"}],
           \A u \in Ends : phase[u] = "off" => phase'[u] = "off",
           \A u \in Ends : phase'[u] = "off" => phase[u] = "off" \/ stream[u].id \in cut',
           cut \subseteq cut', cut' \subseteq Connections,
           ended' \in [Connections -> [Ends -> BOOLEAN]], OnlyOwnEnd,
           SendsTruth
    PROVE  PunchedInv'
<1>1. /\ connected' = connected /\ stream' = stream /\ admitted' = admitted
      /\ wrote' = wrote /\ final' = final /\ got' = got
  OBVIOUS
<1>2. PunchedTypes'
  <2>1. segments' \subseteq Segments
    BY DEF SendsTruth
  <2> QED
    BY <1>1, <2>1 DEF PunchedInv, PunchedTypes
<1>3. HistoryTypes'
  BY <1>1 DEF PunchedInv, HistoryTypes
<1>4. StreamsAgree'
  <2> SUFFICES ASSUME NEW u \in Ends, phase'[u] # "off"
               PROVE  Agrees(u, stream[u], stream[u].id, Other(u))'
    BY DEF StreamsAgree
  <2>1. Agrees(u, stream[u], stream[u].id, Other(u))
    BY DEF PunchedInv, StreamsAgree
  <2>2. ended'[stream[u].id][u] = ended[stream[u].id][u]
    <3>1. stream[u].id \in Connections
      <4>1. Facts(u, stream[u], stream[u].id, Other(u))
        BY RunningFacts
      <4> QED
        BY <4>1 DEF Facts
    <3> QED
      BY <3>1 DEF OnlyOwnEnd
  <2> QED
    BY <1>1, <2>1, <2>2 DEF Agrees, NumbersAgree
<1>5. ConnectionsCarry'
  <2> SUFFICES ASSUME NEW d \in Connections, NEW u \in Ends PROVE Carries(d, u, Other(u))'
    BY DEF ConnectionsCarry
  <2>1. Carries(d, u, Other(u))
    BY DEF PunchedInv, ConnectionsCarry
  <2>2. CASE ended'[d][u] = ended[d][u]
    BY <1>1, <2>1, <2>2 DEF Carries, Untouched
  <2>3. CASE ended'[d][u] # ended[d][u]
    <3>1. d \in cut' /\ d \in 1 .. connected /\ (u = "host" => d \in admitted)
      BY <2>3 DEF OnlyOwnEnd
    <3>2. ~ (d > connected)
      BY <3>1 DEF PunchedInv, HistoryTypes
    <3> QED
      BY <1>1, <2>1, <3>1, <3>2 DEF Carries
  <2> QED
    BY <2>2, <2>3
<1>6. SegmentsAreTrue'
  <2> SUFFICES ASSUME NEW m \in segments' PROVE TrueOf(m, Other(m.to), m.to)'
    BY DEF SegmentsAreTrue
  <2>1. CASE m \in segments
    <3>1. TrueOf(m, Other(m.to), m.to)
      BY <2>1 DEF PunchedInv, SegmentsAreTrue
    <3> QED
      BY <1>1, <3>1 DEF TrueOf
  <2>2. CASE m \notin segments
    BY <2>2 DEF SendsTruth
  <2> QED
    BY <2>1, <2>2
<1>7. CloseIsClean'
  BY <1>1 DEF PunchedInv, CloseIsClean
<1> QED
  BY <1>2, <1>3, <1>4, <1>5, <1>6, <1>7 DEF PunchedInv

\* The same, where no stream is given up.
LEMMA UncutStep ==
    ASSUME PunchedInv, UNCHANGED plan, UNCHANGED dropped,
           UNCHANGED <<connected, stream, history, admitted, cut>>,
           phase' \in [Ends -> {"off", "opening", "open"}],
           \A u \in Ends : phase[u] = "off" <=> phase'[u] = "off",
           SendsTruth
    PROVE  PunchedInv' /\ UNCHANGED Stream!vars
<1>1. wrote' = wrote /\ final' = final /\ got' = got /\ ended' = ended /\ cut' = cut
  BY DEF history
<1>2. cut \subseteq cut' /\ cut' \subseteq Connections
      /\ ended' \in [Connections -> [Ends -> BOOLEAN]]
  BY <1>1 DEF PunchedInv, PunchedTypes, HistoryTypes
<1>3. OnlyOwnEnd
  BY <1>1 DEF OnlyOwnEnd
<1>4. PunchedInv'
  BY <1>1, <1>2, <1>3, QuietStep
<1> QED
  BY <1>1, <1>4, NothingSeen

\* A segment less, or a SYN of a connection that is there more.
LEMMA OnlySyns ==
    ASSUME PunchedInv, UNCHANGED connected, UNCHANGED history, NEW to \in Ends,
           NEW c \in Connections, c <= connected,
           segments' \subseteq segments \cup {[to |-> to, kind |-> "SYN", id |-> c, seq |-> 0]}
    PROVE  SendsTruth
<1>1. PICK new : new = {[to |-> to, kind |-> "SYN", id |-> c, seq |-> 0]}
  OBVIOUS
<1>2. MaxOut \in Nat
  BY PlansAreBounded DEF PunchedInv, PunchedTypes
<1>3. new \subseteq Segments
  BY <1>1, <1>2 DEF Segments, SegmentKinds
<1>4. \A m \in new : TrueOf(m, Other(m.to), m.to)
  BY <1>1 DEF TrueOf
<1>5. UNCHANGED <<wrote, final, got>> /\ segments' \subseteq segments \cup new
  BY <1>1 DEF history
<1> QED
  BY <1>3, <1>4, <1>5, SentTruth

\* Segments taken from the medium leave true ones.
LEMMA OnlyLess ==
    ASSUME PunchedInv, UNCHANGED connected, UNCHANGED history, segments' \subseteq segments
    PROVE  SendsTruth
<1>1. PICK new : new = {}
  OBVIOUS
<1>2. /\ new \subseteq Segments /\ segments' \subseteq segments \cup new
      /\ \A m \in new : TrueOf(m, Other(m.to), m.to)
  BY <1>1
<1>3. UNCHANGED <<wrote, final, got>>
  BY DEF history
<1> QED
  BY <1>2, <1>3, SentTruth

\* The client repeats the SYN of its own connection.
LEMMA RepeatSynKeeps ==
    ASSUME PunchedInv, UNCHANGED plan, UNCHANGED dropped, RepeatSyn
    PROVE  PunchedInv' /\ UNCHANGED Stream!vars
<1>1. /\ phase["client"] = "opening" /\ UNCHANGED <<connected, phase, stream, history, admitted, cut>>
      /\ segments' = segments \cup {Segment("client", "SYN", stream["client"].id, 0)}
  BY DEF RepeatSyn
<1>2. PICK c : c = stream["client"].id
  OBVIOUS
<1>3. c \in Connections /\ c \in 1 .. connected
  <2>1. Facts("client", stream["client"], stream["client"].id, "host")
    BY <1>1, <1>2, RunningFacts DEF Ends, Other
  <2> QED
    BY <1>2, <2>1 DEF Facts
<1>4. connected \in Nat /\ c <= connected
  BY <1>3 DEF PunchedInv, HistoryTypes
<1>5. SendsTruth
  <2>1. segments' \subseteq segments \cup {[to |-> "host", kind |-> "SYN", id |-> c, seq |-> 0]}
    BY <1>1, <1>2 DEF Segment, Other
  <2> QED
    BY <2>1, <1>1, <1>3, <1>4, OnlySyns DEF Ends
<1> QED
  BY <1>1, <1>5, UncutStep DEF PunchedInv, PunchedTypes

\* A stream that ends with its connection cut: connect's deadline, or IDLE.
LEMMA CutKeeps ==
    ASSUME PunchedInv, UNCHANGED plan, UNCHANGED dropped, NEW s \in Ends, phase[s] # "off",
           phase' = [phase EXCEPT ![s] = "off"],
           cut' = cut \cup {stream[s].id},
           \/ ended' = ended
           \/ ended' = [ended EXCEPT ![stream[s].id][s] = TRUE],
           UNCHANGED <<connected, stream, segments, wrote, final, got, admitted>>
    PROVE  PunchedInv' /\ Stream!Next
<1>1. phase \in [Ends -> {"off", "opening", "open"}] /\ cut \subseteq Connections
  BY DEF PunchedInv, PunchedTypes
<1>2. PICK c : c = stream[s].id
  OBVIOUS
<1>3. c \in Connections /\ c \in 1 .. connected /\ (s = "host" => c \in admitted)
  <2>1. Facts(s, stream[s], c, Other(s))
    BY <1>2, RunningFacts
  <2> QED
    BY <2>1 DEF Facts, Agrees
<1>4. /\ phase' \in [Ends -> {"off", "opening", "open"}] /\ phase'[s] = "off"
      /\ \A u \in Ends : phase[u] = "off" => phase'[u] = "off"
      /\ \A u \in Ends : phase'[u] = "off" => phase[u] = "off" \/ stream[u].id \in cut'
  BY <1>1
<1>5. SendsTruth
  <2>1. PICK new : new = {}
    OBVIOUS
  <2>2. /\ new \subseteq Segments /\ segments' \subseteq segments \cup new
        /\ \A m \in new : TrueOf(m, Other(m.to), m.to)
    BY <2>1
  <2> QED
    BY <2>2, SentTruth
<1>6. /\ ended' \in [Connections -> [Ends -> BOOLEAN]]
      /\ \A d \in Connections, u \in Ends : d # c \/ u # s => ended'[d][u] = ended[d][u]
  <2>1. PICK before : before = ended
    OBVIOUS
  <2>2. PICK after : after = ended'
    OBVIOUS
  <2>3. before \in [Connections -> [Ends -> BOOLEAN]]
    BY <2>1 DEF PunchedInv, HistoryTypes
  <2>4. CASE ended' = ended
    BY <2>1, <2>3, <2>4
  <2>5. CASE ended' = [ended EXCEPT ![stream[s].id][s] = TRUE]
    <3>1. after = [before EXCEPT ![c][s] = TRUE]
      BY <2>1, <2>2, <2>5, <1>2
    <3>2. /\ after \in [Connections -> [Ends -> BOOLEAN]]
          /\ \A d \in Connections, u \in Ends : d # c \/ u # s => after[d][u] = before[d][u]
      BY <2>3, <3>1, <1>3, OneEntry, Zenon
    <3> QED
      BY <2>1, <2>2, <3>2
  <2> QED
    BY <2>4, <2>5
<1>7. OnlyOwnEnd
  BY <1>2, <1>3, <1>4, <1>6 DEF OnlyOwnEnd
<1>8. PunchedInv'
  <2>1. cut \subseteq cut' /\ cut' \subseteq Connections
    BY <1>1, <1>2, <1>3
  <2> QED
    BY <2>1, <1>4, <1>5, <1>6, <1>7, QuietStep
<1>9. Stream!NotOpened(c) \/ Stream!CutOff(c, s)
  BY <1>2 DEF Stream!NotOpened, Stream!CutOff
<1>10. Stream!Next
  BY <1>3, <1>9 DEF Stream!Next
<1> QED
  BY <1>8, <1>10

\* The answer to the SYN opens the client and hands nothing on.
LEMMA AnsweredKeeps ==
    ASSUME PunchedInv, UNCHANGED plan, UNCHANGED dropped, NEW m \in segments, Answered(m)
    PROVE  PunchedInv' /\ UNCHANGED Stream!vars
<1>1. /\ phase["client"] = "opening"
      /\ phase' = [phase EXCEPT !["client"] = "open"]
      /\ segments' \subseteq segments
      /\ UNCHANGED <<connected, stream, history, admitted, cut>>
  BY DEF Answered, Without
<1>2. phase \in [Ends -> {"off", "opening", "open"}] /\ cut \subseteq Connections
  BY DEF PunchedInv, PunchedTypes
<1>3. /\ phase' \in [Ends -> {"off", "opening", "open"}]
      /\ \A u \in Ends : phase[u] = "off" <=> phase'[u] = "off"
  BY <1>1, <1>2 DEF Ends
<1>4. SendsTruth
  BY <1>1, OnlyLess
<1> QED
  BY <1>1, <1>3, <1>4, UncutStep

\* A segment nobody takes, or that is lost.
LEMMA GoneKeeps ==
    ASSUME PunchedInv, UNCHANGED plan, UNCHANGED dropped, segments' \subseteq segments,
           UNCHANGED <<connected, phase, stream, history, admitted, cut>>
    PROVE  PunchedInv' /\ UNCHANGED Stream!vars
<1>1. SendsTruth
  BY OnlyLess
<1> QED
  BY <1>1, UncutStep DEF PunchedInv, PunchedTypes

\* A program that drops its end: its stream goes on without it.
LEMMA DropKeeps ==
    ASSUME PunchedInv, UNCHANGED plan, NEW s \in Ends, Drop(s)
    PROVE  PunchedInv' /\ UNCHANGED Stream!vars
<1>1. /\ Running(s) /\ stream' = [stream EXCEPT ![s].gone = TRUE]
      /\ dropped' = dropped \cup {stream[s].id}
      /\ connected' = connected /\ phase' = phase /\ segments' = segments
      /\ UNCHANGED history /\ admitted' = admitted /\ cut' = cut
  BY DEF Drop
<1>2. wrote' = wrote /\ final' = final /\ got' = got /\ ended' = ended
  BY <1>1 DEF history
<1>3. stream \in [Ends -> Streams] /\ dropped \subseteq Connections
  BY DEF PunchedInv, PunchedTypes
<1>4. PICK st : st = [stream[s] EXCEPT !.gone = TRUE]
  OBVIOUS
<1>5. /\ st \in Streams /\ st.id = stream[s].id /\ st.acked = stream[s].acked
      /\ st.next_out = stream[s].next_out /\ st.next_in = stream[s].next_in
      /\ st.early = stream[s].early /\ st.peer_fin = stream[s].peer_fin
      /\ st.read_closed = stream[s].read_closed /\ st.fin_sent = stream[s].fin_sent
  BY <1>3, <1>4 DEF Streams
<1>6. stream' = [stream EXCEPT ![s] = st]
  BY <1>1, <1>4
<1>7. \A u \in Ends : stream'[u] = IF u = s THEN st ELSE stream[u]
  BY <1>3, <1>6
<1>8. stream[s].id \in Connections
  <2>1. Facts(s, stream[s], stream[s].id, Other(s))
    BY <1>1, RunningFacts DEF Running
  <2> QED
    BY <2>1 DEF Facts
<1>9. PunchedTypes'
  <2>1. stream' \in [Ends -> Streams]
    BY <1>3, <1>5, <1>6
  <2>2. \A u \in Ends : stream'[u].acked <= stream'[u].next_out
    BY <1>5, <1>7 DEF PunchedInv, PunchedTypes
  <2> QED
    BY <1>1, <1>3, <1>8, <2>1, <2>2 DEF PunchedInv, PunchedTypes
<1>10. HistoryTypes'
  BY <1>1, <1>2 DEF PunchedInv, HistoryTypes
<1>11. StreamsAgree'
  <2> SUFFICES ASSUME NEW u \in Ends, phase'[u] # "off"
               PROVE  Agrees(u, stream[u], stream[u].id, Other(u))'
    BY DEF StreamsAgree
  <2>1. Agrees(u, stream[u], stream[u].id, Other(u))
    BY <1>1 DEF PunchedInv, StreamsAgree
  <2>2. /\ stream'[u].id = stream[u].id /\ stream'[u].acked = stream[u].acked
        /\ stream'[u].next_out = stream[u].next_out /\ stream'[u].next_in = stream[u].next_in
        /\ stream'[u].early = stream[u].early /\ stream'[u].peer_fin = stream[u].peer_fin
        /\ stream'[u].read_closed = stream[u].read_closed
        /\ stream'[u].fin_sent = stream[u].fin_sent
    BY <1>5, <1>7
  <2> QED
    BY <1>1, <1>2, <2>1, <2>2 DEF Agrees, NumbersAgree
<1>12. ConnectionsCarry'
  <2> SUFFICES ASSUME NEW d \in Connections, NEW u \in Ends PROVE Carries(d, u, Other(u))'
    BY DEF ConnectionsCarry
  <2>1. Carries(d, u, Other(u))
    BY DEF PunchedInv, ConnectionsCarry
  <2> QED
    BY <1>1, <1>2, <2>1 DEF Carries, Untouched
<1>13. SegmentsAreTrue'
  <2> SUFFICES ASSUME NEW m \in segments' PROVE TrueOf(m, Other(m.to), m.to)'
    BY DEF SegmentsAreTrue
  <2>1. TrueOf(m, Other(m.to), m.to)
    BY <1>1 DEF PunchedInv, SegmentsAreTrue
  <2> QED
    BY <1>1, <1>2, <2>1 DEF TrueOf
<1>14. CloseIsClean'
  BY <1>1, <1>2, <1>5, <1>7 DEF PunchedInv, CloseIsClean
<1> QED
  BY <1>1, <1>9, <1>10, <1>11, <1>12, <1>13, <1>14, NothingSeen DEF PunchedInv

\* Nothing was written to, or read from, a connection that one end has not opened:
\* its fresh stream agrees.
LEMMA FreshAgrees ==
    ASSUME PunchedInv, NEW s \in Ends, NEW c \in Connections, NEW t, t = Other(s),
           Untouched(c, s), NEW st, st = Fresh(c)
    PROVE  st \in Streams /\ st.id = c /\ st.acked <= st.next_out /\ NumbersAgree(s, st, c, t)
           /\ (ended[c][s] <=> st.peer_fin # NoFin)
<1>1. MaxOut \in Nat
  BY PlansAreBounded DEF PunchedInv, PunchedTypes
<1>2. st \in Streams /\ st.id = c /\ st.acked <= st.next_out
  BY <1>1 DEF Fresh, Streams
<1>3. t \in Ends
  BY DEF Other, Ends
<1>4. Len(got[c][t]) \in Nat
  <2>1. got[c] \in [Ends -> Seq([by : Ends, n : Nat])]
    BY DEF PunchedInv, HistoryTypes
  <2>2. got[c][t] \in Seq([by : Ends, n : Nat])
    BY <2>1, <1>3
  <2> QED
    BY <2>2
<1>5. Len(got[c][s]) = 0
  <2>1. Len(<<>>) = 0
    OBVIOUS
  <2> QED
    BY <2>1 DEF Untouched
<1>6. NumbersAgree(s, st, c, t)
  BY <1>1, <1>4, <1>5 DEF NumbersAgree, Untouched, Fresh
<1>7. ended[c][s] <=> st.peer_fin # NoFin
  BY DEF Untouched, Fresh
<1> QED
  BY <1>2, <1>6, <1>7

\* One end opens c, to which nothing was written: connect, and read_loop.
LEMMA OpensKeeps ==
    ASSUME PunchedInv, UNCHANGED plan, UNCHANGED dropped, NEW s \in Ends, NEW c \in Connections,
           NEW new \in {"opening", "open"},
           Untouched(c, s),
           phase[s] = "off", phase' = [phase EXCEPT ![s] = new],
           stream' = [stream EXCEPT ![s] = Fresh(c)],
           connected' \in connected .. plan.connections, c <= connected',
           s = "client" => connected' = c,
           s = "host" => connected' = connected,
           admitted \subseteq admitted', admitted' \subseteq admitted \cup {c},
           s = "host" => c \in admitted',
           s = "client" => admitted' = admitted,
           segments' \subseteq segments \cup {Segment(s, "SYN", c, 0)},
           UNCHANGED <<history, cut>>
    PROVE  PunchedInv' /\ UNCHANGED Stream!vars
<1>1. wrote' = wrote /\ final' = final /\ got' = got /\ ended' = ended /\ cut' = cut
  BY DEF history
<1>2. PICK st : st = Fresh(c)
  OBVIOUS
<1>3. PICK t : t = Other(s)
  OBVIOUS
<1>4. /\ st \in Streams /\ st.id = c /\ st.acked <= st.next_out /\ NumbersAgree(s, st, c, t)
      /\ (ended[c][s] <=> st.peer_fin # NoFin)
  BY <1>2, <1>3, FreshAgrees
<1>5. /\ stream \in [Ends -> Streams] /\ phase \in [Ends -> {"off", "opening", "open"}]
      /\ segments \subseteq Segments /\ plan \in Plans
      /\ connected \in 0 .. plan.connections /\ admitted \subseteq 1 .. connected
  BY DEF PunchedInv, PunchedTypes, HistoryTypes
<1>6. /\ MaxOut \in Nat /\ plan.connections \in Nat /\ connected \in Nat
      /\ 1 .. plan.connections \subseteq Connections
  BY <1>5, PlansAreBounded
<1>7. \A u \in Ends : /\ stream'[u] = IF u = s THEN st ELSE stream[u]
                      /\ phase'[u] = IF u = s THEN new ELSE phase[u]
  BY <1>2, <1>5
<1>8. connected' \in Nat /\ connected <= connected' /\ c \in 1 .. connected'
  <2>1. c \in Nat /\ c >= 1
    <3>1. PICK top : top = Max({p.connections : p \in Plans})
      OBVIOUS
    <3>2. c \in 1 .. top
      BY <3>1 DEF Connections
    <3> QED
      BY <3>2
  <2> QED
    BY <2>1, <1>6
<1>9. PunchedTypes'
  <2>1. stream' \in [Ends -> Streams] /\ phase' \in [Ends -> {"off", "opening", "open"}]
    BY <1>2, <1>4, <1>5
  <2>2. \A u \in Ends : stream'[u].acked <= stream'[u].next_out
    BY <1>4, <1>7 DEF PunchedInv, PunchedTypes
  <2>3. segments' \subseteq Segments
    BY <1>5, <1>6 DEF Segment, Segments, SegmentKinds, Other, Ends
  <2>4. connected' \in {0} \cup Connections
    BY <1>6, <1>8
  <2> QED
    BY <1>1, <1>5, <2>1, <2>2, <2>3, <2>4 DEF PunchedInv, PunchedTypes
<1>10. HistoryTypes'
  <2>1. admitted' \subseteq 1 .. connected'
    BY <1>5, <1>6, <1>8
  <2>2. connected' \in 0 .. plan'.connections
    BY <1>6, <1>8
  <2> QED
    BY <1>1, <2>1, <2>2 DEF PunchedInv, HistoryTypes
<1>11. StreamsAgree'
  <2> SUFFICES ASSUME NEW u \in Ends, phase'[u] # "off"
               PROVE  Agrees(u, stream[u], stream[u].id, Other(u))'
    BY DEF StreamsAgree
  <2>1. CASE u = s
    <3>1. Agrees(s, st, c, t)'
      BY <1>1, <1>4, <1>8 DEF Agrees, NumbersAgree
    <3> QED
      BY <2>1, <3>1, <1>3, <1>4, <1>7
  <2>2. CASE u # s
    <3>1. stream'[u] = stream[u] /\ phase[u] # "off"
      BY <2>2, <1>7
    <3>2. Agrees(u, stream[u], stream[u].id, Other(u))
      BY <3>1 DEF PunchedInv, StreamsAgree
    <3>3. /\ stream[u].id \in 1 .. connected'
          /\ u = "client" => stream[u].id = connected'
          /\ u = "host" => stream[u].id \in admitted'
      <4>1. stream[u].id \in 1 .. connected
        BY <3>2 DEF Agrees
      <4>2. u = "client" => s = "host"
        BY <2>2 DEF Ends
      <4> QED
        BY <4>1, <4>2, <3>2, <1>6, <1>8 DEF Agrees
    <3> QED
      BY <1>1, <3>1, <3>2, <3>3 DEF Agrees, NumbersAgree
  <2> QED
    BY <2>1, <2>2
<1>12. ConnectionsCarry'
  <2> SUFFICES ASSUME NEW d \in Connections, NEW u \in Ends PROVE Carries(d, u, Other(u))'
    BY DEF ConnectionsCarry
  <2>1. Carries(d, u, Other(u))
    BY DEF PunchedInv, ConnectionsCarry
  <2>2. d > connected' => d > connected
    BY <1>6, <1>8 DEF Connections
  <2> QED
    BY <1>1, <2>1, <2>2 DEF Carries, Untouched
<1>13. SegmentsAreTrue'
  <2> SUFFICES ASSUME NEW m \in segments' PROVE TrueOf(m, Other(m.to), m.to)'
    BY DEF SegmentsAreTrue
  <2>1. CASE m \in segments
    <3>1. TrueOf(m, Other(m.to), m.to)
      BY <2>1 DEF PunchedInv, SegmentsAreTrue
    <3>2. m.id \in Connections /\ m.id <= connected
      BY <2>1, <3>1, <1>5 DEF TrueOf, Segments
    <3>3. m.id <= connected'
      BY <3>2, <1>6, <1>8 DEF Connections
    <3> QED
      BY <1>1, <3>1, <3>3 DEF TrueOf
  <2>2. CASE m \notin segments
    <3>1. m.kind = "SYN" /\ m.id = c
      BY <2>2 DEF Segment
    <3> QED
      BY <3>1 DEF TrueOf
  <2> QED
    BY <2>1, <2>2
<1>14. CloseIsClean'
  BY <1>1, <1>4, <1>7 DEF PunchedInv, CloseIsClean
<1> QED
  BY <1>9, <1>10, <1>11, <1>12, <1>13, <1>14, NothingSeen DEF PunchedInv

\* A new connection starts from histories nobody has touched.
LEMMA ConnectKeeps ==
    ASSUME PunchedInv, UNCHANGED plan, UNCHANGED dropped, Connect
    PROVE  PunchedInv' /\ UNCHANGED Stream!vars
<1>1. PICK c : c = connected + 1
  OBVIOUS
<1>2. /\ phase["client"] = "off" /\ connected < plan.connections /\ connected' = c
      /\ phase' = [phase EXCEPT !["client"] = "opening"]
      /\ stream' = [stream EXCEPT !["client"] = Fresh(c)]
      /\ segments' = segments \cup {Segment("client", "SYN", c, 0)}
      /\ UNCHANGED <<history, cut>> /\ admitted' = admitted
  BY <1>1 DEF Connect
<1>3. /\ plan \in Plans /\ connected \in 0 .. plan.connections
  BY DEF PunchedInv, PunchedTypes, HistoryTypes
<1>4. plan.connections \in Nat /\ 1 .. plan.connections \subseteq Connections
  BY <1>3, PlansAreBounded
<1>5. c \in Connections /\ connected' \in connected .. plan.connections /\ c <= connected' /\ c > connected
  BY <1>1, <1>2, <1>3, <1>4
<1>6. Untouched(c, "client")
  BY <1>5 DEF PunchedInv, ConnectionsCarry, Carries, Ends
<1> QED
  BY <1>2, <1>5, <1>6, OpensKeeps DEF Ends

\* The host takes a connection it has not admitted: its history is untouched.
LEMMA AcceptKeeps ==
    ASSUME PunchedInv, UNCHANGED plan, UNCHANGED dropped, NEW m \in segments, AcceptConnection(m)
    PROVE  PunchedInv' /\ UNCHANGED Stream!vars
<1>1. PICK c : c = m.id
  OBVIOUS
<1>2. /\ phase["host"] = "off" /\ c \notin admitted
      /\ phase' = [phase EXCEPT !["host"] = "open"]
      /\ stream' = [stream EXCEPT !["host"] = Fresh(c)]
      /\ admitted' = admitted \cup {c}
      /\ segments' \subseteq segments \cup {Segment("host", "SYN", c, 0)}
      /\ connected' = connected /\ UNCHANGED <<history, cut>>
  BY <1>1 DEF AcceptConnection, Without
<1>3. c \in Connections /\ c <= connected
  BY <1>1 DEF PunchedInv, PunchedTypes, SegmentsAreTrue, TrueOf, Segments
<1>4. connected \in 0 .. plan.connections /\ plan \in Plans
  BY DEF PunchedInv, PunchedTypes, HistoryTypes
<1>5. connected' \in connected .. plan.connections
  <2>1. plan.connections \in Nat
    BY <1>4, PlansAreBounded
  <2> QED
    BY <2>1, <1>2, <1>4
<1>6. Untouched(c, "host")
  BY <1>2, <1>3 DEF PunchedInv, ConnectionsCarry, Carries, Ends
<1> QED
  BY <1>2, <1>3, <1>5, <1>6, OpensKeeps DEF Ends

\* Every segment an end hears keeps the invariant and is a step of the stream or none.
LEMMA HearKeeps ==
    ASSUME PunchedInv, UNCHANGED plan, UNCHANGED dropped, NEW m \in segments, Hear(m)
    PROVE  PunchedInv' /\ [Stream!Next]_(Stream!vars)
<1>1. Running(m.to) /\ m.id = stream[m.to].id
  BY DEF Hear
<1>2. CASE OnAck(m.to, m)
  BY <1>1, <1>2, OnAckKeeps
<1>3. CASE OnData(m.to, m)
  BY <1>1, <1>3, OnDataKeeps
<1>4. CASE OnFin(m.to, m)
  BY <1>1, <1>4, OnFinKeeps
<1>5. CASE OnSyn(m.to, m)
  BY <1>1, <1>5, OnSynKeeps
<1> QED
  BY <1>2, <1>3, <1>4, <1>5 DEF Hear

\* So does every step of the program, but for the loss of a segment.
LEMMA StepKeeps ==
    ASSUME PunchedInv, UNCHANGED plan, UNCHANGED dropped, PunchedStep
    PROVE  PunchedInv' /\ [Stream!Next]_(Stream!vars)
<1>1. CASE Connect
  BY <1>1, ConnectKeeps
<1>2. CASE RepeatSyn
  BY <1>2, RepeatSynKeeps
<1>3. CASE ConnectTimesOut
  <2>1. /\ phase["client"] # "off" /\ phase' = [phase EXCEPT !["client"] = "off"]
        /\ cut' = cut \cup {stream["client"].id} /\ ended' = ended
        /\ UNCHANGED <<connected, stream, segments, wrote, final, got, admitted>>
    BY <1>3 DEF ConnectTimesOut, history
  <2> QED
    BY <2>1, CutKeeps DEF Ends
<1>4. CASE \E m \in segments : SegmentArrives(m) \/ Ignore(m) \/ SegmentLost(m)
  <2>1. PICK m \in segments : SegmentArrives(m) \/ Ignore(m) \/ SegmentLost(m)
    BY <1>4
  <2>2. CASE Answered(m)
    BY <2>2, AnsweredKeeps
  <2>3. CASE AcceptConnection(m)
    BY <2>3, AcceptKeeps
  <2>4. CASE Hear(m)
    BY <2>4, HearKeeps
  <2>5. CASE Ignore(m)
    <3>1. /\ segments' \subseteq segments
          /\ UNCHANGED <<connected, phase, stream, history, admitted, cut>>
      BY <2>5 DEF Ignore, Without
    <3> QED
      BY <3>1, GoneKeeps
  <2>6. CASE SegmentLost(m)
    <3>1. /\ segments' \subseteq segments
          /\ UNCHANGED <<connected, phase, stream, history, admitted, cut>>
      BY <2>6 DEF SegmentLost
    <3> QED
      BY <3>1, GoneKeeps
  <2> QED
    BY <2>1, <2>2, <2>3, <2>4, <2>5, <2>6 DEF SegmentArrives
<1>5. CASE \E s \in Ends : SendBytes(s) \/ CloseWrite(s) \/ Resend(s) \/ SendFin(s) \/ StreamIdle(s)
  <2>1. PICK s \in Ends : SendBytes(s) \/ CloseWrite(s) \/ Resend(s) \/ SendFin(s) \/ StreamIdle(s)
    BY <1>5
  <2>2. CASE SendBytes(s)
    BY <2>2, WriteKeeps
  <2>3. CASE CloseWrite(s)
    BY <2>3, CloseWriteKeeps
  <2>4. CASE Resend(s)
    BY <2>4, ResendKeeps
  <2>5. CASE SendFin(s)
    BY <2>5, SendFinKeeps
  <2>6. CASE StreamIdle(s)
    <3>1. /\ phase[s] # "off" /\ phase' = [phase EXCEPT ![s] = "off"]
          /\ cut' = cut \cup {stream[s].id}
          /\ ended' = [ended EXCEPT ![stream[s].id][s] = TRUE]
          /\ UNCHANGED <<connected, stream, segments, wrote, final, got, admitted>>
      BY <2>6 DEF StreamIdle, Running
    <3> QED
      BY <3>1, CutKeeps
  <2> QED
    BY <2>1, <2>2, <2>3, <2>4, <2>5, <2>6
<1> QED
  BY <1>1, <1>2, <1>3, <1>4, <1>5 DEF PunchedStep

\* A step that changes nothing is one of the abstract stream that changes nothing.
LEMMA StutterKeeps ==
    ASSUME PunchedInv, UNCHANGED punchedVars
    PROVE  PunchedInv' /\ UNCHANGED Stream!vars
<1>1. /\ UNCHANGED plan /\ UNCHANGED dropped /\ segments' \subseteq segments
      /\ UNCHANGED <<connected, phase, stream, history, admitted, cut>>
  BY DEF punchedVars, history
<1> QED
  BY <1>1, GoneKeeps

\* The state the sockets start in is one the abstract stream starts in.
LEMMA PunchedStarts ==
    ASSUME PunchedInit
    PROVE  PunchedInv /\ Stream!Init
<1>1. /\ plan \in Plans /\ connected = 0 /\ segments = {}
      /\ phase = [s \in Ends |-> "off"]
      /\ stream = [s \in Ends |-> Fresh(0)]
      /\ wrote = [c \in Connections |-> [s \in Ends |-> 0]]
      /\ final = [c \in Connections |-> [s \in Ends |-> NoFin]]
      /\ got = [c \in Connections |-> [s \in Ends |-> <<>>]]
      /\ ended = [c \in Connections |-> [s \in Ends |-> FALSE]]
      /\ admitted = {} /\ cut = {} /\ dropped = {}
  BY DEF PunchedInit
<1>2. MaxOut \in Nat /\ plan.connections \in Nat
  BY <1>1, PlansAreBounded
<1>3. PunchedTypes
  <2>1. Fresh(0) \in Streams /\ Fresh(0).acked <= Fresh(0).next_out
    BY <1>2 DEF Fresh, Streams
  <2> QED
    BY <1>1, <2>1 DEF PunchedTypes
<1>4. HistoryTypes
  <2>1. <<>> \in Seq([by : Ends, n : Nat])
    OBVIOUS
  <2>2. got \in [Connections -> [Ends -> Seq([by : Ends, n : Nat])]]
    BY <1>1, <2>1
  <2> QED
    BY <1>1, <1>2, <2>2 DEF HistoryTypes
<1>5. StreamsAgree
  BY <1>1 DEF StreamsAgree
<1>6. ConnectionsCarry
  <2> SUFFICES ASSUME NEW c \in Connections, NEW s \in Ends PROVE Carries(c, s, Other(s))
    BY DEF ConnectionsCarry
  <2>1. Other(s) \in Ends
    BY DEF Other, Ends
  <2>2. Untouched(c, s) /\ Untouched(c, Other(s))
    BY <1>1, <2>1 DEF Untouched
  <2>3. Len(got[c][s]) = 0
    <3>1. Len(<<>>) = 0
      OBVIOUS
    <3> QED
      BY <3>1, <2>2 DEF Untouched
  <2>4. got[c][s] = [i \in 1 .. Len(got[c][s]) |-> [by |-> Other(s), n |-> i - 1]]
    <3>1. PICK none : none = [i \in 1 .. 0 |-> [by |-> Other(s), n |-> i - 1]]
      OBVIOUS
    <3>2. none = <<>>
      BY <3>1
    <3> QED
      BY <3>1, <3>2, <2>2, <2>3 DEF Untouched
  <2> QED
    BY <2>2, <2>3, <2>4, PunchedAssumption DEF Carries, Untouched
<1>7. SegmentsAreTrue
  BY <1>1 DEF SegmentsAreTrue
<1>8. CloseIsClean
  BY <1>1 DEF CloseIsClean, Fresh
<1>9. Stream!Init
  <2>1. [c \in Connections |-> [s \in Ends |-> final[c][s] # NoFin]]
           = [c \in Connections |-> [s \in Ends |-> FALSE]]
    <3>1. \A c \in Connections, s \in Ends : (final[c][s] # NoFin) = FALSE
      BY <1>1
    <3>2. \A c \in Connections : [s \in Ends |-> final[c][s] # NoFin] = [s \in Ends |-> FALSE]
      BY <3>1
    <3> QED
      BY <3>2
  <2> QED
    BY <1>1, <2>1 DEF Stream!Init
<1> QED
  BY <1>3, <1>4, <1>5, <1>6, <1>7, <1>8, <1>9 DEF PunchedInv

\* Every step, a loss included, keeps the invariant and is a step of the stream or none.
LEMMA PunchedKeeps ==
    ASSUME PunchedInv, [PunchedNext]_punchedVars
    PROVE  PunchedInv' /\ [Stream!Next]_(Stream!vars)
<1>1. CASE PunchedNext
  <2>1. UNCHANGED plan
    BY <1>1 DEF PunchedNext
  <2>2. CASE PunchedStep /\ UNCHANGED dropped
    BY <2>1, <2>2, StepKeeps
  <2>3. CASE \E s \in Ends : Drop(s)
    BY <2>1, <2>3, DropKeeps
  <2> QED
    BY <1>1, <2>2, <2>3 DEF PunchedNext
<1>2. CASE UNCHANGED punchedVars
  BY <1>2, StutterKeeps
<1> QED
  BY <1>1, <1>2

\* run_stream over segments that are lost, repeated and reordered implements the
\* byte stream, however connections follow each other and programs drop their ends.
THEOREM StreamImplemented == PunchedSpec => IsByteStream
<1>1. PunchedInit => PunchedInv /\ Stream!Init
  BY PunchedStarts
<1>2. PunchedInv /\ [PunchedNext]_punchedVars => PunchedInv' /\ [Stream!Next]_(Stream!vars)
  BY PunchedKeeps
<1> QED
  BY <1>1, <1>2, PTL DEF PunchedSpec, IsByteStream, Stream!Spec

\* No more than a window is held early: what can be under way was written, and at
\* most a window of what was written is not yet read.
LEMMA EarlyFits ==
    ASSUME PunchedInv
    PROVE  EarlyIsBounded
<1> SUFFICES ASSUME NEW s \in Ends, Running(s), NEW n \in stream[s].early
             PROVE  n \in stream[s].next_in .. stream[s].next_in + Window - 1
  BY DEF EarlyIsBounded
<1>1. PICK st : st = stream[s]
  OBVIOUS
<1>2. PICK c : c = st.id
  OBVIOUS
<1>3. PICK t : t = Other(s)
  OBVIOUS
<1>4. /\ st \in Streams /\ Agrees(s, st, c, t) /\ Carries(c, s, t)
      /\ wrote[c][t] \in 0 .. MaxOut /\ MaxOut \in Nat /\ Window \in Nat
  <2>1. Facts(s, st, c, t)
    BY <1>1, <1>2, <1>3, RunningFacts DEF Running
  <2> QED
    BY <2>1 DEF Facts
<1>5. n \in Int /\ st.next_in \in Int
  BY <1>1, <1>4 DEF Streams
<1>6. n >= st.next_in /\ n < wrote[c][t] /\ Len(got[c][s]) = st.next_in
  BY <1>1, <1>4 DEF Agrees, NumbersAgree
<1>7. wrote[c][t] <= st.next_in + Window
  BY <1>4, <1>6 DEF Carries
<1> QED
  BY <1>1, <1>4, <1>5, <1>6, <1>7

\* A stream that ended by its FINs lost nothing, and one never holds more than a
\* window of segments early: the safety of StreamsEndCleanly.
THEOREM StreamLosesNothing == PunchedSpec => [](PunchedTypes /\ CloseIsClean /\ EarlyIsBounded)
<1>1. PunchedInit => PunchedInv
  BY PunchedStarts
<1>2. PunchedInv /\ [PunchedNext]_punchedVars => PunchedInv'
  BY PunchedKeeps
<1>3. PunchedInv => PunchedTypes /\ CloseIsClean /\ EarlyIsBounded
  BY EarlyFits DEF PunchedInv
<1> QED
  BY <1>1, <1>2, <1>3, PTL DEF PunchedSpec

=============================================================================
