----------------------------- MODULE ReplayWords -----------------------------
(***************************************************************************)
(* The replay window as bud/src/replay.rs keeps it: a bitmap in words, with  *)
(* a shift that carries between words in place.  The bitmap `w` is a         *)
(* function from word to the set of bits that are 1 in it.  It is kept       *)
(* beside ReplayWindow's set of distances, which it has to stand for.        *)
(***************************************************************************)
EXTENDS ReplayWindow

CONSTANTS
    WORDS,      \* how many words
    WORD        \* bits in a word (64)

ASSUME WordsAssumption ==
    /\ WORDS \in Nat \ {0}
    /\ WORD \in Nat \ {0}
    /\ WORDS * WORD = WINDOW

WordIndex == 0 .. WORDS - 1
WordBits == 0 .. WORD - 1
Bitmaps == [WordIndex -> SUBSET WordBits]

NoWords == [i \in WordIndex |-> {}]

\* ReplayWindow::bit.
Bit(w, k) == k % WORD \in w[k \div WORD]

\* ReplayWindow::set.
SetBit(w, k) == [w EXCEPT ![k \div WORD] = @ \cup {k % WORD}]

\* value << n and value >> n on one word.
Up(word, n) == {k \in WordBits : k - n \in word}
Down(word, n) == {k \in WordBits : k + n \in word}

\* Bug to catch: nothing is carried from one word to the next.
ShiftUncarried(w, by) ==
    LET n == by \div WORD
        b == by % WORD
    IN IF by >= WINDOW THEN NoWords
       ELSE [i \in WordIndex |-> Up(IF i >= n THEN w[i - n] ELSE {}, b)]

\* ReplayWindow::shift: from the last word down, so that each reads words the
\* loop has not written yet.
ShiftWords(w, by) ==
    LET n == by \div WORD
        b == by % WORD
    IN IF by >= WINDOW THEN NoWords
       ELSE [i \in WordIndex |->
               Up(IF i >= n THEN w[i - n] ELSE {}, b)
               \cup (IF b > 0 /\ i > n THEN Down(w[i - n - 1], WORD - b) ELSE {})]

VARIABLE words      \* ReplayWindow.bits

\* ReplayWindow::check, on the bitmap.
CheckWords(p) ==
    \/ highest = None
    \/ p > highest
    \/ p <= highest /\ highest - p < WINDOW /\ ~Bit(words, highest - p)

\* What ReplayWindow::accept does to the bitmap.
AcceptWords(p) ==
    words' = IF highest = None THEN SetBit(words, 0)
             ELSE IF p > highest THEN SetBit(ShiftWords(words, p - highest), 0)
             ELSE IF highest - p < WINDOW THEN SetBit(words, highest - p)
             ELSE words

\* Opener::open with the bitmap.
OpenWords(p) ==
    /\ CheckWords(p)
    /\ Accept(p)
    /\ AcceptWords(p)

wordsVars == <<windowVars, words>>
WordsInit == WindowInit /\ words = NoWords
WordsNext == \E p \in Packets : OpenWords(p)
WordsSpec == WordsInit /\ [][WordsNext]_wordsVars

-----------------------------------------------------------------------------
\* The bitmap in words, with its carries from word to word, is the set of distances
\* ReplayWindow says it is, whatever the jump (ReplayWindow::shift).
WordsKeepTheWindow == bits = {k \in 0 .. WINDOW - 1 : Bit(words, k)}
=============================================================================
