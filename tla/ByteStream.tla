----------------------------- MODULE ByteStream -----------------------------
(***************************************************************************)
(* What signaling relies on a stream for (transport/src/punched.rs: "a      *)
(* reliable byte stream"): each connection carries what one program writes   *)
(* to the other, in order and once, and shows an end only after all of it.   *)
(* The exception: a stream that is given up, at any point, shows the same    *)
(* end at once.                                                              *)
(***************************************************************************)
EXTENDS Integers, Sequences

CONSTANTS Ends, Connections

VARIABLES
    wrote,      \* wrote[c][s]: how many segments s wrote to connection c
    closed,     \* closed[c][s]: s will write no more
    got,        \* got[c][s]: what s read, the writer's numbers in order
    ended,      \* ended[c][s]: s was shown the end of what the other wrote
    cut         \* the connections of which an end was given up

vars == <<wrote, closed, got, ended, cut>>

Init ==
    /\ wrote = [c \in Connections |-> [s \in Ends |-> 0]]
    /\ closed = [c \in Connections |-> [s \in Ends |-> FALSE]]
    /\ got = [c \in Connections |-> [s \in Ends |-> <<>>]]
    /\ ended = [c \in Connections |-> [s \in Ends |-> FALSE]]
    /\ cut = {}

Write(c, s) ==
    /\ ~ closed[c][s]
    /\ wrote' = [wrote EXCEPT ![c][s] = @ + 1]
    /\ UNCHANGED <<closed, got, ended, cut>>

Finish(c, s) ==
    /\ closed' = [closed EXCEPT ![c][s] = TRUE]
    /\ UNCHANGED <<wrote, got, ended, cut>>

\* The next few segments are read together.
Read(c, s, t, n) ==
    /\ ~ ended[c][s]
    /\ Len(got[c][s]) + n <= wrote[c][t]
    /\ got' = [got EXCEPT ![c][s] =
                  [i \in 1 .. Len(@) + n |-> [by |-> t, n |-> i - 1]]]
    /\ UNCHANGED <<wrote, closed, ended, cut>>

ShowEnd(c, s, t) ==
    /\ closed[c][t]
    /\ Len(got[c][s]) = wrote[c][t]
    /\ ended' = [ended EXCEPT ![c][s] = TRUE]
    /\ UNCHANGED <<wrote, closed, got, cut>>

\* The client's end is given up before it was opened.
NotOpened(c) ==
    /\ cut' = cut \cup {c}
    /\ UNCHANGED <<wrote, closed, got, ended>>

\* s's end is given up: its program reads an end like any other, whatever is missing.
CutOff(c, s) ==
    /\ cut' = cut \cup {c}
    /\ ended' = [ended EXCEPT ![c][s] = TRUE]
    /\ UNCHANGED <<wrote, closed, got>>

Next ==
    \E c \in Connections, s \in Ends :
        \/ Write(c, s) \/ Finish(c, s) \/ NotOpened(c) \/ CutOff(c, s)
        \/ \E t \in Ends \ {s} :
              ShowEnd(c, s, t) \/ \E n \in 1 .. wrote[c][t] : Read(c, s, t, n)

Spec == Init /\ [][Next]_vars
=============================================================================
