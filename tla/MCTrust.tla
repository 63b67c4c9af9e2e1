------------------------------- MODULE MCTrust --------------------------------
(* Who is remembered and what carries it, one part at a time: the trust list  *)
(* on disk, automatic carrier selection, and the byte stream that carries     *)
(* signaling from away.                                                       *)
EXTENDS Selector, TrustFile, PunchedStream, TLC

CONSTANTS
    Parts       \* the parts that are run

\* A still, a half-still and a moving window.
MCMotions == {0, 3, 10}

\* Segments are lost and programs drop their ends; more segments go each way than fit
\* in the window; segments of one connection are about during the next.
Writes(c, h) == [s \in Ends |-> IF s = "client" THEN c ELSE h]
MCPlans ==
    {[lossy |-> TRUE, drops |-> TRUE, connections |-> 1, most |-> Writes(1, 1)],
     [lossy |-> FALSE, drops |-> FALSE, connections |-> 1, most |-> Writes(3, 2)],
     [lossy |-> FALSE, drops |-> FALSE, connections |-> 2, most |-> Writes(1, 0)]}

\* Programs and devices of the trust list are alike; the parts whose
\* liveness is checked have none of them in their state.
Symmetric == Permutations(Programs) \cup Permutations(Peers)

\* The part that runs; the others stay as they begin.
VARIABLE part

MCInit ==
    /\ part \in Parts
    /\ SelectorInit /\ TrustFileInit /\ PunchedInit
    /\ part # "selector" => rdpPossible
    /\ part # "punched" => plan.connections = 2

MCNext ==
    \/ /\ part = "selector" /\ SelectorNext
       /\ UNCHANGED <<part, trustFileVars, punchedVars>>
    \/ /\ part = "trust" /\ TrustFileNext
       /\ UNCHANGED <<part, selectorVars, punchedVars>>
    \/ /\ part = "punched" /\ PunchedNext
       /\ UNCHANGED <<part, selectorVars, trustFileVars>>

MCvars == <<selectorVars, trustFileVars, punchedVars, part>>

MCSpec == MCInit /\ [][MCNext]_MCvars
=============================================================================
