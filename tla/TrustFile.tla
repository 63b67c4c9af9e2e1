------------------------------ MODULE TrustFile ------------------------------
(***************************************************************************)
(* The list of trusted devices on disk (TrustStore of identity/src/lib.rs),  *)
(* which windowcast's host and droidtop-agent both pin and revoke in.  Each  *)
(* program serialises its own changes with a lock (Control.trust of          *)
(* host-core/src/lib.rs); nothing serialises the two.  A change reads the    *)
(* list, writes the new one beside it and renames it over, and a program may *)
(* be killed between any two of these.                                       *)
(***************************************************************************)
EXTENDS Naturals, FiniteSets

CONSTANTS Programs, Peers

ASSUME TrustFileAssumption == IsFiniteSet(Programs)

None == "None"

\* A file outlives its name: renamed over, it is still the one a program that
\* opened it writes to, though nobody reads it any more.  One for each name and each program is enough.
Files == 1 .. 2 + Cardinality(Programs)

VARIABLES
    path,       \* the file the list's name stands for
    tmp,        \* the file the name beside it stands for, or 0
    content,    \* the devices in each file
    step,       \* where each program is: "idle", "loaded", "opened", "written"
    list,       \* the list the program is to save
    change,     \* the change it makes: [pin, peer]
    fd,         \* the file it has open, or 0
    inMemory,      \* Control.trust, its list in memory
    agreed,     \* history: the list with every finished change made, in order
    overlapped, \* history: two programs were changing the list at once
    misread     \* history: a change began from a list that could not be read

diskVars == <<path, tmp, content>>
trustFileVars == <<diskVars, step, list, change, fd, inMemory, agreed, overlapped, misread>>

TrustFileTypes ==
    /\ path \in Files
    /\ tmp \in Files \cup {0} /\ tmp # path
    /\ content \in [Files -> SUBSET Peers]
    /\ step \in [Programs -> {"idle", "loaded", "opened", "written"}]
    /\ list \in [Programs -> SUBSET Peers]
    /\ change \in [Programs -> [pin : BOOLEAN, peer : Peers \cup {None}]]
    /\ fd \in [Programs -> Files \cup {0}]
    /\ inMemory \in [Programs -> SUBSET Peers]
    /\ agreed \subseteq Peers
    /\ overlapped \in BOOLEAN /\ misread \in BOOLEAN

NoChange == [pin |-> FALSE, peer |-> None]

TrustFileInit ==
    /\ path = 1 /\ tmp = 0
    /\ content = [f \in Files |-> {}]
    /\ step = [p \in Programs |-> "idle"]
    /\ list = [p \in Programs |-> {}]
    /\ change = [p \in Programs |-> NoChange]
    /\ fd = [p \in Programs |-> 0]
    /\ inMemory = [p \in Programs |-> {}]
    /\ agreed = {} /\ overlapped = FALSE /\ misread = FALSE

-----------------------------------------------------------------------------
\* TrustStore::pin and revoke.
Made(c, peers) == IF c.pin THEN peers \cup {c.peer} ELSE peers \ {c.peer}

\* TrustStore::load: a list that cannot be read is an empty one.
Load == {content[path], {}}

\* pin_client and forget take the program's lock and call TrustStore::update.
Update(p, c) ==
    /\ step[p] = "idle"
    /\ \E loaded \in Load :
         /\ list' = [list EXCEPT ![p] = Made(c, loaded)]
         /\ misread' = (misread \/ loaded # content[path])
    /\ overlapped' = (overlapped \/ \E q \in Programs : step[q] # "idle")
    /\ change' = [change EXCEPT ![p] = c]
    /\ step' = [step EXCEPT ![p] = "loaded"]
    /\ UNCHANGED <<diskVars, fd, inMemory, agreed>>

\* Bug to catch: the list is written where it is.
OpenInPlace(p) ==
    /\ step[p] = "loaded"
    /\ fd' = [fd EXCEPT ![p] = path]
    /\ content' = [content EXCEPT ![path] = {}]
    /\ step' = [step EXCEPT ![p] = "opened"]
    /\ UNCHANGED <<path, tmp, list, change, inMemory, agreed>>

\* TrustStore::save, fs::write: the file beside the list is made or emptied ...
OpenTemporary(p) ==
    /\ step[p] = "loaded"
    /\ LET f == IF tmp # 0 THEN tmp ELSE CHOOSE g \in Files : g \notin {path} \cup {fd[q] : q \in Programs} IN
         /\ tmp' = f
         /\ fd' = [fd EXCEPT ![p] = f]
         /\ content' = [content EXCEPT ![f] = {}]
    /\ step' = [step EXCEPT ![p] = "opened"]
    /\ UNCHANGED <<path, list, change, inMemory, agreed>>

\* ... and the list written to it, which closes it.
Write(p) ==
    /\ step[p] = "opened"
    /\ content' = [content EXCEPT ![fd[p]] = list[p]]
    /\ fd' = [fd EXCEPT ![p] = 0]
    /\ step' = [step EXCEPT ![p] = "written"]
    /\ UNCHANGED <<path, tmp, list, change, inMemory, agreed>>

\* TrustStore::save, fs::rename.  It fails when the name is gone; then the host
\* keeps a pin in memory only, and a revocation is not made.
Rename(p) ==
    /\ step[p] = "written"
    /\ \/ /\ tmp # 0
          /\ path' = tmp /\ tmp' = 0
          /\ content' = [content EXCEPT ![path] = {}]
          /\ inMemory' = [inMemory EXCEPT ![p] = list[p]]
          /\ agreed' = Made(change[p], agreed)
       \/ /\ tmp = 0
          /\ inMemory' = [inMemory EXCEPT ![p] = IF change[p].pin THEN @ \cup {change[p].peer} ELSE @]
          /\ UNCHANGED <<path, tmp, content, agreed>>
    /\ step' = [step EXCEPT ![p] = "idle"]
    /\ change' = [change EXCEPT ![p] = NoChange]
    /\ list' = [list EXCEPT ![p] = {}]
    /\ UNCHANGED fd

\* Control::reload_trust, and the load of a program that starts.
Reload(p) ==
    /\ step[p] = "idle"
    /\ \E loaded \in Load : inMemory' = [inMemory EXCEPT ![p] = loaded]
    /\ UNCHANGED <<diskVars, step, list, change, fd, agreed>>

\* The program is killed; it starts again and loads the list.
Crash(p) ==
    /\ step[p] # "idle"
    /\ step' = [step EXCEPT ![p] = "idle"]
    /\ change' = [change EXCEPT ![p] = NoChange]
    /\ list' = [list EXCEPT ![p] = {}]
    /\ fd' = [fd EXCEPT ![p] = 0]
    /\ \E loaded \in Load : inMemory' = [inMemory EXCEPT ![p] = loaded]
    /\ UNCHANGED <<diskVars, agreed>>

Step(p) == OpenTemporary(p) \/ Write(p) \/ Rename(p) \/ Reload(p) \/ Crash(p)

TrustFileNext ==
    \E p \in Programs :
        \/ \E pin \in BOOLEAN, d \in Peers : Update(p, [pin |-> pin, peer |-> d])
        \/ Step(p) /\ UNCHANGED <<overlapped, misread>>

TrustFileSpec == TrustFileInit /\ [][TrustFileNext]_trustFileVars

-----------------------------------------------------------------------------
\* "a reader never sees half of it" (save): as long as the programs take turns and
\* can read the list, what a reader finds is the list with every finished change
\* made, whenever it looks and whoever was killed at whatever step.
ChangesAreKept == ~ overlapped /\ ~ misread => content[path] = agreed

\* "two programs sharing one list (windowcast's host and droidtop-agent) each pin
\* and revoke without dropping the other's changes" (update): when nobody is in the
\* middle of a change, the list has every finished one.
NothingDropped ==
    ~ misread /\ (\A p \in Programs : step[p] = "idle") => content[path] = agreed
=============================================================================
