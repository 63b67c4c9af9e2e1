----------------------------- MODULE ClientProofs -----------------------------
(***************************************************************************)
(* Proofs about what the devices at the two ends keep and are shown: the    *)
(* file of trusted devices that the host's programs share (TrustFile), for  *)
(* every set of programs and peers; the client's list (ClientConnect), for  *)
(* every set of connections and hosts and every bound; the windows of the   *)
(* reference app (ViewerWindows), for all keys, pointers, sizes and numbers *)
(* of buffers; a viewer of a VNC endpoint (RemoteServers), for all pictures; *)
(* the video and sound of a GameStream client (GameMedia), for all frames   *)
(* and blocks; and the client's microphone (ClientSound), for every number  *)
(* of threads.                                                              *)
(***************************************************************************)
EXTENDS TrustFile, ClientConnect, ViewerWindows, RemoteServers, GameMedia,
        ClientSound, SequenceTheorems, FiniteSetTheorems, WellFoundedInduction, TLAPS

-----------------------------------------------------------------------------
(* The file.                                                               *)

Busy(p) == step[p] # "idle"

\* The programs take turns, and nobody began from a list it could not read.
InTurn == ~ overlapped /\ ~ misread

\* A program in the middle of a change has the device it is about.
ChangesAPeer == \A p \in Programs : Busy(p) => change[p] \in [pin : BOOLEAN, peer : Peers]

\* Taking turns, at most one program is in the middle of a change ...
OneAtATime ==
    ~ overlapped => \A p, q \in Programs : Busy(p) /\ Busy(q) => p = q

\* ... the list it is to save is what a reader finds with its change made ...
SavesTheNext ==
    InTurn => \A p \in Programs : Busy(p) => list[p] = Made(change[p], content[path])

\* ... and what it has written is in the file beside the list, never in it.
WritesBeside ==
    ~ overlapped => \A p \in Programs :
        /\ step[p] = "opened" => tmp # 0 /\ fd[p] = tmp
        /\ step[p] = "written" => tmp # 0 /\ content[tmp] = list[p]

TrustFileIInv ==
    /\ TrustFileTypes /\ ChangesAPeer
    /\ OneAtATime /\ SavesTheNext /\ WritesBeside /\ ChangesAreKept

\* There is a file that is neither the list nor open anywhere: one more than
\* the programs and the list's own.
LEMMA FileIsFree ==
    ASSUME TrustFileTypes
    PROVE  \E g \in Files : g \notin {path} \cup {fd[q] : q \in Programs}
<1> DEFINE Open == {fd[q] : q \in Programs}
<1>1. IsFiniteSet(Programs) /\ Cardinality(Programs) \in Nat
  BY TrustFileAssumption, FS_CardinalityType
<1>2. fd \in Surjection(Programs, Open)
  BY DEF Surjection, TrustFileTypes
<1>3. IsFiniteSet(Open) /\ Cardinality(Open) \in Nat /\ Cardinality(Open) <= Cardinality(Programs)
  BY <1>1, <1>2, FS_Surjection, FS_CardinalityType
<1>4. /\ IsFiniteSet(Open \cup {path})
      /\ Cardinality(Open \cup {path}) \in Nat
      /\ Cardinality(Open \cup {path}) <= Cardinality(Programs) + 1
  <2>1. /\ IsFiniteSet(Open \cup {path})
        /\ Cardinality(Open \cup {path}) = IF path \in Open THEN Cardinality(Open) ELSE Cardinality(Open) + 1
    BY <1>3, FS_AddElement
  <2> QED
    BY <1>1, <1>3, <2>1
<1>5. IsFiniteSet(Files) /\ Cardinality(Files) = Cardinality(Programs) + 2
  <2>1. 1 \in Int /\ 2 + Cardinality(Programs) \in Int /\ ~(1 > 2 + Cardinality(Programs))
    BY <1>1
  <2> QED
    BY <1>1, <2>1, FS_Interval DEF Files
<1>6. ~(Files \subseteq Open \cup {path})
  BY <1>1, <1>4, <1>5, FS_Subset
<1> QED
  BY <1>6

\* What the file beside the list is when it is opened.
LEMMA OpensBeside ==
    ASSUME TrustFileTypes, NEW p \in Programs, OpenTemporary(p)
    PROVE  /\ tmp' \in Files /\ tmp' # path /\ tmp' # 0
           /\ fd' = [fd EXCEPT ![p] = tmp']
           /\ content' = [content EXCEPT ![tmp'] = {}]
<1>1. \A g \in Files : g # 0
  <2>1. Cardinality(Programs) \in Nat
    BY TrustFileAssumption, FS_CardinalityType
  <2> QED
    BY <2>1 DEF Files
<1>2. (CHOOSE g \in Files : g \notin {path} \cup {fd[q] : q \in Programs})
         \in {g \in Files : g \notin {path} \cup {fd[q] : q \in Programs}}
  BY FileIsFree
<1> QED
  BY <1>1, <1>2 DEF OpenTemporary, TrustFileTypes

LEMMA TrustFileInitial == TrustFileInit => TrustFileIInv
<1>1. 1 \in Files /\ 0 \notin Files
  <2>1. Cardinality(Programs) \in Nat
    BY TrustFileAssumption, FS_CardinalityType
  <2> QED
    BY <2>1 DEF Files
<1> SUFFICES ASSUME TrustFileInit PROVE TrustFileIInv
  OBVIOUS
<1>2. TrustFileTypes
  BY <1>1 DEF TrustFileInit, TrustFileTypes, NoChange
<1>3. \A p \in Programs : step[p] = "idle"
  BY DEF TrustFileInit
<1>4. ChangesAPeer /\ OneAtATime /\ SavesTheNext /\ WritesBeside
  BY <1>3 DEF ChangesAPeer, OneAtATime, SavesTheNext, WritesBeside, Busy
<1>5. ChangesAreKept
  BY <1>1 DEF TrustFileInit, ChangesAreKept
<1> QED
  BY <1>2, <1>4, <1>5 DEF TrustFileIInv

\* pin_client and forget: a second program that changes the list at once is
\* an overlap, and a list that could not be read is remembered as such.
LEMMA UpdateKeeps ==
    ASSUME TrustFileIInv, NEW p \in Programs, NEW c \in [pin : BOOLEAN, peer : Peers], Update(p, c)
    PROVE  TrustFileIInv'
<1> USE DEF TrustFileIInv, Busy
<1>1. PICK loaded \in Load : /\ list' = [list EXCEPT ![p] = Made(c, loaded)]
                             /\ misread' = (misread \/ loaded # content[path])
  BY DEF Update
<1>2. TrustFileTypes'
  <2>1. loaded \subseteq Peers /\ Made(c, loaded) \subseteq Peers
    BY DEF Load, Made, TrustFileTypes
  <2> QED
    BY <1>1, <2>1 DEF Update, TrustFileTypes, diskVars
<1>3. ChangesAPeer'
  BY DEF Update, ChangesAPeer, TrustFileTypes
<1>4. OneAtATime'
  BY DEF Update, OneAtATime, TrustFileTypes
<1>5. SavesTheNext'
  BY <1>1 DEF Update, SavesTheNext, InTurn, TrustFileTypes, diskVars
<1>6. WritesBeside'
  BY <1>1 DEF Update, WritesBeside, TrustFileTypes, diskVars
<1>7. ChangesAreKept'
  BY <1>1 DEF Update, ChangesAreKept, diskVars, TrustFileTypes
<1> QED
  BY <1>2, <1>3, <1>4, <1>5, <1>6, <1>7

\* save, fs::write opens the file beside the list: the list itself stays.
LEMMA OpenTemporaryKeeps ==
    ASSUME TrustFileIInv, NEW p \in Programs, OpenTemporary(p), UNCHANGED <<overlapped, misread>>
    PROVE  TrustFileIInv'
<1> USE DEF TrustFileIInv, Busy
<1>1. /\ tmp' \in Files /\ tmp' # path /\ tmp' # 0
      /\ fd' = [fd EXCEPT ![p] = tmp']
      /\ content' = [content EXCEPT ![tmp'] = {}]
  BY OpensBeside
<1>2. TrustFileTypes' /\ content'[path] = content[path]
  BY <1>1 DEF OpenTemporary, TrustFileTypes
<1>3. ChangesAPeer' /\ OneAtATime'
  BY DEF OpenTemporary, ChangesAPeer, OneAtATime, TrustFileTypes
<1>4. SavesTheNext' /\ ChangesAreKept'
  BY <1>2 DEF OpenTemporary, SavesTheNext, ChangesAreKept, InTurn, TrustFileTypes
<1>5. WritesBeside'
  BY <1>1 DEF OpenTemporary, WritesBeside, OneAtATime, TrustFileTypes
<1> QED
  BY <1>2, <1>3, <1>4, <1>5

\* ... and writes it: beside the list as long as the programs take turns.
LEMMA WriteKeeps ==
    ASSUME TrustFileIInv, NEW p \in Programs, Write(p), UNCHANGED <<overlapped, misread>>
    PROVE  TrustFileIInv'
<1> USE DEF TrustFileIInv, Busy
<1>1. TrustFileTypes'
  BY DEF Write, TrustFileTypes
<1>2. ChangesAPeer' /\ OneAtATime'
  BY DEF Write, ChangesAPeer, OneAtATime, TrustFileTypes
<1>3. ~ overlapped => fd[p] = tmp /\ tmp # 0 /\ tmp # path
  BY DEF Write, WritesBeside, TrustFileTypes
<1>4. ~ overlapped => content'[path] = content[path] /\ content'[tmp] = list[p]
  BY <1>3 DEF Write, TrustFileTypes
<1>5. SavesTheNext' /\ ChangesAreKept'
  BY <1>4 DEF Write, SavesTheNext, ChangesAreKept, InTurn, TrustFileTypes
<1>6. WritesBeside'
  BY <1>3, <1>4 DEF Write, WritesBeside, OneAtATime, TrustFileTypes
<1> QED
  BY <1>1, <1>2, <1>5, <1>6

\* save, fs::rename: what is put in the list's place is the list before with
\* the change made.
LEMMA RenameKeeps ==
    ASSUME TrustFileIInv, NEW p \in Programs, Rename(p), UNCHANGED <<overlapped, misread>>
    PROVE  TrustFileIInv'
<1> USE DEF TrustFileIInv, Busy
<1>1. /\ list[p] \in SUBSET Peers /\ change[p] \in [pin : BOOLEAN, peer : Peers]
      /\ Made(change[p], agreed) \subseteq Peers /\ step[p] = "written"
  BY DEF Rename, TrustFileTypes, ChangesAPeer, Made
<1>2. TrustFileTypes'
  <2>1. CASE tmp # 0
    BY <1>1, <2>1 DEF Rename, TrustFileTypes, NoChange
  <2>2. CASE tmp = 0
    BY <1>1, <2>2 DEF Rename, TrustFileTypes, NoChange
  <2> QED
    BY <2>1, <2>2
<1>3. ChangesAPeer' /\ OneAtATime'
  BY DEF Rename, ChangesAPeer, OneAtATime, TrustFileTypes
<1>4. ~ overlapped => \A q \in Programs : step'[q] = "idle"
  BY <1>1 DEF Rename, OneAtATime, TrustFileTypes
<1>5. SavesTheNext' /\ WritesBeside'
  BY <1>4 DEF Rename, SavesTheNext, WritesBeside, InTurn
<1>6. ChangesAreKept'
  <2> SUFFICES ASSUME ~ overlapped, ~ misread PROVE content'[path'] = agreed'
    BY DEF ChangesAreKept
  <2>1. tmp # 0 /\ content[tmp] = list[p] /\ tmp # path /\ tmp \in Files
    BY <1>1 DEF WritesBeside, TrustFileTypes
  <2>2. list[p] = Made(change[p], content[path]) /\ content[path] = agreed
    BY <1>1 DEF SavesTheNext, ChangesAreKept, InTurn
  <2>3. path' = tmp /\ content' = [content EXCEPT ![path] = {}] /\ agreed' = Made(change[p], agreed)
    BY <2>1 DEF Rename
  <2>4. content'[tmp] = content[tmp]
    BY <2>1, <2>3 DEF TrustFileTypes
  <2> QED
    BY <2>1, <2>2, <2>3, <2>4
<1> QED
  BY <1>2, <1>3, <1>5, <1>6

\* A reload: the file and the changes under way are as they were.
LEMMA ReloadKeeps ==
    ASSUME TrustFileIInv, NEW p \in Programs, Reload(p), UNCHANGED <<overlapped, misread>>
    PROVE  TrustFileIInv'
<1> USE DEF TrustFileIInv, Busy
<1>1. UNCHANGED <<path, tmp, content, step, list, change, fd, agreed, overlapped, misread>>
  BY DEF Reload, diskVars
<1>2. inMemory' \in [Programs -> SUBSET Peers]
  BY DEF Reload, Load, TrustFileTypes
<1>3. TrustFileTypes'
  BY <1>1, <1>2 DEF TrustFileTypes
<1> QED
  BY <1>1, <1>3 DEF ChangesAPeer, OneAtATime, SavesTheNext, WritesBeside, ChangesAreKept, InTurn

\* A kill and a new start: the file is as it was, and one change fewer is
\* under way.
LEMMA CrashKeeps ==
    ASSUME TrustFileIInv, NEW p \in Programs, Crash(p), UNCHANGED <<overlapped, misread>>
    PROVE  TrustFileIInv'
<1> USE DEF TrustFileIInv, Busy
<1>1. /\ UNCHANGED <<path, tmp, content, agreed, overlapped, misread>>
      /\ step' = [step EXCEPT ![p] = "idle"] /\ list' = [list EXCEPT ![p] = {}]
      /\ change' = [change EXCEPT ![p] = NoChange] /\ fd' = [fd EXCEPT ![p] = 0]
  BY DEF Crash, diskVars
<1>2. inMemory' \in [Programs -> SUBSET Peers]
  BY DEF Crash, Load, TrustFileTypes
<1>3. TrustFileTypes'
  BY <1>1, <1>2 DEF TrustFileTypes, NoChange
<1>4. ChangesAPeer' /\ OneAtATime'
  BY <1>1 DEF ChangesAPeer, OneAtATime, TrustFileTypes
<1>5. SavesTheNext' /\ ChangesAreKept'
  BY <1>1 DEF SavesTheNext, ChangesAreKept, InTurn, TrustFileTypes
<1>6. WritesBeside'
  BY <1>1 DEF WritesBeside, TrustFileTypes
<1> QED
  BY <1>3, <1>4, <1>5, <1>6

LEMMA TrustFileInductive == TrustFileIInv /\ [TrustFileNext]_trustFileVars => TrustFileIInv'
<1> SUFFICES ASSUME TrustFileIInv, [TrustFileNext]_trustFileVars PROVE TrustFileIInv'
  OBVIOUS
<1>1. ASSUME NEW p \in Programs, NEW pin \in BOOLEAN, NEW d \in Peers, Update(p, [pin |-> pin, peer |-> d])
      PROVE  TrustFileIInv'
  <2>1. [pin |-> pin, peer |-> d] \in [pin : BOOLEAN, peer : Peers]
    OBVIOUS
  <2> QED
    BY <1>1, <2>1, UpdateKeeps
<1>2. ASSUME NEW p \in Programs, Step(p), UNCHANGED <<overlapped, misread>>
      PROVE  TrustFileIInv'
  <2>1. CASE OpenTemporary(p)
    BY <1>2, <2>1, OpenTemporaryKeeps
  <2>2. CASE Write(p)
    BY <1>2, <2>2, WriteKeeps
  <2>3. CASE Rename(p)
    BY <1>2, <2>3, RenameKeeps
  <2>4. CASE Reload(p)
    BY <1>2, <2>4, ReloadKeeps
  <2>5. CASE Crash(p)
    BY <1>2, <2>5, CrashKeeps
  <2> QED
    BY <1>2, <2>1, <2>2, <2>3, <2>4, <2>5 DEF Step
<1>3. CASE UNCHANGED trustFileVars
  BY <1>3 DEF trustFileVars, diskVars, TrustFileIInv, TrustFileTypes, ChangesAPeer, OneAtATime,
              SavesTheNext, WritesBeside, ChangesAreKept, InTurn, Busy
<1> QED
  BY <1>1, <1>2, <1>3 DEF TrustFileNext

\* The list on disk stays a list of peers, in a file of its own (TrustStore).
THEOREM TrustFileTyped == TrustFileSpec => []TrustFileTypes
<1>1. TrustFileIInv => TrustFileTypes
  BY DEF TrustFileIInv
<1> QED
  BY <1>1, TrustFileInitial, TrustFileInductive, PTL DEF TrustFileSpec

\* However many programs share the list, whoever of them is killed at
\* whatever step: as long as they take turns and can read it, a reader finds
\* the list with every finished change made (TrustStore::save, update).
THEOREM ChangesSurvive == TrustFileSpec => []ChangesAreKept
<1>1. TrustFileIInv => ChangesAreKept
  BY DEF TrustFileIInv
<1> QED
  BY <1>1, TrustFileInitial, TrustFileInductive, PTL DEF TrustFileSpec

-----------------------------------------------------------------------------
(* The client's own list.                                                  *)

\* A host that was paired and kept is in the list, and the file never has
\* fewer: nothing more is needed, for every change is made to the list
\* itself and not to the copy a connection began with.
LEMMA ConnectInitial == ConnectInit => PairingsAreKept
  BY DEF ConnectInit, PairingsAreKept

LEMMA ConnectInductive == PairingsAreKept /\ [ConnectNext]_connectVars => PairingsAreKept'
<1> SUFFICES ASSUME PairingsAreKept, [ConnectNext]_connectVars PROVE PairingsAreKept'
  OBVIOUS
<1> USE DEF PairingsAreKept, listVars
<1>1. ASSUME NEW c \in Connections,
             \/ Connect(c) \/ ConnectAway(c) \/ Unreachable(c) \/ Resumes(c)
             \/ TellsDiscovery(c) \/ TurnedAway(c) \/ Pairs(c)
      PROVE  PairingsAreKept'
  BY <1>1 DEF Connect, ConnectAway, Unreachable, Resumes, TellsDiscovery, TurnedAway, Pairs
<1>2. ASSUME NEW c \in Connections, PinsHost(c) PROVE PairingsAreKept'
  BY <1>2 DEF PinsHost, Pinned
<1>3. ASSUME NEW h \in DialedHosts, Forget(h) PROVE PairingsAreKept'
  BY <1>3 DEF Forget
<1>4. ASSUME NEW h \in DialedHosts, HostForgets(h) \/ HostOpensPairing(h) PROVE PairingsAreKept'
  BY <1>4 DEF HostForgets, HostOpensPairing
<1>5. CASE RestartsClient
  BY <1>5 DEF RestartsClient
<1>6. CASE UNCHANGED connectVars
  BY <1>6 DEF connectVars
<1> QED
  BY <1>1, <1>2, <1>3, <1>4, <1>5, <1>6 DEF ConnectNext

\* A host the client paired with and has not forgotten is trusted, now and
\* after a restart, whatever connections, pairings and forgets ran beside it
\* (client-core connect, forget, Client::new).
THEOREM PairingsSurvive == ConnectSpec => []PairingsAreKept
  BY ConnectInitial, ConnectInductive, PTL DEF ConnectSpec

-----------------------------------------------------------------------------
(* The window's pointer.                                                     *)

\* Windows asks where the mouse is over the window, and not otherwise.
AsksWhereItIs == askedPointer => over /\ desk = "windows"

PointerIInv == PointerIsTheWindows /\ AsksWhereItIs

LEMMA PointerInitial == WindowInputInit => PointerIInv
  BY DEF WindowInputInit, PointerIInv, PointerIsTheWindows, AsksWhereItIs

LEMMA PointerInductive == PointerIInv /\ [WindowInputNext]_windowInputVars => PointerIInv'
<1> SUFFICES ASSUME PointerIInv, [WindowInputNext]_windowInputVars PROVE PointerIInv'
  OBVIOUS
<1> USE DEF PointerIInv, PointerIsTheWindows, AsksWhereItIs
<1>1. ASSUME UNCHANGED <<desk, over, stateInput, statePointer, shownPointer, askedPointer>>
      PROVE PointerIInv'
  BY <1>1 DEF ShownPointer
<1>2. ASSUME NEW k \in Held, Presses(k) PROVE PointerIInv'
  BY <1>1, <1>2 DEF Presses, pointerVars, loopVars
<1>3. ASSUME NEW k \in Held, Releases(k) PROVE PointerIInv'
  BY <1>1, <1>3 DEF Releases, pointerVars, loopVars
<1>4. CASE FocusChanges
  BY <1>1, <1>4 DEF FocusChanges, pointerVars, loopVars
<1>5. CASE MouseMoves
  BY <1>5 DEF MouseMoves, ShownPointer, loopVars
<1>6. CASE AsksFullscreen
  BY <1>1, <1>6 DEF AsksFullscreen, pointerVars, loopVars
<1>7. CASE InputSwitched
  BY <1>1, <1>7 DEF InputSwitched, pointerVars, loopVars
<1>8. CASE HostPointerChanges
  BY <1>1, <1>8 DEF HostPointerChanges, loopVars
<1>9. CASE WindowsTurn
  BY <1>9 DEF WindowsTurn, ShowPointer, PointerChanged, ShownPointer
<1>10. CASE LinuxTurn
  <2>1. desk # "windows" /\ desk' = desk /\ askedPointer' = askedPointer
    BY <1>10 DEF LinuxTurn, pointerVars
  <2> QED
    BY <2>1
<1>11. CASE UNCHANGED windowInputVars
  BY <1>1, <1>11 DEF windowInputVars
<1> QED
  BY <1>2, <1>3, <1>4, <1>5, <1>6, <1>7, <1>8, <1>9, <1>10, <1>11 DEF WindowInputNext

-----------------------------------------------------------------------------
(* The buffers.                                                              *)

Used == {b \in BufferNos : shown[b].size # 0}

BufferTypes ==
    /\ shown \in [BufferNos -> [size : PictureSizes \union {0}, busy : BOOLEAN, picture : Nat]]
    /\ lent \in [BufferNos -> Nat]
    /\ released \subseteq BufferNos
    /\ pictureNo \in Nat

\* What the compositor reads, and what it has let go without the window having
\* read that, is marked as busy.
BusyWhileHeld ==
    /\ \A b \in BufferNos : lent[b] # 0 => shown[b].busy /\ shown[b].picture = lent[b]
    /\ \A b \in BufferNos : shown[b].busy => shown[b].size # 0
    /\ \A b \in BufferNos : b \in released => shown[b].busy /\ lent[b] = 0

BuffersIInv == BufferTypes /\ BusyWhileHeld /\ Cardinality(Used) <= SHOWN_BUFFERS

\* Some of the buffers are finitely many.
LEMMA BuffersAreFinite ==
  ASSUME NEW S \in SUBSET BufferNos
  PROVE  IsFiniteSet(S) /\ Cardinality(S) \in Nat
<1>1. IsFiniteSet(BufferNos)
  BY BuffersAssumption, FS_Interval DEF BufferNos
<1> QED
  BY <1>1, FS_Subset, FS_CardinalityType

LEMMA BuffersInitial == PicturesInit => BuffersIInv
<1> SUFFICES ASSUME PicturesInit PROVE BuffersIInv
  OBVIOUS
<1>1. Used = {}
  BY DEF PicturesInit, Used, NoBuffer
<1>2. Cardinality(Used) <= SHOWN_BUFFERS
  BY <1>1, FS_EmptySet, BuffersAssumption
<1>3. BufferTypes
  BY DEF PicturesInit, BufferTypes, NoBuffer
<1>4. BusyWhileHeld
  BY DEF PicturesInit, BusyWhileHeld, NoBuffer
<1> QED
  BY <1>2, <1>3, <1>4 DEF BuffersIInv

\* A picture put into buffer b, kept or new, when the others are as they were
\* or no buffers any more.
LEMMA ShowPictureKeeps ==
  ASSUME BuffersIInv,
         NEW size \in PictureSizes, NEW b \in BufferNos,
         ~ shown[b].busy, ShowPicture(b, size),
         Cardinality(Kept(size) \union {b}) <= SHOWN_BUFFERS,
         pictureNo' = pictureNo + 1,
         released' = released \intersect {a \in BufferNos : shown'[a].busy}
  PROVE  BuffersIInv'
<1>1. size # 0 /\ shown[b].busy = FALSE /\ size \in PictureSizes \union {0}
  BY BuffersAssumption DEF BuffersIInv, BufferTypes
<1>2. shown'[b] = [size |-> size, busy |-> TRUE, picture |-> pictureNo + 1]
  BY DEF ShowPicture, NewShown, NoBuffer
<1>3. \A a \in BufferNos : a # b =>
        shown'[a] = (IF a \in Kept(size) THEN shown[a] ELSE NoBuffer)
  BY DEF ShowPicture
<1>4. lent' = [lent EXCEPT ![b] = pictureNo + 1] /\ lent'[b] = pictureNo + 1
  BY DEF ShowPicture, BuffersIInv, BufferTypes
<1>5. lent[b] = 0 /\ b \notin released
  BY DEF BuffersIInv, BusyWhileHeld
<1>6. \A a \in BufferNos : shown[a].busy => a \in Kept(size)
  BY DEF Kept, BuffersIInv, BusyWhileHeld
<1>7. BufferTypes'
  <2> DEFINE Buffer == [size : PictureSizes \union {0}, busy : BOOLEAN, picture : Nat]
  <2>1. shown' \in [BufferNos -> Buffer]
    <3>1. ASSUME NEW a \in BufferNos PROVE shown'[a] \in Buffer
      <4>1. shown[a] \in Buffer /\ NoBuffer \in Buffer
        BY DEF BuffersIInv, BufferTypes, NoBuffer
      <4>2. [size |-> size, busy |-> TRUE, picture |-> pictureNo + 1] \in Buffer
        BY <1>1 DEF BuffersIInv, BufferTypes
      <4> QED
        BY <4>1, <4>2, <1>2, <1>3
    <3> DEFINE next(c) == IF c = b THEN [NewShown(size) EXCEPT !.busy = TRUE, !.picture = pictureNo + 1]
                          ELSE IF c \in Kept(size) THEN shown[c] ELSE NoBuffer
    <3>2. shown' = [c \in BufferNos |-> next(c)]
      BY DEF ShowPicture
    <3> HIDE DEF Buffer, next
    <3>3. \A c \in BufferNos : next(c) \in Buffer
      BY <3>1, <3>2
    <3> QED
      BY <3>2, <3>3
  <2>2. lent' \in [BufferNos -> Nat] /\ pictureNo' \in Nat
    BY <1>4 DEF BuffersIInv, BufferTypes
  <2>3. released' \subseteq BufferNos
    OBVIOUS
  <2> QED
    BY <2>1, <2>2, <2>3 DEF BufferTypes
<1>8. BusyWhileHeld'
  <2>1. ASSUME NEW a \in BufferNos PROVE
          /\ lent'[a] # 0 => shown'[a].busy /\ shown'[a].picture = lent'[a]
          /\ shown'[a].busy => shown'[a].size # 0
          /\ a \in released' => shown'[a].busy /\ lent'[a] = 0
    <3>1. CASE a = b
      BY <3>1, <1>1, <1>2, <1>4, <1>5
    <3>2. CASE a # b
      <4>1. lent'[a] = lent[a]
        BY <3>2, <1>4 DEF BuffersIInv, BufferTypes
      <4>2. CASE a \in Kept(size)
        <5>1. shown'[a] = shown[a]
          BY <3>2, <1>3, <4>2
        <5> QED
          BY <4>1, <5>1 DEF BuffersIInv, BusyWhileHeld
      <4>3. CASE a \notin Kept(size)
        <5>1. shown'[a] = NoBuffer /\ ~ shown[a].busy
          BY <3>2, <1>3, <1>6, <4>3
        <5> QED
          BY <4>1, <5>1 DEF BuffersIInv, BusyWhileHeld, NoBuffer
      <4> QED
        BY <4>2, <4>3
    <3> QED
      BY <3>1, <3>2
  <2> QED
    BY <2>1 DEF BusyWhileHeld
<1>9. (Cardinality(Used) <= SHOWN_BUFFERS)'
  <2>1. Used' \subseteq Kept(size) \union {b}
    BY <1>3 DEF Used, NoBuffer
  <2>2. Kept(size) \union {b} \subseteq BufferNos
    BY DEF Kept
  <2>3. IsFiniteSet(Kept(size) \union {b})
    BY <2>2, BuffersAreFinite
  <2>4. Cardinality(Used') <= Cardinality(Kept(size) \union {b})
    BY <2>1, <2>3, FS_Subset
  <2>5. Cardinality(Used') \in Nat /\ Cardinality(Kept(size) \union {b}) \in Nat
    BY <2>2, <2>1, BuffersAreFinite
  <2> QED
    BY <2>4, <2>5, BuffersAssumption
<1> QED
  BY <1>7, <1>8, <1>9 DEF BuffersIInv

\* A picture that is skipped: the buffers of another size go where they are free.
LEMMA SkippedKeeps ==
  ASSUME BuffersIInv, NEW size \in PictureSizes,
         shown' = [c \in BufferNos |-> IF c \in Kept(size) THEN shown[c] ELSE NoBuffer],
         UNCHANGED lent, pictureNo' = pictureNo + 1,
         released' = released \intersect {a \in BufferNos : shown'[a].busy}
  PROVE  BuffersIInv'
<1>1. \A a \in BufferNos : shown[a].busy => a \in Kept(size)
  BY DEF Kept, BuffersIInv, BusyWhileHeld
<1>2. BufferTypes'
  BY DEF BuffersIInv, BufferTypes, NoBuffer
<1>3. BusyWhileHeld'
  BY <1>1 DEF BuffersIInv, BusyWhileHeld, NoBuffer
<1>4. (Cardinality(Used) <= SHOWN_BUFFERS)'
  <2>1. Used' \subseteq Used /\ Used \subseteq BufferNos
    BY DEF Used, NoBuffer
  <2>2. IsFiniteSet(Used)
    BY <2>1, BuffersAreFinite
  <2>3. Cardinality(Used') <= Cardinality(Used) /\ Cardinality(Used) <= SHOWN_BUFFERS
    BY <2>1, <2>2, FS_Subset DEF BuffersIInv
  <2>4. Cardinality(Used') \in Nat /\ Cardinality(Used) \in Nat
    BY <2>1, BuffersAreFinite
  <2> QED
    BY <2>3, <2>4, BuffersAssumption
<1> QED
  BY <1>2, <1>3, <1>4 DEF BuffersIInv

LEMMA PictureDecodedKeeps ==
  ASSUME BuffersIInv, NEW size \in PictureSizes, PictureDecoded(size)
  PROVE  BuffersIInv'
<1>1. pictureNo' = pictureNo + 1 /\ released' = released \intersect {a \in BufferNos : shown'[a].busy}
  BY DEF PictureDecoded
<1>2. ASSUME NEW b \in FreeOf(size), ShowPicture(b, size) PROVE BuffersIInv'
  <2>1. b \in BufferNos /\ ~ shown[b].busy /\ b \in Kept(size) /\ shown[b].size # 0 /\ shown[b].size = size
    BY <1>2 DEF FreeOf, Kept
  <2>2. Kept(size) \union {b} \subseteq Used /\ Used \subseteq BufferNos
    BY <2>1 DEF Kept, Used
  <2>3. Cardinality(Kept(size) \union {b}) <= Cardinality(Used) /\ Cardinality(Used) <= SHOWN_BUFFERS
    BY <2>2, BuffersAreFinite, FS_Subset DEF BuffersIInv
  <2>4. Cardinality(Kept(size) \union {b}) \in Nat /\ Cardinality(Used) \in Nat
    BY <2>2, BuffersAreFinite
  <2>5. Cardinality(Kept(size) \union {b}) <= SHOWN_BUFFERS
    BY <2>3, <2>4, BuffersAssumption
  <2> QED
    BY <1>1, <1>2, <2>1, <2>5, ShowPictureKeeps
<1>3. ASSUME Cardinality(Kept(size)) < SHOWN_BUFFERS,
             NEW b \in BufferNos \ Kept(size), ShowPicture(b, size)
      PROVE  BuffersIInv'
  <2>1. ~ shown[b].busy
    BY <1>3 DEF Kept, BuffersIInv, BusyWhileHeld
  <2>2. Kept(size) \subseteq BufferNos
    BY DEF Kept
  <2>3. IsFiniteSet(Kept(size)) /\ Cardinality(Kept(size)) \in Nat
    BY <2>2, BuffersAreFinite
  <2>4. Cardinality(Kept(size) \union {b}) = Cardinality(Kept(size)) + 1
    BY <1>3, <2>3, FS_AddElement
  <2>5. Cardinality(Kept(size) \union {b}) <= SHOWN_BUFFERS
    BY <1>3, <2>3, <2>4, BuffersAssumption
  <2> QED
    BY <1>1, <1>3, <2>1, <2>5, ShowPictureKeeps
<1>4. ASSUME shown' = [c \in BufferNos |-> IF c \in Kept(size) THEN shown[c] ELSE NoBuffer],
             UNCHANGED lent
      PROVE  BuffersIInv'
  BY <1>1, <1>4, SkippedKeeps
<1> QED
  BY <1>2, <1>3, <1>4 DEF PictureDecoded

LEMMA BuffersInductive == BuffersIInv /\ [PicturesNext]_pictureVars => BuffersIInv'
<1> SUFFICES ASSUME BuffersIInv, [PicturesNext]_pictureVars PROVE BuffersIInv'
  OBVIOUS
<1>1. ASSUME UNCHANGED pictureVars PROVE BuffersIInv'
  BY <1>1 DEF BuffersIInv, BufferTypes, BusyWhileHeld, Used, pictureVars
<1>2. ASSUME NEW b \in BufferNos, CompositorReleases(b) PROVE BuffersIInv'
  <2>1. Used' = Used
    BY <1>2 DEF CompositorReleases, Used
  <2>2. BufferTypes'
    BY <1>2 DEF CompositorReleases, BuffersIInv, BufferTypes
  <2>3. BusyWhileHeld'
    BY <1>2 DEF CompositorReleases, BuffersIInv, BufferTypes, BusyWhileHeld
  <2> QED
    BY <2>1, <2>2, <2>3 DEF BuffersIInv
<1>3. ASSUME NEW b \in BufferNos, BufferReleased(b) PROVE BuffersIInv'
  <2>1. \A a \in BufferNos : shown'[a].size = shown[a].size /\ shown'[a].picture = shown[a].picture
                           /\ shown'[a].busy = (shown[a].busy /\ a # b)
    BY <1>3 DEF BufferReleased, BuffersIInv, BufferTypes
  <2>2. Used' = Used
    BY <2>1 DEF Used
  <2>3. BufferTypes'
    BY <1>3 DEF BufferReleased, BuffersIInv, BufferTypes
  <2>4. BusyWhileHeld'
    BY <1>3, <2>1 DEF BufferReleased, BuffersIInv, BusyWhileHeld
  <2> QED
    BY <2>2, <2>3, <2>4 DEF BuffersIInv
<1>4. ASSUME NEW size \in PictureSizes, PictureDecoded(size) PROVE BuffersIInv'
  BY <1>4, PictureDecodedKeeps
<1>5. ASSUME ClosesLinuxWindow PROVE BuffersIInv'
  BY <1>5 DEF ClosesLinuxWindow, BuffersIInv, BufferTypes, BusyWhileHeld, Used
<1> QED
  BY <1>1, <1>2, <1>3, <1>4, <1>5 DEF PicturesNext

\* What a window of the reference app gives the desktop, for any buttons, keys,
\* pointers, sizes and number of buffers: the pointer Windows is shown is the
\* one of the window's state, and a buffer the compositor holds keeps its
\* picture (client-windows window.rs and linux.rs).
THEOREM WindowsShowTheirs == WindowInputSpec /\ PicturesSpec => []WindowsShowTheirOwn
<1>1. PointerIInv => PointerIsTheWindows
  BY DEF PointerIInv
<1>2. BuffersIInv => HeldBuffersAreLeftAlone
  BY DEF BuffersIInv, BusyWhileHeld, HeldBuffersAreLeftAlone, Used
<1>3. WindowsShowTheirOwn <=> PointerIsTheWindows /\ HeldBuffersAreLeftAlone
  BY DEF WindowsShowTheirOwn
<1> QED
  BY <1>1, <1>2, <1>3, PointerInitial, PointerInductive, BuffersInitial, BuffersInductive, PTL
  DEF WindowInputSpec, PicturesSpec

-----------------------------------------------------------------------------
(* The endpoint of VNC and a viewer.  A viewer asks again when it has its    *)
(* answer, so at most one update is asked for or on its way; drawn over what *)
(* the viewer has, it makes the picture that was sent.                       *)

FrameSizes == Nat \ {0}
RectPixels == UNION {[D -> Colours] : D \in SUBSET FrameSizes}
UpdateMessages == [resize : Nat, pixels : RectPixels]
ViewerMessages ==
    [t : {"format"}, known : BOOLEAN] \union [t : {"resize"}, on : BOOLEAN]
      \union [t : {"update"}, incremental : BOOLEAN]
Updaters ==
    [resize : BOOLEAN, last : Pictures \union {NoPicture},
     previous : Pictures \union {NoPicture}, sent : Nat, outgrown : BOOLEAN]
Viewers ==
    [fb : Seq(Colours), asked : BOOLEAN, holds : SUBSET {"control", "c"},
     sent : Nat, broken : BOOLEAN]

VncTypes ==
    /\ vnc \in [stop : BOOLEAN, accepts : BOOLEAN, phase : {"none", "handshake", "on", "over"}]
    /\ vwindow \in [picture : Pictures, made : Nat, gone : BOOLEAN]
    /\ wants \in Seq(ViewerMessages)
    /\ updates \in Updaters
    /\ vreader \in [on : BOOLEAN, size : Nat, buttons : SUBSET {"left"}, shortcut : BOOLEAN]
    /\ toViewer \in Seq(UpdateMessages)
    /\ vncViewer \in Viewers

AsksUpdate(i) == wants[i].t = "update"

\* One update at a time is asked for or on its way.
OneUpdate ==
    /\ \A i, j \in DOMAIN wants : AsksUpdate(i) /\ AsksUpdate(j) => i = j
    /\ toViewer # <<>> \/ ~vncViewer.asked => \A i \in DOMAIN wants : ~AsksUpdate(i)
    /\ ~vncViewer.asked => toViewer = <<>>
    /\ Len(toViewer) <= 1

\* What the phase of the connection says of the updater.
UpdaterStands ==
    /\ vnc.phase \in {"none", "handshake"} =>
         updates.sent = 0 /\ wants = <<>>
    /\ vnc.phase = "on" => updates.last \in Pictures
    /\ vreader.on => vnc.phase = "on"
    /\ updates.previous # NoPicture => updates.previous = updates.last /\ updates.sent # 0
    /\ updates.sent = 0 => toViewer = <<>> /\ (vnc.phase = "on" => Len(vncViewer.fb) = Len(updates.last))

\* The viewer has what was sent ...
ShowsSent ==
    updates.sent # 0 /\ ~vncViewer.broken /\ toViewer = <<>> =>
      /\ Len(vncViewer.fb) = updates.sent
      /\ \A i \in 1..updates.sent : i <= Len(updates.last) => vncViewer.fb[i] = updates.last[i]

\* The size of a framebuffer when an update is drawn, and whether it then shows a
\* picture.
SizeWith(fb, m) == IF m.resize # 0 THEN m.resize ELSE Len(fb)
MakesPicture(fb, m, target, shownSize) ==
    \A i \in 1..shownSize : i <= Len(target) =>
        IF i \in DOMAIN m.pixels THEN m.pixels[i] = target[i]
        ELSE m.resize = 0 /\ fb[i] = target[i]

\* ... or will, when it has drawn what is on its way.
WillShowSent ==
    updates.sent # 0 /\ ~vncViewer.broken /\ toViewer # <<>> =>
      /\ SizeWith(vncViewer.fb, Head(toViewer)) = updates.sent
      /\ MakesPicture(vncViewer.fb, Head(toViewer), updates.last, updates.sent)

\* Only a viewer the window has outgrown is given what it has no room for.
RoomFor(m, shownSize) == DOMAIN m.pixels \subseteq 1..shownSize
FitsUnlessOutgrown ==
    ~updates.outgrown =>
      /\ ~vncViewer.broken
      /\ toViewer # <<>> => RoomFor(Head(toViewer), updates.sent)

VncIInv ==
    VncTypes /\ OneUpdate /\ UpdaterStands /\ ShowsSent /\ WillShowSent /\ FitsUnlessOutgrown

-----------------------------------------------------------------------------
(* Pictures and the parts of them.                                           *)

\* A set of numbers that is not empty has a least one.
LEMMA LeastOf ==
    ASSUME NEW S, S \subseteq Nat, S # {}
    PROVE  Min(S) \in S /\ \A j \in S : Min(S) <= j
<1>1. PICK R : R = OpToRel(<, Nat)
  OBVIOUS
<1>2. PICK i \in S : \A j \in S : ~ (<<j, i>> \in R)
  <2>1. IsWellFoundedOn(R, Nat)
    BY <1>1, NatLessThanWellFounded
  <2> QED
    BY <2>1, WFMin
<1>3. \A j \in S : <<j, i>> \in R <=> j < i
  BY <1>1 DEF OpToRel
<1>4. \A j \in S : i <= j
  <2> SUFFICES ASSUME NEW j \in S PROVE i <= j
    OBVIOUS
  <2>1. ~ (j < i)
    BY <1>2, <1>3
  <2>2. i \in Nat /\ j \in Nat
    OBVIOUS
  <2> QED
    BY <2>1, <2>2
<1> QED
  BY <1>4 DEF Min

\* And a greatest one, when there is a bound: the one least far from it.
LEMMA GreatestOf ==
    ASSUME NEW n \in Nat, NEW S \in SUBSET (1..n), S # {}
    PROVE  Max(S) \in S /\ \A j \in S : j <= Max(S)
<1> DEFINE Far == {n - j : j \in S}
<1>1. Far \subseteq Nat /\ Far # {}
  <2>1. \A j \in S : j \in 1..n
    OBVIOUS
  <2>2. \A j \in 1..n : n - j \in Nat
    OBVIOUS
  <2> QED
    BY <2>1, <2>2
<1>2. Min(Far) \in Far /\ \A d \in Far : Min(Far) <= d
  BY <1>1, LeastOf
<1>3. PICK i \in S : Min(Far) = n - i
  BY <1>2
<1>4. \A j \in S : i >= j
  <2> SUFFICES ASSUME NEW j \in S PROVE i >= j
    OBVIOUS
  <2>1. n - i <= n - j
    BY <1>2, <1>3
  <2>2. i \in Nat /\ j \in Nat
    OBVIOUS
  <2> QED
    BY <2>1, <2>2
<1>5. Max(S) \in S /\ \A j \in S : Max(S) >= j
  BY <1>4 DEF Max
<1>6. S \subseteq Nat
  OBVIOUS
<1> QED
  BY <1>5, <1>6

\* A picture is a sequence of pixels and is not empty.
LEMMA PicturesAreSeqs ==
    ASSUME NEW p \in Pictures
    PROVE  /\ p \in Seq(Colours) /\ Len(p) \in FrameSizes /\ p # NoPicture
           /\ DOMAIN p = 1..Len(p)
           /\ \A i \in 1..Len(p) : p[i] \in Colours
<1>1. PICK w \in Widths : p \in [1..w -> Colours]
  BY DEF Pictures
<1>2. w \in Nat /\ w # 0
  BY WidthsAssumption
<1>3. p \in Seq(Colours)
  BY <1>1, <1>2, SeqDef
<1>4. Len(p) = w
  BY <1>1, <1>2, <1>3, LenProperties
<1>5. p # <<>>
  BY <1>2, <1>4, <1>3, EmptySeq
<1> QED
  BY <1>1, <1>2, <1>3, <1>4, <1>5 DEF FrameSizes, NoPicture

\* What lies outside the range sent is as it was.
LEMMA ChangedRangeHoldsChanges ==
    ASSUME NEW before \in Pictures, NEW after \in Pictures
    PROVE  /\ ChangedRange(before, after) \subseteq 1..Len(after)
           /\ \A i \in 1..Len(after) :
                i \notin ChangedRange(before, after) => before[i] = after[i]
<1> DEFINE differs == {i \in 1..Len(after) : before[i] # after[i]}
<1>1. Len(after) \in Nat
  BY PicturesAreSeqs DEF FrameSizes
<1>2. CASE differs = {}
  BY <1>2 DEF ChangedRange
<1>3. CASE differs # {}
  <2>1. differs \in SUBSET (1..Len(after)) /\ differs \subseteq Nat
    BY <1>1
  <2> HIDE DEF differs
  <2>2. Min(differs) \in differs /\ \A j \in differs : Min(differs) <= j
    BY <1>3, <2>1, LeastOf
  <2>3. Max(differs) \in differs /\ \A j \in differs : j <= Max(differs)
    BY <1>1, <1>3, <2>1, GreatestOf
  <2>4. ChangedRange(before, after) = Min(differs)..Max(differs)
    BY <1>3 DEF ChangedRange, differs
  <2>5. Min(differs) \in 1..Len(after) /\ Max(differs) \in 1..Len(after)
    BY <2>1, <2>2, <2>3
  <2>6. ChangedRange(before, after) \subseteq 1..Len(after)
    BY <1>1, <2>4, <2>5
  <2>7. differs \subseteq ChangedRange(before, after)
    BY <1>1, <2>1, <2>2, <2>3, <2>4, <2>5
  <2> QED
    BY <2>6, <2>7 DEF differs
<1> QED
  BY <1>2, <1>3

-----------------------------------------------------------------------------
(* The updater's messages.                                                   *)

\* What an update is made of.
LEMMA UpdateTyped ==
    ASSUME NEW u \in Updaters, u.last \in Pictures, NEW before \in Pictures \union {NoPicture}
    PROVE  /\ ShownSize(u) \in FrameSizes
           /\ UpdateRect(u, before) \subseteq FrameSizes
           /\ FramebufferUpdate(u, before) \in UpdateMessages
<1>1. u.sent \in Nat /\ Len(u.last) \in FrameSizes
  BY PicturesAreSeqs DEF Updaters
<1>2. ShownSize(u) \in FrameSizes
  BY <1>1 DEF ShownSize, FrameSizes
<1>3. UpdateRect(u, before) \subseteq FrameSizes
  <2>1. CASE before # NoPicture /\ ~Resizes(u) /\ Len(before) = Len(u.last)
    <3>1. before \in Pictures
      BY <2>1
    <3>2. ChangedRange(before, u.last) \subseteq 1..Len(u.last)
      BY <3>1, ChangedRangeHoldsChanges
    <3> QED
      BY <1>1, <2>1, <3>2 DEF UpdateRect, FrameSizes
  <2>2. CASE ~(before # NoPicture /\ ~Resizes(u) /\ Len(before) = Len(u.last))
    <3>1. UpdateRect(u, before) = 1..ShownSize(u)
      BY <2>2 DEF UpdateRect
    <3> QED
      BY <1>2, <3>1 DEF FrameSizes
  <2> QED
    BY <2>1, <2>2
<1>4. FramebufferUpdate(u, before) \in UpdateMessages
  <2> DEFINE rect == UpdateRect(u, before)
             pixel(i) == IF i <= Len(u.last) THEN u.last[i] ELSE Black
  <2>1. \A i \in rect : pixel(i) \in Colours
    <3> SUFFICES ASSUME NEW i \in rect PROVE pixel(i) \in Colours
      OBVIOUS
    <3>1. i \in Nat /\ i # 0
      BY <1>3 DEF FrameSizes
    <3>2. i <= Len(u.last) => u.last[i] \in Colours
      BY <1>1, <3>1, PicturesAreSeqs DEF FrameSizes
    <3> QED
      BY <3>2, ColoursAssumption DEF Black
  <2>2. rect \in SUBSET FrameSizes
    BY <1>3
  <2> HIDE DEF rect, pixel
  <2>3. [i \in rect |-> pixel(i)] \in [rect -> Colours]
    BY <2>1
  <2>4. [i \in rect |-> pixel(i)] \in RectPixels
    BY <2>2, <2>3 DEF RectPixels
  <2>5. (IF Resizes(u) THEN Len(u.last) ELSE 0) \in Nat
    BY <1>1 DEF FrameSizes
  <2>6. FramebufferUpdate(u, before) =
          [resize |-> IF Resizes(u) THEN Len(u.last) ELSE 0, pixels |-> [i \in rect |-> pixel(i)]]
    BY DEF FramebufferUpdate, rect, pixel
  <2> QED
    BY <2>4, <2>5, <2>6 DEF UpdateMessages
<1> QED
  BY <1>2, <1>3, <1>4

\* Drawn over a framebuffer that shows the picture before, an update makes the
\* picture it was made of, at the size the updater then thinks the viewer has.
LEMMA UpdateAddsUp ==
    ASSUME NEW u \in Updaters, u.last \in Pictures,
           NEW before \in Pictures \union {NoPicture}, NEW fb \in Seq(Colours),
           u.sent = 0 => before = NoPicture /\ Len(fb) = Len(u.last),
           u.sent # 0 => Len(fb) = u.sent,
           before # NoPicture =>
             \A i \in 1..Len(fb) : i <= Len(before) => fb[i] = before[i]
    PROVE  /\ SizeWith(fb, FramebufferUpdate(u, before)) = ShownSize(u)
           /\ MakesPicture(fb, FramebufferUpdate(u, before), u.last, ShownSize(u))
<1> DEFINE m == FramebufferUpdate(u, before)
<1>1. u.sent \in Nat /\ Len(u.last) \in FrameSizes /\ ShownSize(u) \in FrameSizes /\ Len(fb) \in Nat
  BY PicturesAreSeqs, UpdateTyped, LenProperties DEF Updaters
<1>2. /\ m.resize = (IF Resizes(u) THEN Len(u.last) ELSE 0)
      /\ DOMAIN m.pixels = UpdateRect(u, before)
      /\ \A i \in UpdateRect(u, before) :
           m.pixels[i] = IF i <= Len(u.last) THEN u.last[i] ELSE Black
  BY DEF FramebufferUpdate
<1>3. SizeWith(fb, m) = ShownSize(u)
  BY <1>1, <1>2 DEF SizeWith, ShownSize, Resizes, FrameSizes
<1>4. ASSUME NEW i \in 1..ShownSize(u), i <= Len(u.last), i \notin UpdateRect(u, before)
      PROVE  m.resize = 0 /\ fb[i] = u.last[i]
  <2>1. before # NoPicture /\ ~Resizes(u) /\ Len(before) = Len(u.last)
    BY <1>4 DEF UpdateRect
  <2>2. before \in Pictures
    BY <2>1
  <2>3. i \in 1..Len(u.last) /\ before[i] = u.last[i]
    <3>1. i \notin ChangedRange(before, u.last) /\ i \in 1..Len(u.last)
      BY <1>1, <1>4, <2>1 DEF UpdateRect, FrameSizes
    <3> QED
      BY <2>2, <3>1, ChangedRangeHoldsChanges
  <2>4. m.resize = 0
    BY <1>2, <2>1
  <2>5. i \in 1..Len(fb)
    BY <1>3, <2>4 DEF SizeWith
  <2>6. i <= Len(before)
    BY <1>4, <2>1
  <2> QED
    BY <2>1, <2>3, <2>4, <2>5, <2>6
<1>5. MakesPicture(fb, m, u.last, ShownSize(u))
  <2> SUFFICES ASSUME NEW i \in 1..ShownSize(u), i <= Len(u.last)
               PROVE  IF i \in DOMAIN m.pixels THEN m.pixels[i] = u.last[i]
                      ELSE m.resize = 0 /\ fb[i] = u.last[i]
    BY DEF MakesPicture
  <2> HIDE DEF m
  <2> QED
    BY <1>2, <1>4
<1> QED
  BY <1>3, <1>5

\* It lies within that size, unless the picture is wider than it.
LEMMA UpdateFits ==
    ASSUME NEW u \in Updaters, u.last \in Pictures, NEW before \in Pictures \union {NoPicture},
           ~(Len(u.last) > ShownSize(u))
    PROVE  RoomFor(FramebufferUpdate(u, before), ShownSize(u))
<1>1. Len(u.last) \in Nat /\ ShownSize(u) \in Nat
  BY PicturesAreSeqs, UpdateTyped DEF FrameSizes
<1>2. UpdateRect(u, before) \subseteq 1..ShownSize(u)
  <2>1. CASE before # NoPicture /\ ~Resizes(u) /\ Len(before) = Len(u.last)
    <3>1. before \in Pictures
      BY <2>1
    <3>2. ChangedRange(before, u.last) \subseteq 1..Len(u.last)
      BY <2>1, <3>1, ChangedRangeHoldsChanges
    <3>3. 1..Len(u.last) \subseteq 1..ShownSize(u)
      BY <1>1
    <3> QED
      BY <2>1, <3>2, <3>3 DEF UpdateRect
  <2>2. CASE ~(before # NoPicture /\ ~Resizes(u) /\ Len(before) = Len(u.last))
    BY <2>2 DEF UpdateRect
  <2> QED
    BY <2>1, <2>2
<1>3. DOMAIN FramebufferUpdate(u, before).pixels = UpdateRect(u, before)
  BY DEF FramebufferUpdate
<1> QED
  BY <1>2, <1>3 DEF RoomFor

-----------------------------------------------------------------------------
(* Steps that change nothing of what the viewer is sent.                     *)

ViewerIsAs ==
    /\ vncViewer'.fb = vncViewer.fb /\ vncViewer'.asked = vncViewer.asked
    /\ vncViewer'.broken = vncViewer.broken

\* One more message of the viewer.
LEMMA ViewerCounts ==
    ASSUME NEW r \in Viewers
    PROVE  /\ [r EXCEPT !.sent = @ + 1] \in Viewers
           /\ [r EXCEPT !.sent = @ + 1].fb = r.fb
           /\ [r EXCEPT !.sent = @ + 1].asked = r.asked
           /\ [r EXCEPT !.sent = @ + 1].broken = r.broken
<1>1. r.sent + 1 \in Nat
  BY DEF Viewers
<1>2. ASSUME NEW n \in Nat
      PROVE  /\ [r EXCEPT !.sent = n] \in Viewers
             /\ [r EXCEPT !.sent = n].fb = r.fb
             /\ [r EXCEPT !.sent = n].asked = r.asked
             /\ [r EXCEPT !.sent = n].broken = r.broken
  BY DEF Viewers
<1> QED
  BY <1>1, <1>2

LEMMA QuietKeeps ==
    ASSUME VncIInv, VncTypes', ViewerIsAs, UNCHANGED <<updates, wants, toViewer>>,
           vnc'.phase \in {"none", "handshake"} => vnc.phase \in {"none", "handshake"},
           vnc'.phase = "on" => vnc.phase = "on",
           vreader'.on => vnc'.phase = "on"
    PROVE  VncIInv'
<1>1. OneUpdate'
  BY DEF VncIInv, ViewerIsAs, OneUpdate, AsksUpdate
<1>2. UpdaterStands'
  BY DEF VncIInv, ViewerIsAs, UpdaterStands
<1>3. ShowsSent'
  BY DEF VncIInv, ViewerIsAs, ShowsSent
<1>4. WillShowSent'
  BY DEF VncIInv, ViewerIsAs, WillShowSent, SizeWith, MakesPicture
<1>5. FitsUnlessOutgrown'
  BY DEF VncIInv, ViewerIsAs, FitsUnlessOutgrown
<1> QED
  BY <1>1, <1>2, <1>3, <1>4, <1>5 DEF VncIInv

\* The end of a connection.
LEMMA ViewerEndsKeeps == VncIInv /\ ViewerEnds => VncIInv'
<1> SUFFICES ASSUME VncIInv, ViewerEnds PROVE VncIInv'
  OBVIOUS
<1>1. vnc'.phase = "over" /\ vreader'.on = FALSE /\ VncTypes'
  BY DEF VncIInv, VncTypes, ViewerEnds
<1>2. ViewerIsAs /\ UNCHANGED <<updates, wants, toViewer>>
  BY DEF ViewerEnds, ViewerIsAs
<1> QED
  BY <1>1, <1>2, QuietKeeps

\* The window, the acceptor, and the flag.
LEMMA AroundKeeps ==
    ASSUME VncIInv,
           \/ WindowDraws \/ WindowCloses \/ VncStops \/ Accepts \/ AcceptorEnds \/ VncViewerLeaves
    PROVE  VncIInv'
<1> USE DEF VncIInv, VncTypes
<1>1. CASE WindowDraws
  <2>1. PICK p \in Pictures : vwindow' = [vwindow EXCEPT !.picture = p, !.made = @ + 1]
    BY <1>1 DEF WindowDraws
  <2>2. vwindow' \in [picture : Pictures, made : Nat, gone : BOOLEAN]
    <3>1. vwindow' = [[vwindow EXCEPT !.picture = p] EXCEPT !.made = vwindow.made + 1]
      BY <2>1
    <3>2. [vwindow EXCEPT !.picture = p] \in [picture : Pictures, made : Nat, gone : BOOLEAN]
      OBVIOUS
    <3>3. vwindow.made + 1 \in Nat
      OBVIOUS
    <3> QED
      BY <3>1, <3>2, <3>3
  <2>3. ViewerIsAs /\ UNCHANGED <<vnc, vreader, updates, wants, toViewer, vncViewer>>
    BY <1>1 DEF WindowDraws, ViewerIsAs
  <2> QED
    BY <2>2, <2>3, QuietKeeps DEF UpdaterStands
<1>2. CASE WindowCloses
  <2>1. ViewerIsAs /\ VncTypes' /\ UNCHANGED <<vnc, vreader, updates, wants, toViewer>>
    BY <1>2 DEF WindowCloses, ViewerIsAs
  <2> QED
    BY <2>1, QuietKeeps DEF UpdaterStands
<1>3. CASE VncStops
  <2>1. ViewerIsAs /\ VncTypes' /\ vnc'.phase = vnc.phase /\ UNCHANGED <<vreader, updates, wants, toViewer>>
    BY <1>3 DEF VncStops, ViewerIsAs
  <2> QED
    BY <2>1, QuietKeeps DEF UpdaterStands
<1>4. CASE Accepts
  <2>1. /\ ViewerIsAs /\ VncTypes' /\ vnc'.phase = "handshake" /\ vnc.phase = "none"
        /\ UNCHANGED <<vreader, updates, wants, toViewer>>
    BY <1>4 DEF Accepts, ViewerIsAs
  <2> QED
    BY <2>1, QuietKeeps DEF UpdaterStands
<1>5. CASE AcceptorEnds
  <2>1. ViewerIsAs /\ VncTypes' /\ vnc'.phase = vnc.phase /\ UNCHANGED <<vreader, updates, wants, toViewer>>
    BY <1>5 DEF AcceptorEnds, ViewerIsAs
  <2> QED
    BY <2>1, QuietKeeps DEF UpdaterStands
<1>6. CASE VncViewerLeaves
  <2>1. /\ ViewerIsAs /\ VncTypes' /\ vreader'.on = FALSE
        /\ UNCHANGED <<vnc, updates, wants, toViewer>>
    BY <1>6 DEF VncViewerLeaves, ViewerIsAs
  <2> QED
    BY <2>1, QuietKeeps DEF UpdaterStands
<1> QED
  BY <1>1, <1>2, <1>3, <1>4, <1>5, <1>6

\* The viewer's keys and buttons.
LEMMA InputKeeps ==
    ASSUME VncIInv,
           \/ \E k \in {"control", "c"}, b \in BOOLEAN : KeyEvent(k, b)
           \/ \E mask \in SUBSET {"left"} : PointerEvent(mask)
    PROVE  VncIInv'
<1> USE DEF VncIInv, VncTypes
<1>1. ASSUME NEW k \in {"control", "c"}, NEW b \in BOOLEAN, KeyEvent(k, b) PROVE VncIInv'
  <2> DEFINE counted == [vncViewer EXCEPT !.sent = @ + 1]
             holds == IF b THEN vncViewer.holds \union {k} ELSE vncViewer.holds \ {k}
  <2>1. vncViewer' = [counted EXCEPT !.holds = holds]
    BY <1>1 DEF KeyEvent
  <2>2. /\ counted \in Viewers
        /\ counted.fb = vncViewer.fb /\ counted.asked = vncViewer.asked
        /\ counted.broken = vncViewer.broken
    BY ViewerCounts
  <2>3. holds \in SUBSET {"control", "c"}
    BY DEF Viewers
  <2> HIDE DEF counted, holds
  <2>4. /\ ViewerIsAs
        /\ vncViewer' \in Viewers
    BY <2>1, <2>2, <2>3 DEF ViewerIsAs, Viewers
  <2>5. /\ vreader'.on = vreader.on
        /\ vreader' \in [on : BOOLEAN, size : Nat, buttons : SUBSET {"left"}, shortcut : BOOLEAN]
    BY <1>1 DEF KeyEvent
  <2>6. UNCHANGED <<vnc, vwindow, wants, updates, toViewer>>
    BY <1>1 DEF KeyEvent
  <2> QED
    BY <2>4, <2>5, <2>6, QuietKeeps DEF UpdaterStands
<1>2. ASSUME NEW mask \in SUBSET {"left"}, PointerEvent(mask) PROVE VncIInv'
  <2>1. /\ ViewerIsAs
        /\ vncViewer' \in Viewers
    BY <1>2, ViewerCounts DEF PointerEvent, ViewerIsAs
  <2>2. /\ vreader'.on = vreader.on
        /\ vreader' \in [on : BOOLEAN, size : Nat, buttons : SUBSET {"left"}, shortcut : BOOLEAN]
    BY <1>2 DEF PointerEvent
  <2>3. UNCHANGED <<vnc, vwindow, wants, updates, toViewer>>
    BY <1>2 DEF PointerEvent
  <2> QED
    BY <2>1, <2>2, <2>3, QuietKeeps DEF UpdaterStands
<1> QED
  BY <1>1, <1>2

-----------------------------------------------------------------------------
(* The connection, the reader and the updater.                               *)

LEMMA ServeViewerKeeps == VncIInv /\ ServeViewer => VncIInv'
<1> SUFFICES ASSUME VncIInv, ServeViewer PROVE VncIInv'
  OBVIOUS
<1> USE DEF VncIInv, VncTypes
<1> DEFINE first == vwindow.picture
           black == [i \in 1..Len(first) |-> Black]
<1>1. first \in Pictures /\ Len(first) \in FrameSizes /\ Len(first) \in Nat
  BY PicturesAreSeqs DEF FrameSizes
<1>2. black \in Seq(Colours) /\ Len(black) = Len(first)
  <2>1. black \in [1..Len(first) -> Colours]
    BY ColoursAssumption DEF Black
  <2> HIDE DEF black, first
  <2>2. black \in Seq(Colours)
    BY <1>1, <2>1, SeqDef
  <2> QED
    BY <1>1, <2>1, <2>2, LenProperties
<1>3. updates.sent = 0 /\ wants = <<>> /\ toViewer = <<>> /\ updates.previous = NoPicture
  BY DEF ServeViewer, UpdaterStands
<1>4. /\ vnc' = [vnc EXCEPT !.phase = "on"] /\ updates' = [updates EXCEPT !.last = first]
      /\ vncViewer' = [vncViewer EXCEPT !.fb = black]
      /\ UNCHANGED <<vwindow, wants, keysHeld, toViewer>>
  BY DEF ServeViewer
<1>5. /\ vreader'.on = TRUE
      /\ vreader' \in [on : BOOLEAN, size : Nat, buttons : SUBSET {"left"}, shortcut : BOOLEAN]
  <2> DEFINE begun == [vreader EXCEPT !.on = TRUE]
  <2>1. /\ begun \in [on : BOOLEAN, size : Nat, buttons : SUBSET {"left"}, shortcut : BOOLEAN]
        /\ begun.on = TRUE
    OBVIOUS
  <2>2. vreader' = [begun EXCEPT !.size = Len(first)]
    BY DEF ServeViewer
  <2> HIDE DEF begun, first
  <2> QED
    BY <1>1, <2>1, <2>2
<1> HIDE DEF black, first
<1>6. /\ vnc' \in [stop : BOOLEAN, accepts : BOOLEAN, phase : {"none", "handshake", "on", "over"}]
      /\ vnc'.phase = "on"
  BY <1>4
<1>7. /\ updates' \in Updaters /\ updates'.last = first /\ updates'.sent = 0
      /\ updates'.previous = NoPicture /\ updates'.outgrown = updates.outgrown
  BY <1>1, <1>3, <1>4 DEF Updaters
<1>8. /\ vncViewer' \in Viewers
      /\ vncViewer'.fb = black /\ vncViewer'.asked = vncViewer.asked
      /\ vncViewer'.broken = vncViewer.broken
  BY <1>2, <1>4 DEF Viewers
<1>9. VncTypes'
  BY <1>4, <1>5, <1>6, <1>7, <1>8
<1>10. OneUpdate'
  BY <1>4, <1>8 DEF OneUpdate, AsksUpdate
<1>11. UpdaterStands'
  BY <1>1, <1>2, <1>3, <1>4, <1>6, <1>7, <1>8 DEF UpdaterStands
<1>12. ShowsSent' /\ WillShowSent'
  BY <1>7 DEF ShowsSent, WillShowSent
<1>13. FitsUnlessOutgrown'
  BY <1>3, <1>4, <1>7, <1>8 DEF FitsUnlessOutgrown
<1> QED
  BY <1>9, <1>10, <1>11, <1>12, <1>13

\* The reader hands a message on that is no update request.
LEMMA WishKeeps ==
    ASSUME VncIInv, NEW message \in ViewerMessages, message.t # "update", ReadsMessage(message),
           vncViewer' = [vncViewer EXCEPT !.sent = @ + 1]
    PROVE  VncIInv'
<1> USE DEF VncIInv
<1>1. /\ wants \in Seq(ViewerMessages) /\ wants' = Append(wants, message) /\ Len(wants) \in Nat
      /\ DOMAIN wants = 1..Len(wants) /\ vreader.on /\ vnc.phase = "on"
  BY LenProperties DEF VncTypes, ReadsMessage, UpdaterStands
<1>2. /\ wants' \in Seq(ViewerMessages) /\ DOMAIN wants' = 1..(Len(wants) + 1)
      /\ \A i \in 1..Len(wants) : wants'[i] = wants[i]
      /\ wants'[Len(wants) + 1] = message
  BY <1>1
<1>3. UNCHANGED <<vnc, vwindow, updates, vreader, toViewer>>
  BY DEF ReadsMessage
<1>4. /\ ViewerIsAs
      /\ vncViewer' \in Viewers
  BY ViewerCounts DEF VncTypes, ViewerIsAs
<1>5. VncTypes'
  BY <1>2, <1>3, <1>4 DEF VncTypes
<1>6. OneUpdate'
  <2>1. \A i \in DOMAIN wants' : AsksUpdate(i)' => i \in DOMAIN wants /\ AsksUpdate(i)
    BY <1>1, <1>2 DEF AsksUpdate
  <2> QED
    BY <1>3, <1>4, <2>1 DEF OneUpdate, ViewerIsAs
<1>7. UpdaterStands'
  BY <1>1, <1>3, <1>4 DEF UpdaterStands, ViewerIsAs
<1>8. ShowsSent' /\ WillShowSent'
  BY <1>3, <1>4 DEF ShowsSent, WillShowSent, ViewerIsAs, SizeWith, MakesPicture
<1>9. FitsUnlessOutgrown'
  BY <1>3, <1>4 DEF FitsUnlessOutgrown, ViewerIsAs
<1> QED
  BY <1>5, <1>6, <1>7, <1>8, <1>9

LEMMA UpdateRequestKeeps ==
    ASSUME VncIInv, NEW b \in BOOLEAN, UpdateRequest(b)
    PROVE  VncIInv'
<1> USE DEF VncIInv
<1> DEFINE message == [t |-> "update", incremental |-> b]
<1>1. /\ wants \in Seq(ViewerMessages) /\ wants' = Append(wants, message) /\ Len(wants) \in Nat
      /\ DOMAIN wants = 1..Len(wants) /\ vreader.on /\ vnc.phase = "on" /\ message \in ViewerMessages
  BY LenProperties DEF VncTypes, UpdateRequest, ReadsMessage, UpdaterStands, ViewerMessages
<1> HIDE DEF message
<1>2. /\ wants' \in Seq(ViewerMessages) /\ DOMAIN wants' = 1..(Len(wants) + 1)
      /\ \A i \in 1..Len(wants) : wants'[i] = wants[i]
  BY <1>1
<1>3. UNCHANGED <<vnc, vwindow, updates, vreader, toViewer>>
  BY DEF UpdateRequest, ReadsMessage
<1>4. /\ vncViewer'.fb = vncViewer.fb /\ vncViewer'.broken = vncViewer.broken /\ vncViewer'.asked = TRUE
      /\ vncViewer' \in Viewers
  BY DEF VncTypes, UpdateRequest, Viewers
<1>5. VncTypes'
  BY <1>2, <1>3, <1>4 DEF VncTypes
<1>6. toViewer = <<>> /\ \A i \in DOMAIN wants : ~AsksUpdate(i)
  BY DEF UpdateRequest, OneUpdate
<1>7. OneUpdate'
  <2>1. \A i \in DOMAIN wants' : AsksUpdate(i)' => i = Len(wants) + 1
    BY <1>1, <1>2, <1>6 DEF AsksUpdate
  <2> QED
    BY <1>3, <1>4, <1>6, <2>1 DEF OneUpdate
<1>8. UpdaterStands'
  BY <1>1, <1>3, <1>4 DEF UpdaterStands
<1>9. ShowsSent' /\ WillShowSent'
  BY <1>3, <1>4 DEF ShowsSent, WillShowSent, SizeWith, MakesPicture
<1>10. FitsUnlessOutgrown'
  BY <1>3, <1>4 DEF FitsUnlessOutgrown
<1> QED
  BY <1>5, <1>7, <1>8, <1>9, <1>10

\* The updater takes what the viewer asked for first: what is left.
LEMMA RestOfWants ==
    ASSUME VncIInv, wants # <<>>, wants' = Tail(wants)
    PROVE  /\ wants' \in Seq(ViewerMessages)
           /\ \A i, j \in DOMAIN wants' : AsksUpdate(i)' /\ AsksUpdate(j)' => i = j
           /\ (\A i \in DOMAIN wants : ~AsksUpdate(i)) => \A i \in DOMAIN wants' : ~AsksUpdate(i)'
           /\ Head(wants) \in ViewerMessages
           /\ Head(wants).t = "update" =>
                /\ vncViewer.asked /\ toViewer = <<>>
                /\ \A i \in DOMAIN wants' : ~AsksUpdate(i)'
<1>1. wants \in Seq(ViewerMessages) /\ OneUpdate
  BY DEF VncIInv, VncTypes
<1>2. /\ Tail(wants) \in Seq(ViewerMessages) /\ Len(Tail(wants)) = Len(wants) - 1
      /\ Len(wants) \in Nat /\ Len(wants) # 0
      /\ \A i \in 1..Len(Tail(wants)) : Tail(wants)[i] = wants[i + 1]
      /\ Head(wants) = wants[1] /\ Head(wants) \in ViewerMessages
  BY <1>1
<1>3. DOMAIN wants = 1..Len(wants) /\ DOMAIN wants' = 1..(Len(wants) - 1)
  BY <1>1, <1>2, LenProperties
<1>4. \A i \in DOMAIN wants' : /\ i + 1 \in DOMAIN wants /\ i + 1 # 1 /\ i \in Int
                               /\ AsksUpdate(i)' <=> AsksUpdate(i + 1)
  BY <1>2, <1>3 DEF AsksUpdate
<1>5. \A i, j \in DOMAIN wants' : AsksUpdate(i)' /\ AsksUpdate(j)' => i = j
  <2> SUFFICES ASSUME NEW i \in DOMAIN wants', NEW j \in DOMAIN wants', AsksUpdate(i)', AsksUpdate(j)'
               PROVE  i = j
    OBVIOUS
  <2>1. i + 1 = j + 1
    BY <1>1, <1>4 DEF OneUpdate
  <2> QED
    BY <1>4, <2>1
<1>6. ASSUME Head(wants).t = "update"
      PROVE  /\ vncViewer.asked /\ toViewer = <<>>
             /\ \A i \in DOMAIN wants' : ~AsksUpdate(i)'
  <2>1. 1 \in DOMAIN wants /\ AsksUpdate(1)
    BY <1>2, <1>3, <1>6 DEF AsksUpdate
  <2>2. \A i \in DOMAIN wants : AsksUpdate(i) => i = 1
    BY <1>1, <2>1 DEF OneUpdate
  <2>3. \A i \in DOMAIN wants' : ~AsksUpdate(i)'
    BY <1>4, <2>2
  <2>4. vncViewer.asked /\ toViewer = <<>>
    BY <1>1, <2>1 DEF OneUpdate
  <2> QED
    BY <2>3, <2>4
<1> QED
  BY <1>2, <1>4, <1>5, <1>6

LEMMA SetWantedKeeps == VncIInv /\ SetWanted => VncIInv'
<1> SUFFICES ASSUME VncIInv, SetWanted PROVE VncIInv'
  OBVIOUS
<1> USE DEF VncIInv
<1>1. /\ wants # <<>> /\ wants' = Tail(wants) /\ vnc.phase = "on"
      /\ UNCHANGED <<vnc, vwindow, vreader, keysHeld, toViewer, vncViewer>>
  BY DEF SetWanted
<1>2. Head(wants) \in ViewerMessages
  BY <1>1, RestOfWants
<1>3. /\ updates' \in Updaters /\ updates'.last = updates.last /\ updates'.sent = updates.sent
      /\ updates'.previous \in {updates.previous, NoPicture} /\ updates'.outgrown = updates.outgrown
  <2>1. CASE updates' = [updates EXCEPT !.previous = NoPicture]
    BY <2>1 DEF VncTypes, Updaters
  <2>2. CASE Head(wants).t = "resize" /\ updates' = [updates EXCEPT !.resize = Head(wants).on]
    <3>1. Head(wants).on \in BOOLEAN
      BY <1>2, <2>2 DEF ViewerMessages
    <3> QED
      BY <2>2, <3>1 DEF VncTypes, Updaters
  <2> QED
    BY <2>1, <2>2 DEF SetWanted
<1>4. VncTypes'
  BY <1>1, <1>3, RestOfWants DEF VncTypes
<1>5. OneUpdate'
  <2>1. /\ \A i, j \in DOMAIN wants' : AsksUpdate(i)' /\ AsksUpdate(j)' => i = j
        /\ (\A i \in DOMAIN wants : ~AsksUpdate(i)) => \A i \in DOMAIN wants' : ~AsksUpdate(i)'
    BY <1>1, RestOfWants
  <2> QED
    BY <1>1, <2>1 DEF OneUpdate
<1>6. UpdaterStands'
  BY <1>1, <1>3 DEF UpdaterStands
<1>7. ShowsSent' /\ WillShowSent'
  BY <1>1, <1>3 DEF ShowsSent, WillShowSent, SizeWith, MakesPicture
<1>8. FitsUnlessOutgrown'
  BY <1>1, <1>3 DEF FitsUnlessOutgrown
<1> QED
  BY <1>4, <1>5, <1>6, <1>7, <1>8

\* An update of u is written, with what changed since `before`.
LEMMA SendsUpdateKeeps ==
    ASSUME VncIInv, vnc.phase = "on", wants # <<>>, Head(wants).t = "update",
           NEW u \in Updaters, u.last \in Pictures, u.sent = updates.sent,
           u.outgrown = updates.outgrown,
           NEW before \in Pictures \union {NoPicture},
           before # NoPicture => before = updates.last /\ updates.sent # 0,
           updates.sent = 0 => u.last = updates.last,
           SendsUpdate(u, before), wants' = Tail(wants),
           UNCHANGED <<vnc, vwindow, vreader, keysHeld, vncViewer>>
    PROVE  VncIInv'
<1> USE DEF VncIInv
<1> DEFINE m == FramebufferUpdate(u, before)
           fb == vncViewer.fb
<1>1. toViewer = <<>> /\ vncViewer.asked /\ wants' \in Seq(ViewerMessages)
      /\ \A i \in DOMAIN wants' : ~AsksUpdate(i)'
  BY RestOfWants
<1>2. m \in UpdateMessages /\ ShownSize(u) \in FrameSizes /\ ShownSize(u) \in Nat /\ ShownSize(u) # 0
  BY UpdateTyped DEF FrameSizes
<1>3. toViewer' = <<m>> /\ Head(toViewer') = m /\ toViewer' # <<>> /\ Len(toViewer') = 1
  BY <1>1 DEF SendsUpdate
<1>4. toViewer' \in Seq(UpdateMessages)
  BY <1>2, <1>3
<1>5. /\ updates' \in Updaters /\ updates'.last = u.last /\ updates'.sent = ShownSize(u)
      /\ updates'.previous = u.last
      /\ updates'.outgrown = (updates.outgrown \/ Len(u.last) > ShownSize(u))
  <2> DEFINE sized == [u EXCEPT !.sent = ShownSize(u)]
             compared == [sized EXCEPT !.previous = u.last]
             wider == updates.outgrown \/ Len(u.last) > ShownSize(u)
  <2>1. updates' = [compared EXCEPT !.outgrown = wider]
    BY DEF SendsUpdate
  <2>2. sized \in Updaters /\ sized.last = u.last /\ sized.sent = ShownSize(u)
    BY <1>2 DEF Updaters
  <2>3. /\ compared \in Updaters /\ compared.last = u.last /\ compared.sent = ShownSize(u)
        /\ compared.previous = u.last
    <3> HIDE DEF sized
    <3> QED
      BY <2>2 DEF Updaters
  <2>4. wider \in BOOLEAN
    BY DEF VncTypes, Updaters
  <2> HIDE DEF compared, wider
  <2>5. /\ [compared EXCEPT !.outgrown = wider] \in Updaters
        /\ [compared EXCEPT !.outgrown = wider].last = u.last
        /\ [compared EXCEPT !.outgrown = wider].sent = ShownSize(u)
        /\ [compared EXCEPT !.outgrown = wider].previous = u.last
        /\ [compared EXCEPT !.outgrown = wider].outgrown = wider
    BY <2>3, <2>4 DEF Updaters
  <2> QED
    BY <2>1, <2>5 DEF wider
<1>6. ASSUME ~vncViewer.broken
      PROVE  SizeWith(fb, m) = ShownSize(u) /\ MakesPicture(fb, m, u.last, ShownSize(u))
  <2>1. fb \in Seq(Colours) /\ Len(fb) \in Nat
    BY LenProperties DEF VncTypes, Viewers
  <2>2. u.sent = 0 => before = NoPicture /\ Len(fb) = Len(u.last)
    BY DEF UpdaterStands
  <2>3. u.sent # 0 => Len(fb) = u.sent
    BY <1>1, <1>6 DEF ShowsSent
  <2>4. before # NoPicture => \A i \in 1..Len(fb) : i <= Len(before) => fb[i] = before[i]
    BY <1>1, <1>6 DEF ShowsSent
  <2> HIDE DEF fb, m
  <2> QED
    BY <2>1, <2>2, <2>3, <2>4, UpdateAddsUp DEF m
<1> HIDE DEF m
<1>7. VncTypes'
  BY <1>1, <1>4, <1>5 DEF VncTypes
<1>8. OneUpdate'
  BY <1>1, <1>3 DEF OneUpdate
<1>9. UpdaterStands'
  BY <1>2, <1>5 DEF UpdaterStands
<1>10. ShowsSent'
  BY <1>3 DEF ShowsSent
<1>11. WillShowSent'
  BY <1>3, <1>5, <1>6 DEF WillShowSent
<1>12. FitsUnlessOutgrown'
  <2> SUFFICES ASSUME ~updates'.outgrown
               PROVE  ~vncViewer'.broken /\ RoomFor(Head(toViewer'), updates'.sent)
    BY DEF FitsUnlessOutgrown
  <2>1. ~updates.outgrown /\ ~(Len(u.last) > ShownSize(u))
    BY <1>5
  <2>2. RoomFor(m, ShownSize(u))
    BY <2>1, UpdateFits DEF m
  <2> QED
    BY <1>3, <1>5, <2>1, <2>2 DEF FitsUnlessOutgrown
<1> QED
  BY <1>7, <1>8, <1>9, <1>10, <1>11, <1>12

LEMMA AnswerViewerKeeps == VncIInv /\ AnswerViewer => VncIInv'
<1> SUFFICES ASSUME VncIInv, AnswerViewer PROVE VncIInv'
  OBVIOUS
<1>1. /\ vnc.phase = "on" /\ wants # <<>> /\ Head(wants).t = "update" /\ wants' = Tail(wants)
      /\ UNCHANGED <<vnc, vwindow, vreader, keysHeld, vncViewer>>
  BY DEF AnswerViewer
<1>2. /\ updates \in Updaters /\ updates.last \in Pictures
      /\ updates.previous \in Pictures \union {NoPicture} /\ vwindow.picture \in Pictures
  BY <1>1 DEF VncIInv, VncTypes, UpdaterStands, Updaters
<1>3. CASE /\ updates.previous # NoPicture
           /\ SendsUpdate([updates EXCEPT !.last = vwindow.picture], updates.previous)
  <2> DEFINE u == [updates EXCEPT !.last = vwindow.picture]
  <2>1. /\ u \in Updaters /\ u.last = vwindow.picture /\ u.sent = updates.sent
        /\ u.outgrown = updates.outgrown
    BY <1>2 DEF Updaters
  <2>2. updates.previous = updates.last /\ updates.sent # 0
    BY <1>3 DEF VncIInv, UpdaterStands
  <2> HIDE DEF u
  <2>3. SendsUpdate(u, updates.previous)
    BY <1>3 DEF u
  <2> QED
    BY <1>1, <1>2, <2>1, <2>2, <2>3, SendsUpdateKeeps
<1>4. CASE SendsUpdate(updates, NoPicture)
  BY <1>1, <1>2, <1>4, SendsUpdateKeeps
<1> QED
  BY <1>3, <1>4 DEF AnswerViewer

LEMMA ViewerDrawsKeeps == VncIInv /\ ViewerDraws => VncIInv'
<1> SUFFICES ASSUME VncIInv, ViewerDraws PROVE VncIInv'
  OBVIOUS
<1> USE DEF VncIInv
<1> DEFINE m == Head(toViewer)
           size == SizeWith(vncViewer.fb, m)
           pixel(i) == IF i \in DOMAIN m.pixels THEN m.pixels[i]
                       ELSE IF m.resize = 0 THEN vncViewer.fb[i] ELSE Black
           drawn == [i \in 1..size |-> pixel(i)]
<1>1. /\ toViewer # <<>> /\ ~vncViewer.broken /\ toViewer \in Seq(UpdateMessages)
      /\ toViewer' = Tail(toViewer) /\ UNCHANGED <<vnc, vwindow, wants, updates, vreader, keysHeld>>
  BY DEF ViewerDraws, VncTypes
<1>2. m \in UpdateMessages /\ m.resize \in Nat /\ m.pixels \in RectPixels
  <2>1. m \in UpdateMessages
    BY <1>1, HeadTailProperties
  <2> HIDE DEF m
  <2> QED
    BY <2>1 DEF UpdateMessages
<1>3. toViewer' = <<>> /\ toViewer' \in Seq(UpdateMessages)
  BY <1>1 DEF OneUpdate
<1>4. /\ vncViewer.fb \in Seq(Colours) /\ Len(vncViewer.fb) \in Nat /\ size \in Nat
      /\ \A i \in 1..Len(vncViewer.fb) : vncViewer.fb[i] \in Colours
  BY <1>2, LenProperties DEF VncTypes, Viewers, SizeWith
<1>5. drawn \in Seq(Colours) /\ Len(drawn) = size /\ \A i \in 1..size : drawn[i] = pixel(i)
  <2>1. ASSUME NEW i \in 1..size PROVE pixel(i) \in Colours
    <3>1. CASE i \in DOMAIN m.pixels
      BY <1>2, <3>1 DEF RectPixels
    <3>2. CASE i \notin DOMAIN m.pixels /\ m.resize = 0
      <4>1. i \in 1..Len(vncViewer.fb)
        BY <3>2 DEF SizeWith
      <4> QED
        BY <1>4, <3>2, <4>1
    <3>3. CASE i \notin DOMAIN m.pixels /\ m.resize # 0
      BY <3>3, ColoursAssumption DEF Black
    <3> QED
      BY <3>1, <3>2, <3>3
  <2> HIDE DEF pixel, size, m
  <2>2. drawn \in [1..size -> Colours]
    BY <2>1
  <2>3. drawn \in Seq(Colours)
    BY <1>4, <2>2, SeqDef
  <2> QED
    BY <1>4, <2>2, <2>3, LenProperties
<1>6. \/ vncViewer' = [[vncViewer EXCEPT !.asked = FALSE] EXCEPT !.fb = drawn]
      \/ vncViewer' = [vncViewer EXCEPT !.broken = TRUE] /\ ~RoomFor(m, size)
  BY DEF ViewerDraws, SizeWith, RoomFor
<1> HIDE DEF drawn, pixel, size, m
<1>7. \/ /\ vncViewer'.fb = drawn /\ vncViewer'.asked = FALSE
         /\ vncViewer'.broken = FALSE /\ vncViewer' \in Viewers
      \/ /\ vncViewer'.fb = vncViewer.fb /\ vncViewer'.asked = vncViewer.asked
         /\ vncViewer'.broken = TRUE /\ vncViewer' \in Viewers /\ ~RoomFor(m, size)
  <2>1. vncViewer \in Viewers
    BY DEF VncTypes
  <2>2. CASE vncViewer' = [[vncViewer EXCEPT !.asked = FALSE] EXCEPT !.fb = drawn]
    <3>1. /\ [vncViewer EXCEPT !.asked = FALSE] \in Viewers
          /\ [vncViewer EXCEPT !.asked = FALSE].asked = FALSE
          /\ [vncViewer EXCEPT !.asked = FALSE].broken = FALSE
      BY <1>1, <2>1 DEF Viewers
    <3> QED
      BY <1>5, <2>2, <3>1 DEF Viewers
  <2>3. CASE vncViewer' = [vncViewer EXCEPT !.broken = TRUE] /\ ~RoomFor(m, size)
    BY <2>1, <2>3 DEF Viewers
  <2> QED
    BY <1>6, <2>2, <2>3
<1>8. VncTypes'
  BY <1>1, <1>3, <1>7 DEF VncTypes
<1>9. OneUpdate'
  <2>1. \A i \in DOMAIN wants : ~AsksUpdate(i)
    BY <1>1 DEF OneUpdate
  <2>2. \A i \in DOMAIN wants' : ~AsksUpdate(i)'
    BY <1>1, <2>1 DEF AsksUpdate
  <2>3. Len(toViewer') <= 1
    BY <1>3
  <2> QED
    BY <1>3, <2>2, <2>3 DEF OneUpdate
<1>10. updates.sent # 0
  BY <1>1 DEF UpdaterStands
<1>11. UpdaterStands'
  BY <1>1, <1>10 DEF UpdaterStands
<1>12. ShowsSent'
  <2>1. CASE vncViewer'.broken
    BY <2>1 DEF ShowsSent
  <2>2. CASE vncViewer'.fb = drawn
    <3>1. size = updates.sent /\ MakesPicture(vncViewer.fb, m, updates.last, size)
      BY <1>1, <1>10 DEF WillShowSent, m, size
    <3>2. \A i \in 1..size : i <= Len(updates.last) => drawn[i] = updates.last[i]
      BY <1>5, <3>1 DEF MakesPicture, pixel
    <3> QED
      BY <1>1, <1>5, <2>2, <3>1, <3>2 DEF ShowsSent
  <2> QED
    BY <1>7, <2>1, <2>2
<1>13. WillShowSent'
  BY <1>3 DEF WillShowSent
<1>14. FitsUnlessOutgrown'
  <2>1. ~updates.outgrown => RoomFor(m, size)
    BY <1>1, <1>10 DEF FitsUnlessOutgrown, WillShowSent, m, size
  <2> QED
    BY <1>1, <1>3, <1>7, <2>1 DEF FitsUnlessOutgrown
<1> QED
  BY <1>8, <1>9, <1>11, <1>12, <1>13, <1>14

-----------------------------------------------------------------------------
LEMMA VncInitial == VncInit => VncIInv
<1> SUFFICES ASSUME VncInit PROVE VncIInv
  OBVIOUS
<1> DEFINE black == [i \in 1..Min(Widths) |-> Black]
<1>1. Min(Widths) \in Widths
  BY LeastOf, WidthsAssumption
<1>2. black \in Pictures
  <2>1. black \in [1..Min(Widths) -> Colours]
    BY ColoursAssumption DEF Black
  <2> QED
    BY <1>1, <2>1 DEF Pictures
<1>3. vwindow \in [picture : Pictures, made : Nat, gone : BOOLEAN]
  <2>1. vwindow = [picture |-> black, made |-> 0, gone |-> FALSE]
    BY DEF VncInit
  <2> HIDE DEF black
  <2> QED
    BY <1>2, <2>1
<1> HIDE DEF black
<1>4. VncTypes
  <2>1. vncViewer \in Viewers
    <3>1. <<>> \in Seq(Colours)
      OBVIOUS
    <3> QED
      BY <3>1 DEF VncInit, Viewers, NoPicture
  <2>2. updates \in Updaters
    BY DEF VncInit, Updaters, NoPicture
  <2>3. wants \in Seq(ViewerMessages) /\ toViewer \in Seq(UpdateMessages)
    BY DEF VncInit
  <2>4. vnc \in [stop : BOOLEAN, accepts : BOOLEAN, phase : {"none", "handshake", "on", "over"}]
    BY DEF VncInit
  <2>5. vreader \in [on : BOOLEAN, size : Nat, buttons : SUBSET {"left"}, shortcut : BOOLEAN]
    BY DEF VncInit
  <2> QED
    BY <1>3, <2>1, <2>2, <2>3, <2>4, <2>5 DEF VncTypes
<1>5. OneUpdate /\ UpdaterStands
  BY DEF VncInit, OneUpdate, UpdaterStands, NoPicture
<1>6. ShowsSent /\ WillShowSent /\ FitsUnlessOutgrown
  BY DEF VncInit, ShowsSent, WillShowSent, FitsUnlessOutgrown
<1> QED
  BY <1>4, <1>5, <1>6 DEF VncIInv

LEMMA VncInductive == VncIInv /\ [VncNext]_vncVars => VncIInv'
<1> SUFFICES ASSUME VncIInv, [VncNext]_vncVars PROVE VncIInv'
  OBVIOUS
<1>1. ASSUME UNCHANGED vncVars PROVE VncIInv'
  BY <1>1 DEF vncVars, VncIInv, VncTypes, OneUpdate, AsksUpdate, UpdaterStands, ShowsSent, WillShowSent,
              FitsUnlessOutgrown, SizeWith, MakesPicture
<1>2. CASE WindowDraws \/ WindowCloses \/ VncStops \/ Accepts \/ AcceptorEnds \/ VncViewerLeaves
  BY <1>2, AroundKeeps
<1>3. CASE HandshakeFails \/ UpdaterEnds \/ SeesVncStop
  BY <1>3, ViewerEndsKeeps DEF HandshakeFails, UpdaterEnds, SeesVncStop
<1>4. CASE ServeViewer
  BY <1>4, ServeViewerKeeps
<1>5. CASE SetPixelFormat
  <2>1. PICK known \in BOOLEAN : ReadsMessage([t |-> "format", known |-> known])
    BY <1>5 DEF SetPixelFormat
  <2>2. vncViewer' = [vncViewer EXCEPT !.sent = @ + 1]
    BY <1>5 DEF SetPixelFormat
  <2>3. [t |-> "format", known |-> known] \in ViewerMessages
    BY DEF ViewerMessages
  <2> QED
    BY <2>1, <2>2, <2>3, WishKeeps
<1>6. CASE SetEncodings
  <2>1. PICK on \in BOOLEAN : /\ ReadsMessage([t |-> "resize", on |-> on])
                              /\ vncViewer' = [vncViewer EXCEPT !.sent = @ + 1]
    BY <1>6 DEF SetEncodings
  <2>2. [t |-> "resize", on |-> on] \in ViewerMessages
    BY DEF ViewerMessages
  <2> QED
    BY <2>1, <2>2, WishKeeps
<1>7. ASSUME NEW b \in BOOLEAN, UpdateRequest(b) PROVE VncIInv'
  BY <1>7, UpdateRequestKeeps
<1>8. CASE \/ \E k \in {"control", "c"}, b \in BOOLEAN : KeyEvent(k, b)
           \/ \E mask \in SUBSET {"left"} : PointerEvent(mask)
  BY <1>8, InputKeeps
<1>9. CASE AnswerViewer
  BY <1>9, AnswerViewerKeeps
<1>10. CASE SetWanted
  BY <1>10, SetWantedKeeps
<1>11. CASE ViewerDraws
  BY <1>11, ViewerDrawsKeeps
<1> QED
  BY <1>1, <1>2, <1>3, <1>4, <1>5, <1>6, <1>7, <1>8, <1>9, <1>10, <1>11 DEF VncNext

\* A viewer that has drawn what it was sent shows the picture of the last
\* update, and only one that does not follow a window that outgrew it is sent
\* what it has no room for, for every width and colour, however requests,
\* changes of size, pixel formats and the window's pictures interleave
\* (vnc/src/lib.rs, Updates::send).
THEOREM ViewerIsShown == VncSpec => []ViewerShowsWhatWasSent
<1>1. VncIInv => ViewerShowsWhatWasSent
  BY DEF VncIInv, ShowsSent, FitsUnlessOutgrown, ViewerShowsWhatWasSent
<1> QED
  BY <1>1, VncInitial, VncInductive, PTL DEF VncSpec

-----------------------------------------------------------------------------
(* The video of a GameStream client.                                        *)

VideoPackets == [frame : Nat, shard : Nat]

VideoTypes ==
    /\ sentFrames \in 0 .. MaxGameFrames
    /\ videoNet \in Seq(VideoPackets)
    /\ lostOf \in [1 .. MaxGameFrames -> 0 .. LostPerFrame]
    /\ assembling \in 0 .. sentFrames
    /\ nextFrame \in 0 .. sentFrames + 1
    /\ frameQueue \in Seq(Nat)
    /\ decoded \in Nat /\ keyDecoded \in Nat
    /\ keyframes \subseteq 1 .. sentFrames
    /\ hostWants \in BOOLEAN /\ idrAsked \in BOOLEAN /\ clientWants \in BOOLEAN /\ decodes \in BOOLEAN

\* The shards of a frame that are still on the network.
OnTheWay(f) == {videoNet[i].shard : i \in {j \in DOMAIN videoNet : videoNet[j].frame = f}}

\* Packets come in the order of their frames, none of a frame before the one
\* being put together.
PacketsInOrder ==
    /\ \A i \in DOMAIN videoNet : videoNet[i].frame \in 1 .. sentFrames /\ assembling <= videoNet[i].frame
    /\ \A i, j \in DOMAIN videoNet : i <= j => videoNet[i].frame <= videoNet[j].frame

\* Of a frame not begun, what was not lost is on its way.
NotBegun(f) == f \in 1 .. sentFrames /\ nextFrame <= f /\ assembling < f
RestIsOnTheWay ==
    \A f \in 1 .. sentFrames : NotBegun(f) =>
        IsFiniteSet(OnTheWay(f)) /\ Cardinality(OnTheWay(f)) + lostOf[f] >= PACKETS

\* A frame is put together after those that are whole, which the program takes
\* in their order.
FramesInOrder ==
    /\ assembling # NoFrame => nextFrame <= assembling /\ shards # {}
    /\ \A i \in DOMAIN frameQueue : decoded < frameQueue[i] /\ frameQueue[i] < nextFrame
    /\ \A i, j \in DOMAIN frameQueue : i < j => frameQueue[i] < frameQueue[j]
    /\ decoded = 0 \/ decoded < nextFrame
    /\ keyDecoded <= decoded

\* The last frame the program has or will get.
LastTaken == IF frameQueue = <<>> THEN decoded ELSE frameQueue[Len(frameQueue)]

Asks == clientWants \/ idrAsked \/ hostWants
\* A keyframe after f that is not given up.
Coming(k) == nextFrame <= k /\ assembling <= k
ReplacedAfter(f) ==
    Asks \/ \E k \in keyframes : k > f /\ (Coming(k) \/ \E i \in DOMAIN frameQueue : frameQueue[i] = k)

\* A frame after f was lost whole, and nobody noticed.
LostSince(f) == \E k \in 1 .. sentFrames : k > f /\ GivenUp(k) /\ lostOf[k] = PACKETS

BeginsWithKeyframe == IF sentFrames = 0 THEN hostWants ELSE 1 \in keyframes

\* After a frame that was given up, or one that does not decode, a keyframe is
\* asked for or coming, or a frame was lost whole since.
Before(i) == IF i = 1 THEN decoded ELSE frameQueue[i - 1]
HolesAreAskedFor ==
    nextFrame > LastTaken + 1 \/ assembling > LastTaken + 1 =>
        \/ Asks \/ \E k \in keyframes : k > LastTaken /\ Coming(k)
        \/ LostSince(LastTaken)
GapsAreAskedFor ==
    \A i \in DOMAIN frameQueue :
        frameQueue[i] \notin keyframes /\ frameQueue[i] # Before(i) + 1
            => ReplacedAfter(frameQueue[i]) \/ LostSince(Before(i))
DecodesOrAsks == ~ decodes /\ decoded # 0 => ReplacedAfter(decoded) \/ LostSince(keyDecoded)

VideoInv ==
    /\ VideoTypes /\ PacketsInOrder /\ RestIsOnTheWay /\ FramesInOrder /\ BeginsWithKeyframe
    /\ HolesAreAskedFor /\ GapsAreAskedFor /\ DecodesOrAsks

LEMMA HeadOfNet ==
    ASSUME VideoTypes, videoNet # <<>>
    PROVE  /\ DOMAIN videoNet = 1 .. Len(videoNet) /\ Len(videoNet) \in Nat \ {0}
           /\ 1 \in DOMAIN videoNet /\ Head(videoNet) = videoNet[1]
           /\ Head(videoNet) \in VideoPackets
<1>1. videoNet \in Seq(VideoPackets)
  BY DEF VideoTypes
<1>2. Len(videoNet) \in Nat \ {0}
  BY <1>1, EmptySeq
<1> QED
  BY <1>1, <1>2, LenProperties, HeadTailProperties

LEMMA TailOfNet ==
    ASSUME VideoTypes, videoNet # <<>>, videoNet' = Tail(videoNet)
    PROVE  /\ videoNet' \in Seq(VideoPackets)
           /\ \A i \in DOMAIN videoNet' : i \in Nat /\ i + 1 \in DOMAIN videoNet /\ videoNet'[i] = videoNet[i + 1]
           /\ \A i \in DOMAIN videoNet : i # 1 => i - 1 \in DOMAIN videoNet' /\ videoNet'[i - 1] = videoNet[i]
<1>1. videoNet \in Seq(VideoPackets)
  BY DEF VideoTypes
<1> DEFINE t == Tail(videoNet)
<1>2. /\ t \in Seq(VideoPackets) /\ Len(t) = Len(videoNet) - 1
      /\ \A i \in 1 .. Len(t) : t[i] = videoNet[i + 1]
  BY <1>1, HeadTailProperties
<1>3. DOMAIN t = 1 .. Len(t)
  BY <1>2, LenProperties
<1>4. DOMAIN videoNet = 1 .. Len(videoNet) /\ Len(videoNet) \in Nat \ {0}
  BY HeadOfNet
<1> HIDE DEF t
<1>5. \A i \in DOMAIN t : i \in Nat /\ i + 1 \in DOMAIN videoNet /\ t[i] = videoNet[i + 1]
  BY <1>2, <1>3, <1>4
<1>6. \A i \in DOMAIN videoNet : i # 1 => i - 1 \in DOMAIN t /\ t[i - 1] = videoNet[i]
  <2> TAKE i \in DOMAIN videoNet
  <2> HAVE i # 1
  <2>1. i - 1 \in 1 .. Len(t) /\ (i - 1) + 1 = i
    BY <1>2, <1>4
  <2> QED
    BY <2>1, <1>2, <1>3
<1>7. videoNet' = t
  BY DEF t
<1> QED
  BY <1>2, <1>5, <1>6, <1>7

LEMMA TailKeepsOrder ==
    ASSUME VideoTypes, PacketsInOrder, videoNet # <<>>, videoNet' = Tail(videoNet),
           sentFrames' = sentFrames, assembling' \in {NoFrame, assembling, Head(videoNet).frame}
    PROVE  PacketsInOrder'
<1>1. \A i \in DOMAIN videoNet' : i \in Nat /\ i + 1 \in DOMAIN videoNet /\ videoNet'[i] = videoNet[i + 1]
  BY TailOfNet
<1>2. ASSUME NEW i \in DOMAIN videoNet'
      PROVE  videoNet'[i].frame \in 1 .. sentFrames /\ assembling' <= videoNet'[i].frame
  <2>1. i + 1 \in DOMAIN videoNet /\ videoNet'[i] = videoNet[i + 1]
    BY <1>1
  <2>2. 1 \in DOMAIN videoNet /\ 1 <= i + 1 /\ Head(videoNet) = videoNet[1]
    BY <2>1, HeadOfNet
  <2>3. /\ videoNet[i + 1].frame \in 1 .. sentFrames
        /\ assembling <= videoNet[i + 1].frame /\ videoNet[1].frame <= videoNet[i + 1].frame
    BY <2>1, <2>2 DEF PacketsInOrder
  <2> QED
    BY <2>1, <2>2, <2>3 DEF NoFrame
<1>3. ASSUME NEW i \in DOMAIN videoNet', NEW j \in DOMAIN videoNet', i <= j
      PROVE  videoNet'[i].frame <= videoNet'[j].frame
  <2>1. i + 1 \in DOMAIN videoNet /\ j + 1 \in DOMAIN videoNet /\ i + 1 <= j + 1
    BY <1>1, <1>3
  <2> QED
    BY <2>1, <1>1 DEF PacketsInOrder
<1> QED
  BY <1>2, <1>3 DEF PacketsInOrder

\* Taking or losing a packet takes one shard of its frame off the network.
LEMMA OneShardLess ==
    ASSUME VideoTypes, videoNet # <<>>, videoNet' = Tail(videoNet), NEW f
    PROVE  /\ f # Head(videoNet).frame => OnTheWay(f)' = OnTheWay(f)
           /\ OnTheWay(f) \ {Head(videoNet).shard} \subseteq OnTheWay(f)'
           /\ OnTheWay(f)' \subseteq OnTheWay(f)
<1>1. /\ \A i \in DOMAIN videoNet' : i + 1 \in DOMAIN videoNet /\ videoNet'[i] = videoNet[i + 1]
      /\ \A i \in DOMAIN videoNet : i # 1 => i - 1 \in DOMAIN videoNet' /\ videoNet'[i - 1] = videoNet[i]
  BY TailOfNet
<1>2. Head(videoNet) = videoNet[1]
  BY HeadOfNet
<1>3. OnTheWay(f)' \subseteq OnTheWay(f)
  BY <1>1 DEF OnTheWay
<1>4. ASSUME NEW s \in OnTheWay(f), f # Head(videoNet).frame \/ s # Head(videoNet).shard
      PROVE  s \in OnTheWay(f)'
  <2>1. PICK i \in DOMAIN videoNet : videoNet[i].frame = f /\ videoNet[i].shard = s
    BY DEF OnTheWay
  <2>2. i # 1
    BY <2>1, <1>2, <1>4
  <2>3. i - 1 \in DOMAIN videoNet' /\ videoNet'[i - 1] = videoNet[i]
    BY <2>2, <1>1
  <2> QED
    BY <2>1, <2>3 DEF OnTheWay
<1> QED
  BY <1>3, <1>4

\* Where a frame has not begun and was not lost whole, the next packet is of it
\* or of one before it.
LEMMA NextIsNotLater ==
    ASSUME VideoTypes, PacketsInOrder, RestIsOnTheWay, NEW f, NotBegun(f), lostOf[f] # PACKETS
    PROVE  videoNet # <<>> /\ Head(videoNet).frame <= f
<1>1. IsFiniteSet(OnTheWay(f)) /\ Cardinality(OnTheWay(f)) + lostOf[f] >= PACKETS
  BY DEF RestIsOnTheWay, NotBegun
<1>2. f \in 1 .. MaxGameFrames /\ lostOf[f] \in 0 .. LostPerFrame
  BY VideoAssumption DEF VideoTypes, NotBegun
<1>3. OnTheWay(f) # {}
  <2> SUFFICES ASSUME OnTheWay(f) = {} PROVE FALSE
    OBVIOUS
  <2>1. Cardinality(OnTheWay(f)) = 0
    BY FS_EmptySet
  <2> QED
    BY <2>1, <1>1, <1>2, VideoAssumption
<1>4. PICK i \in DOMAIN videoNet : videoNet[i].frame = f
  BY <1>3 DEF OnTheWay
<1>5. videoNet # <<>>
  BY <1>4, EmptySeq
<1>6. DOMAIN videoNet = 1 .. Len(videoNet) /\ 1 \in DOMAIN videoNet /\ Head(videoNet) = videoNet[1]
      /\ Len(videoNet) \in Nat
  BY <1>5, HeadOfNet
<1>7. 1 <= i
  BY <1>4, <1>6
<1> QED
  BY <1>4, <1>5, <1>6, <1>7 DEF PacketsInOrder

LEMMA OneElementLess ==
    ASSUME NEW S, NEW x, IsFiniteSet(S)
    PROVE  IsFiniteSet(S \ {x}) /\ Cardinality(S \ {x}) >= Cardinality(S) - 1
<1>1. PICK c \in Nat : c = Cardinality(S)
  BY FS_CardinalityType
<1>2. IsFiniteSet(S \ {x}) /\ Cardinality(S \ {x}) = (IF x \in S THEN Cardinality(S) - 1 ELSE Cardinality(S))
  BY FS_RemoveElement
<1>3. Cardinality(S \ {x}) = c - 1 \/ Cardinality(S \ {x}) = c
  BY <1>1, <1>2
<1> QED
  BY <1>1, <1>2, <1>3

\* With one packet less, what is on its way stays accounted for: a lost one is
\* counted, and the frame of one that was taken has begun or is over.
LEMMA OneLessOnTheWay ==
    ASSUME VideoTypes, VideoTypes', PacketsInOrder, RestIsOnTheWay, videoNet # <<>>,
           videoNet' = Tail(videoNet), sentFrames' = sentFrames,
           NEW f \in 1 .. sentFrames, NotBegun(f),
           \/ lostOf' = [lostOf EXCEPT ![Head(videoNet).frame] = @ + 1]
           \/ lostOf' = lostOf /\ f # Head(videoNet).frame
    PROVE  (IsFiniteSet(OnTheWay(f)) /\ Cardinality(OnTheWay(f)) + lostOf[f] >= PACKETS)'
<1>1. IsFiniteSet(OnTheWay(f)) /\ Cardinality(OnTheWay(f)) + lostOf[f] >= PACKETS
  BY DEF RestIsOnTheWay
<1>2. f \in 1 .. MaxGameFrames /\ lostOf[f] \in Nat /\ lostOf \in [1 .. MaxGameFrames -> 0 .. LostPerFrame]
  <2>1. sentFrames \in 0 .. MaxGameFrames /\ lostOf \in [1 .. MaxGameFrames -> 0 .. LostPerFrame]
    BY DEF VideoTypes
  <2>2. MaxGameFrames \in Nat /\ LostPerFrame \in Nat
    BY VideoAssumption
  <2>3. f \in 1 .. MaxGameFrames
    BY <2>1, <2>2
  <2>4. lostOf[f] \in 0 .. LostPerFrame
    BY <2>1, <2>3
  <2> QED
    BY <2>1, <2>2, <2>3, <2>4
<1> DEFINE h == Head(videoNet)
<1>3. /\ f # h.frame => OnTheWay(f)' = OnTheWay(f)
      /\ OnTheWay(f) \ {h.shard} \subseteq OnTheWay(f)'
      /\ OnTheWay(f)' \subseteq OnTheWay(f)
  BY OneShardLess
<1>4. CASE f # h.frame
  <2>1. lostOf'[f] = lostOf[f]
    BY <1>2, <1>4
  <2>2. OnTheWay(f)' = OnTheWay(f)
    BY <1>3, <1>4
  <2> QED
    BY <2>1, <2>2, <1>1
<1>5. CASE f = h.frame
  <2>1. lostOf'[f] = lostOf[f] + 1
    BY <1>2, <1>5
  <2> DEFINE now == OnTheWay(f)'
             rest == OnTheWay(f) \ {h.shard}
  <2>2. IsFiniteSet(now)
    BY <1>1, <1>3, FS_Subset
  <2>3. IsFiniteSet(rest) /\ Cardinality(rest) >= Cardinality(OnTheWay(f)) - 1
    BY <1>1, OneElementLess
  <2>4. Cardinality(rest) <= Cardinality(now)
    BY <2>2, <1>3, FS_Subset
  <2>5. PICK a, b, c \in Nat : a = Cardinality(now) /\ b = Cardinality(rest) /\ c = Cardinality(OnTheWay(f))
    BY <2>2, <2>3, <1>1, FS_CardinalityType
  <2>6. Cardinality(now) + (lostOf[f] + 1) >= PACKETS
    <3> HIDE DEF now, rest
    <3>1. PICK l \in Nat : l = lostOf[f]
      BY <1>2
    <3>2. a >= b /\ b >= c - 1 /\ c + l >= PACKETS
      BY <2>3, <2>4, <2>5, <3>1, <1>1
    <3>3. a + (l + 1) >= PACKETS
      BY <3>2, VideoAssumption
    <3> QED
      BY <3>1, <3>3, <2>5
  <2> QED
    BY <2>1, <2>2, <2>6
<1> QED
  BY <1>4, <1>5

LEMMA LastIsLast ==
    ASSUME VideoTypes, FramesInOrder
    PROVE  /\ LastTaken \in Nat /\ decoded <= LastTaken
           /\ \A i \in DOMAIN frameQueue : frameQueue[i] \in Nat /\ frameQueue[i] <= LastTaken
           /\ LastTaken = 0 \/ LastTaken < nextFrame
           /\ frameQueue # <<>> =>
                Len(frameQueue) \in DOMAIN frameQueue /\ frameQueue[Len(frameQueue)] = LastTaken
<1>1. frameQueue \in Seq(Nat) /\ decoded \in Nat /\ nextFrame \in Nat
  BY VideoAssumption DEF VideoTypes
<1>2. DOMAIN frameQueue = 1 .. Len(frameQueue) /\ Len(frameQueue) \in Nat
      /\ \A i \in 1 .. Len(frameQueue) : frameQueue[i] \in Nat
  BY <1>1, LenProperties
<1>3. CASE frameQueue = <<>>
  <2>1. DOMAIN frameQueue = {}
    BY <1>2, <1>3, EmptySeq
  <2> QED
    BY <2>1, <1>1, <1>3 DEF LastTaken, FramesInOrder
<1>4. CASE frameQueue # <<>>
  <2>1. Len(frameQueue) \in DOMAIN frameQueue
    BY <1>1, <1>2, <1>4, EmptySeq
  <2>2. LastTaken = frameQueue[Len(frameQueue)]
    BY <1>4 DEF LastTaken
  <2>3. PICK n \in Nat : n = Len(frameQueue)
    BY <1>2
  <2>4. \A i \in DOMAIN frameQueue : i <= n /\ (i < n => frameQueue[i] < frameQueue[n])
    BY <1>2, <2>1, <2>3 DEF FramesInOrder
  <2>5. decoded < frameQueue[n] /\ frameQueue[n] < nextFrame
    BY <2>1, <2>3 DEF FramesInOrder
  <2> QED
    BY <2>1, <2>2, <2>3, <2>4, <2>5, <1>1, <1>2
<1> QED
  BY <1>3, <1>4

LEMMA BeforeIsLess ==
    ASSUME VideoTypes, FramesInOrder, NEW i \in DOMAIN frameQueue
    PROVE  frameQueue[i] \in Nat /\ Before(i) \in Nat /\ Before(i) <= frameQueue[i]
<1>1. frameQueue \in Seq(Nat) /\ decoded \in Nat
  BY DEF VideoTypes
<1>2. PICK n \in Nat : n = Len(frameQueue) /\ DOMAIN frameQueue = 1 .. n
  BY <1>1, LenProperties
<1>3. \A k \in 1 .. n : frameQueue[k] \in Nat
  BY <1>1, <1>2, ElementOfSeq
<1>4. CASE i = 1
  BY <1>1, <1>2, <1>3, <1>4 DEF Before, FramesInOrder
<1>5. CASE i # 1
  <2>1. i - 1 \in 1 .. n /\ i - 1 < i
    BY <1>2, <1>5
  <2>2. frameQueue[i - 1] < frameQueue[i]
    BY <2>1, <1>2 DEF FramesInOrder
  <2> QED
    BY <2>1, <2>2, <1>2, <1>3, <1>5 DEF Before
<1> QED
  BY <1>4, <1>5

\* While a keyframe is asked for, nothing else is promised.
LEMMA AskingIsEnough ==
    ASSUME Asks'
    PROVE  HolesAreAskedFor' /\ GapsAreAskedFor' /\ DecodesOrAsks'
BY DEF HolesAreAskedFor, GapsAreAskedFor, DecodesOrAsks, ReplacedAfter

LEMMA AskingKeeps ==
    ASSUME VideoInv, TakeIdrRequest \/ AskForIdr
    PROVE  VideoInv'
<1>1. UNCHANGED <<sentFrames, videoNet, lostOf, assembling, shards, nextFrame, frameQueue, decoded, decodes, keyDecoded, keyframes>>
  BY DEF TakeIdrRequest, AskForIdr
<1>2. Asks' /\ (hostWants => hostWants') /\ hostWants' \in BOOLEAN /\ idrAsked' \in BOOLEAN /\ clientWants' \in BOOLEAN
  BY DEF TakeIdrRequest, AskForIdr, Asks, VideoInv, VideoTypes
<1>3. HolesAreAskedFor' /\ GapsAreAskedFor' /\ DecodesOrAsks'
  BY <1>2, AskingIsEnough
<1>4. VideoTypes'
  BY <1>1, <1>2 DEF VideoInv, VideoTypes
<1>5. PacketsInOrder' /\ FramesInOrder'
  BY <1>1 DEF VideoInv, PacketsInOrder, FramesInOrder
<1>6. RestIsOnTheWay'
  BY <1>1 DEF VideoInv, RestIsOnTheWay, NotBegun, OnTheWay
<1>7. BeginsWithKeyframe'
  BY <1>1, <1>2 DEF VideoInv, BeginsWithKeyframe
<1> QED
  BY <1>3, <1>4, <1>5, <1>6, <1>7 DEF VideoInv

LEMMA LosingKeeps ==
    ASSUME VideoInv, LosePacket
    PROVE  VideoInv'
<1> USE DEF LosePacket
<1>1. UNCHANGED <<sentFrames, hostWants, idrAsked, assembling, shards, nextFrame, frameQueue, clientWants, decoded, decodes, keyDecoded, keyframes>>
      /\ videoNet # <<>> /\ videoNet' = Tail(videoNet)
      /\ lostOf' = [lostOf EXCEPT ![Head(videoNet).frame] = @ + 1]
  OBVIOUS
<1>2. VideoTypes /\ PacketsInOrder /\ RestIsOnTheWay
  BY DEF VideoInv
<1>3. lostOf' \in [1 .. MaxGameFrames -> 0 .. LostPerFrame]
  <2> DEFINE h == Head(videoNet).frame
  <2>1. lostOf \in [1 .. MaxGameFrames -> 0 .. LostPerFrame] /\ lostOf[h] < LostPerFrame
    BY <1>2 DEF VideoTypes
  <2>2. h \in 1 .. MaxGameFrames
    BY <1>1, <1>2, HeadOfNet, VideoAssumption DEF PacketsInOrder, VideoTypes
  <2>3. lostOf[h] + 1 \in 0 .. LostPerFrame
    BY <2>1, <2>2, VideoAssumption
  <2>4. lostOf' = [lostOf EXCEPT ![h] = lostOf[h] + 1]
    BY <1>1
  <2> HIDE DEF h
  <2> QED
    BY <2>1, <2>2, <2>3, <2>4
<1>4. videoNet' \in Seq(VideoPackets)
      /\ \A i \in DOMAIN videoNet' : i \in Nat /\ i + 1 \in DOMAIN videoNet /\ videoNet'[i] = videoNet[i + 1]
  BY <1>1, <1>2, TailOfNet
<1>5. VideoTypes'
  BY <1>1, <1>2, <1>3, <1>4 DEF VideoTypes
<1>6. PacketsInOrder'
  BY <1>1, <1>2, <1>4, TailKeepsOrder
<1>7. RestIsOnTheWay'
  <2> SUFFICES ASSUME NEW f \in 1 .. sentFrames, NotBegun(f)
               PROVE  (IsFiniteSet(OnTheWay(f)) /\ Cardinality(OnTheWay(f)) + lostOf[f] >= PACKETS)'
    BY <1>1 DEF RestIsOnTheWay, NotBegun
  <2> QED
    BY <1>1, <1>2, <1>5, OneLessOnTheWay
<1>8. FramesInOrder' /\ BeginsWithKeyframe'
  BY <1>1 DEF VideoInv, FramesInOrder, BeginsWithKeyframe
<1>9. ASSUME NEW k \in 1 .. sentFrames, lostOf[k] = PACKETS
      PROVE  lostOf'[k] = PACKETS
  <2>1. lostOf \in [1 .. MaxGameFrames -> 0 .. LostPerFrame] /\ k \in 1 .. MaxGameFrames
    BY <1>2, VideoAssumption DEF VideoTypes
  <2>2. k # Head(videoNet).frame
    BY <1>9, VideoAssumption
  <2> QED
    BY <2>1, <2>2, <1>1, <1>9
<1>10. HolesAreAskedFor' /\ GapsAreAskedFor' /\ DecodesOrAsks'
  BY <1>1, <1>9 DEF VideoInv, HolesAreAskedFor, GapsAreAskedFor, DecodesOrAsks, ReplacedAfter, LastTaken, Coming, Asks,
     Before, LostSince, GivenUp
<1> QED
  BY <1>5, <1>6, <1>7, <1>8, <1>10 DEF VideoInv

\* The packets a frame is sent as.
FramePackets(f) == [i \in 1 .. PACKETS |-> [frame |-> f, shard |-> i]]

LEMMA SentPackets ==
    ASSUME VideoTypes, NEW f \in Nat, videoNet' = videoNet \o FramePackets(f)
    PROVE  /\ videoNet' \in Seq(VideoPackets)
           /\ DOMAIN videoNet' = 1 .. Len(videoNet) + PACKETS
           /\ DOMAIN videoNet = 1 .. Len(videoNet) /\ Len(videoNet) \in Nat
           /\ \A i \in DOMAIN videoNet : i \in DOMAIN videoNet' /\ videoNet'[i] = videoNet[i]
           /\ \A i \in DOMAIN videoNet' : i \notin DOMAIN videoNet =>
                i > Len(videoNet) /\ i - Len(videoNet) \in 1 .. PACKETS
                    /\ videoNet'[i] = [frame |-> f, shard |-> i - Len(videoNet)]
<1> DEFINE new == FramePackets(f)
<1>1. videoNet \in Seq(VideoPackets) /\ PACKETS \in Nat
  BY VideoAssumption DEF VideoTypes
<1>2. \A i \in 1 .. PACKETS : new[i] = [frame |-> f, shard |-> i] /\ new[i] \in VideoPackets
  BY <1>1 DEF FramePackets, VideoPackets
<1>3. new \in [1 .. PACKETS -> VideoPackets] /\ DOMAIN new = 1 .. PACKETS
  BY <1>2 DEF FramePackets
<1> HIDE DEF new
<1>4. new \in Seq(VideoPackets) /\ Len(new) = PACKETS
  <2>1. new \in Seq(VideoPackets)
    BY <1>1, <1>3
  <2>2. PICK n \in Nat : n = Len(new) /\ DOMAIN new = 1 .. n
    BY <2>1, LenProperties
  <2>3. 1 .. n = 1 .. PACKETS
    BY <2>2, <1>3
  <2>4. n = PACKETS
    BY <2>3, <1>1
  <2> QED
    BY <2>1, <2>2, <2>4
<1>5. DOMAIN videoNet = 1 .. Len(videoNet) /\ Len(videoNet) \in Nat
  BY <1>1, LenProperties
<1>6. /\ videoNet' \in Seq(VideoPackets) /\ Len(videoNet') = Len(videoNet) + PACKETS
      /\ \A i \in 1 .. Len(videoNet) + PACKETS :
            videoNet'[i] = IF i <= Len(videoNet) THEN videoNet[i] ELSE new[i - Len(videoNet)]
  <2>1. videoNet' = videoNet \o new
    BY DEF new
  <2>2. /\ videoNet \o new \in Seq(VideoPackets) /\ Len(videoNet \o new) = Len(videoNet) + Len(new)
        /\ \A i \in 1 .. Len(videoNet) + Len(new) :
             (videoNet \o new)[i] = IF i <= Len(videoNet) THEN videoNet[i] ELSE new[i - Len(videoNet)]
    BY <1>1, <1>4, ConcatProperties
  <2>3. Len(new) = PACKETS
    BY <1>4
  <2> QED
    BY <2>1, <2>2, <2>3
<1>7. DOMAIN videoNet' = 1 .. Len(videoNet) + PACKETS
  BY <1>6, LenProperties
<1>8. PICK n \in Nat : n = Len(videoNet)
  BY <1>5
<1>9. \A i \in 1 .. n : i \in 1 .. n + PACKETS /\ videoNet'[i] = videoNet[i]
  BY <1>6, <1>8, <1>1
<1>10. ASSUME NEW i \in 1 .. n + PACKETS, i \notin 1 .. n
       PROVE  i > n /\ i - n \in 1 .. PACKETS /\ videoNet'[i] = [frame |-> f, shard |-> i - n]
  <2>1. i > n /\ ~ i <= n /\ i - n \in 1 .. PACKETS
    BY <1>10, <1>1
  <2>2. videoNet'[i] = new[i - n]
    BY <2>1, <1>6, <1>8
  <2> QED
    BY <2>1, <2>2, <1>2
<1> QED
  BY <1>5, <1>6, <1>7, <1>8, <1>9, <1>10

LEMMA SendingKeeps ==
    ASSUME VideoInv, SendFrame
    PROVE  VideoInv'
<1>0. PICK f : f = sentFrames + 1
  OBVIOUS
<1>1. /\ sentFrames < MaxGameFrames /\ sentFrames' = f
      /\ videoNet' = videoNet \o FramePackets(f)
      /\ keyframes' = IF hostWants THEN keyframes \union {f} ELSE keyframes
      /\ hostWants' = FALSE
      /\ UNCHANGED <<lostOf, idrAsked, assembling, shards, nextFrame, frameQueue, clientWants, decoded, decodes, keyDecoded>>
  BY <1>0 DEF SendFrame, FramePackets
<1>2. VideoTypes /\ PacketsInOrder /\ RestIsOnTheWay /\ FramesInOrder /\ BeginsWithKeyframe
  BY DEF VideoInv
<1>3. /\ sentFrames \in Nat /\ f \in Nat /\ f \in 1 .. MaxGameFrames
      /\ assembling \in 0 .. sentFrames /\ nextFrame \in 0 .. f /\ keyframes \subseteq 1 .. sentFrames
  BY <1>0, <1>1, <1>2, VideoAssumption DEF VideoTypes
<1>3a. sentFrames = f - 1
  BY <1>0, <1>3
<1>4. /\ videoNet' \in Seq(VideoPackets)
      /\ DOMAIN videoNet' = 1 .. Len(videoNet) + PACKETS
      /\ DOMAIN videoNet = 1 .. Len(videoNet) /\ Len(videoNet) \in Nat
      /\ \A i \in DOMAIN videoNet : i \in DOMAIN videoNet' /\ videoNet'[i] = videoNet[i]
      /\ \A i \in DOMAIN videoNet' : i \notin DOMAIN videoNet =>
           i > Len(videoNet) /\ i - Len(videoNet) \in 1 .. PACKETS
               /\ videoNet'[i] = [frame |-> f, shard |-> i - Len(videoNet)]
  BY <1>1, <1>2, <1>3, SentPackets
<1>5. VideoTypes'
  <2>1. sentFrames' \in 0 .. MaxGameFrames
    BY <1>1, <1>3
  <2>2. assembling' \in 0 .. sentFrames' /\ nextFrame' \in 0 .. sentFrames' + 1
    BY <1>1, <1>3, <1>3a
  <2>3. keyframes' \subseteq 1 .. sentFrames'
    BY <1>1, <1>3, <1>3a
  <2> QED
    BY <2>1, <2>2, <2>3, <1>1, <1>2, <1>4 DEF VideoTypes
<1>6. PacketsInOrder'
  <2>1. \A i \in DOMAIN videoNet' :
            \/ i \in DOMAIN videoNet /\ videoNet'[i] = videoNet[i]
            \/ i \notin DOMAIN videoNet /\ i > Len(videoNet) /\ videoNet'[i].frame = f
    BY <1>4
  <2>2. \A i \in DOMAIN videoNet : videoNet[i].frame \in 1 .. f /\ assembling <= videoNet[i].frame
                                     /\ videoNet[i].frame <= f
    BY <1>2, <1>3, <1>3a DEF PacketsInOrder
  <2>3. \A i \in DOMAIN videoNet' : videoNet'[i].frame \in 1 .. f /\ assembling <= videoNet'[i].frame
    BY <2>1, <2>2, <1>3, <1>3a
  <2>4. ASSUME NEW i \in DOMAIN videoNet', NEW j \in DOMAIN videoNet', i <= j
        PROVE  videoNet'[i].frame <= videoNet'[j].frame
    <3>1. CASE j \in DOMAIN videoNet
      <4>1. i \in DOMAIN videoNet
        BY <1>4, <2>1, <2>4, <3>1
      <4> QED
        BY <4>1, <3>1, <2>1, <2>4, <1>2 DEF PacketsInOrder
    <3>2. CASE j \notin DOMAIN videoNet
      <4>1. videoNet'[j].frame = f
        BY <3>2, <2>1, <2>4
      <4>2. videoNet'[i].frame <= f
        BY <2>3, <2>4, <1>3
      <4> QED
        BY <4>1, <4>2
    <3> QED
      BY <3>1, <3>2
  <2> QED
    BY <2>3, <2>4, <1>1 DEF PacketsInOrder
<1>7. RestIsOnTheWay'
  <2> SUFFICES ASSUME NEW k \in 1 .. f, NotBegun(k)'
               PROVE  (IsFiniteSet(OnTheWay(k)) /\ Cardinality(OnTheWay(k)) + lostOf[k] >= PACKETS)'
    BY <1>1 DEF RestIsOnTheWay
  <2>1. CASE k # f
    <3>1. k \in 1 .. sentFrames /\ NotBegun(k)
      BY <2>1, <1>1, <1>3, <1>3a DEF NotBegun
    <3>2. OnTheWay(k)' = OnTheWay(k)
      <4>1. \A i \in DOMAIN videoNet' : videoNet'[i].frame = k => i \in DOMAIN videoNet
        BY <1>4, <2>1
      <4> QED
        BY <4>1, <1>4 DEF OnTheWay
    <3> QED
      BY <3>1, <3>2, <1>1, <1>2 DEF RestIsOnTheWay
  <2>2. CASE k = f
    <3>1. OnTheWay(k)' = 1 .. PACKETS
      <4>1. \A i \in DOMAIN videoNet : videoNet[i].frame # f
        BY <1>2, <1>3, <1>3a DEF PacketsInOrder
      <4>2. OnTheWay(k)' \subseteq 1 .. PACKETS
        BY <4>1, <1>4, <2>2 DEF OnTheWay
      <4>3. ASSUME NEW s \in 1 .. PACKETS
            PROVE  s \in OnTheWay(k)'
        <5>1. PICK n \in Nat : n = Len(videoNet)
          BY <1>4
        <5>2. n + s \in 1 .. n + PACKETS /\ n + s \notin 1 .. n /\ (n + s) - n = s
          BY <5>1, VideoAssumption
        <5>3. n + s \in DOMAIN videoNet' /\ videoNet'[n + s] = [frame |-> f, shard |-> s]
          BY <5>1, <5>2, <1>4
        <5> QED
          BY <5>3, <2>2 DEF OnTheWay
      <4> QED
        BY <4>2, <4>3
    <3>2. IsFiniteSet(1 .. PACKETS) /\ Cardinality(1 .. PACKETS) = PACKETS
      BY VideoAssumption, FS_Interval
    <3>3. lostOf'[k] \in Nat
      BY <1>5, <2>2, <1>1, <1>3, VideoAssumption DEF VideoTypes
    <3> QED
      BY <3>1, <3>2, <3>3, VideoAssumption
  <2> QED
    BY <2>1, <2>2
<1>8. FramesInOrder'
  BY <1>1, <1>2 DEF FramesInOrder
<1>9. BeginsWithKeyframe'
  <2>1. sentFrames' # 0
    BY <1>1, <1>3, <1>3a
  <2>2. 1 \in keyframes'
    BY <1>0, <1>1, <1>2 DEF BeginsWithKeyframe
  <2> QED
    BY <2>1, <2>2 DEF BeginsWithKeyframe
<1>10. HolesAreAskedFor' /\ GapsAreAskedFor' /\ DecodesOrAsks'
  <2>1. CASE Asks'
    BY <2>1, AskingIsEnough
  <2>2. CASE hostWants
    <3>1. f \in keyframes' /\ Coming(f)'
      <4>1. f \in keyframes'
        BY <1>1, <2>2
      <4>2. nextFrame' <= f /\ assembling' <= f
        <5>1. nextFrame' = nextFrame /\ assembling' = assembling
          BY <1>1
        <5> QED
          BY <5>1, <1>3, <1>3a
      <4> QED
        BY <4>1, <4>2 DEF Coming
    <3>2. /\ LastTaken < f /\ LastTaken' = LastTaken
          /\ \A i \in DOMAIN frameQueue : frameQueue[i] < f
          /\ decoded < f
      <4>1. LastTaken \in Nat /\ (LastTaken = 0 \/ LastTaken < nextFrame) /\ decoded <= LastTaken
            /\ \A i \in DOMAIN frameQueue : frameQueue[i] \in Nat /\ frameQueue[i] <= LastTaken
        BY <1>2, LastIsLast
      <4>2. LastTaken < f
        BY <4>1, <1>3, <1>3a
      <4>3. decoded \in Nat
        BY <1>2 DEF VideoTypes
      <4>4. LastTaken' = LastTaken
        BY <1>1 DEF LastTaken
      <4>5. ASSUME NEW i \in DOMAIN frameQueue
            PROVE  frameQueue[i] < f
        BY <4>1, <4>2, <1>3
      <4> QED
        BY <4>1, <4>2, <4>3, <4>4, <4>5, <1>3
    <3>3. HolesAreAskedFor'
      BY <3>1, <3>2, <1>3 DEF HolesAreAskedFor
    <3>4. frameQueue' = frameQueue /\ decoded' = decoded
      BY <1>1
    <3>5. \A i \in DOMAIN frameQueue' : ReplacedAfter(frameQueue[i])'
      BY <3>1, <3>2, <3>4 DEF ReplacedAfter
    <3>6. ReplacedAfter(decoded)'
      BY <3>1, <3>2, <3>4 DEF ReplacedAfter
    <3> QED
      BY <3>3, <3>5, <3>6 DEF GapsAreAskedFor, DecodesOrAsks
  <2>3. CASE ~ hostWants /\ ~ Asks'
    <3>1. ~ Asks /\ keyframes' = keyframes
      BY <1>1, <2>3 DEF Asks
    <3>2. \A k : k \in 1 .. sentFrames => k \in 1 .. f
      BY <1>3, <1>3a
    <3> QED
      BY <3>1, <3>2, <1>1 DEF VideoInv, HolesAreAskedFor, GapsAreAskedFor, DecodesOrAsks, ReplacedAfter, LastTaken,
         Coming, Before, LostSince, GivenUp
  <2> QED
    BY <2>1, <2>2, <2>3, <1>2 DEF VideoTypes
<1> QED
  BY <1>5, <1>6, <1>7, <1>8, <1>9, <1>10 DEF VideoInv

LEMMA DecodingKeeps ==
    ASSUME VideoInv, Decode
    PROVE  VideoInv'
<1>1. PICK h : h = Head(frameQueue)
  OBVIOUS
<1>2. /\ frameQueue # <<>> /\ frameQueue' = Tail(frameQueue) /\ decoded' = h
      /\ decodes' = (h \in keyframes \/ (decodes /\ h = decoded + 1))
      /\ keyDecoded' = IF h \in keyframes THEN h ELSE keyDecoded
      /\ UNCHANGED <<sentFrames, hostWants, videoNet, lostOf, idrAsked, assembling, shards, nextFrame, clientWants, keyframes>>
  BY <1>1 DEF Decode
<1>3. VideoTypes /\ PacketsInOrder /\ RestIsOnTheWay /\ FramesInOrder /\ BeginsWithKeyframe
      /\ HolesAreAskedFor /\ GapsAreAskedFor /\ DecodesOrAsks
  BY DEF VideoInv
<1>4. /\ frameQueue' \in Seq(Nat) /\ DOMAIN frameQueue' = 1 .. Len(frameQueue')
      /\ DOMAIN frameQueue = 1 .. Len(frameQueue) /\ Len(frameQueue) \in Nat \ {0}
      /\ Len(frameQueue') = Len(frameQueue) - 1
      /\ \A i \in 1 .. Len(frameQueue') : frameQueue'[i] = frameQueue[i + 1]
      /\ h \in Nat /\ h = frameQueue[1]
  <2>1. frameQueue \in Seq(Nat) /\ Len(frameQueue) \in Nat \ {0}
    BY <1>2, <1>3, EmptySeq DEF VideoTypes
  <2>2. Tail(frameQueue) \in Seq(Nat) /\ Len(Tail(frameQueue)) = Len(frameQueue) - 1
        /\ \A i \in 1 .. Len(Tail(frameQueue)) : Tail(frameQueue)[i] = frameQueue[i + 1]
        /\ h \in Nat
    BY <1>1, <1>2, <2>1, HeadTailProperties
  <2>3. DOMAIN frameQueue = 1 .. Len(frameQueue) /\ DOMAIN Tail(frameQueue) = 1 .. Len(Tail(frameQueue))
    BY <2>1, <2>2, LenProperties
  <2> QED
    BY <1>1, <1>2, <2>1, <2>2, <2>3
<1>5. PICK n \in Nat \ {0} : n = Len(frameQueue)
  BY <1>4
<1>6. /\ \A i \in DOMAIN frameQueue' : i + 1 \in DOMAIN frameQueue /\ i + 1 > 1 /\ frameQueue'[i] = frameQueue[i + 1]
      /\ \A i \in DOMAIN frameQueue : i # 1 => i > 1 /\ i - 1 \in DOMAIN frameQueue' /\ frameQueue'[i - 1] = frameQueue[i]
      /\ 1 \in DOMAIN frameQueue
  <2>1. DOMAIN frameQueue = 1 .. n /\ DOMAIN frameQueue' = 1 .. n - 1
        /\ \A i \in 1 .. n - 1 : frameQueue'[i] = frameQueue[i + 1]
    BY <1>4, <1>5
  <2>2. \A i \in 1 .. n - 1 : i + 1 \in 1 .. n /\ i + 1 > 1
    OBVIOUS
  <2>3. \A i \in 1 .. n : i # 1 => i > 1 /\ i - 1 \in 1 .. n - 1 /\ (i - 1) + 1 = i
    OBVIOUS
  <2> QED
    BY <2>1, <2>2, <2>3
<1>7. decoded < h /\ h < nextFrame /\ \A i \in DOMAIN frameQueue : i # 1 => h < frameQueue[i]
  BY <1>3, <1>4, <1>6 DEF FramesInOrder
<1>8. VideoTypes'
  BY <1>2, <1>3, <1>4 DEF VideoTypes
<1>9. PacketsInOrder' /\ BeginsWithKeyframe'
  BY <1>2, <1>3 DEF PacketsInOrder, BeginsWithKeyframe
<1>10. RestIsOnTheWay'
  BY <1>2, <1>3 DEF RestIsOnTheWay, NotBegun, OnTheWay
<1>11. FramesInOrder'
  <2>1. \A i \in DOMAIN frameQueue' : decoded' < frameQueue'[i] /\ frameQueue'[i] < nextFrame
    BY <1>2, <1>3, <1>4, <1>6, <1>7 DEF FramesInOrder
  <2>2. ASSUME NEW i \in DOMAIN frameQueue', NEW j \in DOMAIN frameQueue', i < j
        PROVE  frameQueue'[i] < frameQueue'[j]
    <3>1. i + 1 \in DOMAIN frameQueue /\ j + 1 \in DOMAIN frameQueue /\ i + 1 < j + 1
      BY <1>4, <1>6, <2>2
    <3> QED
      BY <3>1, <1>3, <1>6 DEF FramesInOrder
  <2>3. keyDecoded' <= h
    BY <1>2, <1>3, <1>4, <1>7 DEF FramesInOrder, VideoTypes
  <2> QED
    BY <2>1, <2>2, <2>3, <1>2, <1>3, <1>7 DEF FramesInOrder
<1>12. LastTaken' = LastTaken
  <2>1. CASE n = 1
    <3>1. frameQueue' = <<>>
      BY <1>4, <1>5, <2>1, EmptySeq
    <3> QED
      BY <3>1, <2>1, <1>2, <1>4, <1>5 DEF LastTaken
  <2>2. CASE n # 1
    <3>1. n - 1 \in 1 .. n - 1 /\ (n - 1) + 1 = n
      BY <2>2
    <3>2. Len(frameQueue') = n - 1 /\ frameQueue'[n - 1] = frameQueue[n]
      BY <3>1, <1>4, <1>5
    <3>3. frameQueue' # <<>>
      BY <3>1, <3>2, EmptySeq
    <3> QED
      BY <3>2, <3>3, <1>2, <1>5 DEF LastTaken
  <2> QED
    BY <2>1, <2>2
<1>13. ASSUME NEW f \in Nat, h <= f, ReplacedAfter(f)
       PROVE  \A g : g = f => ReplacedAfter(g)'
  <2>1. Asks' = Asks /\ keyframes' = keyframes
    BY <1>2 DEF Asks
  <2>2. ASSUME NEW k \in keyframes, k > f, NEW i \in DOMAIN frameQueue, frameQueue[i] = k
        PROVE  \E j \in DOMAIN frameQueue' : frameQueue'[j] = k
    <3>1. i # 1
      BY <2>2, <1>4, <1>13
    <3> QED
      BY <3>1, <2>2, <1>6
  <2>3. \A k : Coming(k) => Coming(k)'
    BY <1>2 DEF Coming
  <2> QED
    BY <2>1, <2>2, <2>3, <1>13 DEF ReplacedAfter
<1>13a. \A x : LostSince(x) => LostSince(x)'
  BY <1>2 DEF LostSince, GivenUp
<1>14. HolesAreAskedFor'
  BY <1>2, <1>3, <1>12 DEF HolesAreAskedFor, Asks, Coming, LostSince, GivenUp
<1>15. GapsAreAskedFor'
  <2> SUFFICES ASSUME NEW i \in DOMAIN frameQueue', frameQueue'[i] \notin keyframes,
                      frameQueue'[i] # (IF i = 1 THEN h ELSE frameQueue'[i - 1]) + 1,
                      NEW x, x = (IF i = 1 THEN h ELSE frameQueue'[i - 1])
               PROVE  ReplacedAfter(frameQueue[i])' \/ LostSince(x)'
    BY <1>2 DEF GapsAreAskedFor, Before, LostSince, GivenUp
  <2>1. PICK j \in DOMAIN frameQueue : j = i + 1 /\ j > 1 /\ frameQueue'[i] = frameQueue[j]
    BY <1>6
  <2>2. x = frameQueue[j - 1]
    <3>1. i \in Nat /\ j - 1 = i /\ i \in DOMAIN frameQueue
      BY <1>4, <2>1
    <3>2. i # 1 => frameQueue'[i - 1] = frameQueue[i]
      BY <3>1, <1>6
    <3>3. CASE i = 1
      BY <3>1, <3>3, <1>4
    <3>4. CASE i # 1
      BY <3>1, <3>2, <3>4
    <3> QED
      BY <3>3, <3>4
  <2>3. Before(j) = x
    BY <2>1, <2>2 DEF Before
  <2>4. ReplacedAfter(frameQueue[j]) \/ LostSince(Before(j))
    BY <2>1, <2>3, <1>3 DEF GapsAreAskedFor
  <2>5. CASE ReplacedAfter(frameQueue[j])
    <3>1. frameQueue[j] \in Nat
      BY <1>3, LastIsLast
    <3>2. h \in Nat
      BY <1>4
    <3>3. j # 1
      BY <2>1
    <3>4. h < frameQueue[j]
      BY <2>1, <3>3, <1>7
    <3>5. h <= frameQueue[j]
      BY <3>1, <3>2, <3>4
    <3> QED
      BY <2>1, <2>5, <3>1, <3>5, <1>13
  <2>6. CASE LostSince(Before(j))
    BY <2>3, <2>6, <1>2 DEF LostSince, GivenUp
  <2> QED
    BY <2>4, <2>5, <2>6
<1>16. DecodesOrAsks'
  <2> SUFFICES ASSUME ~ decodes'
               PROVE  ReplacedAfter(decoded)' \/ LostSince(keyDecoded)'
    BY DEF DecodesOrAsks
  <2>1. h \notin keyframes /\ ~(decodes /\ h = decoded + 1) /\ keyDecoded' = keyDecoded
    BY <1>2
  <2>1a. ASSUME LostSince(keyDecoded)
         PROVE  LostSince(keyDecoded)'
    BY <2>1, <2>1a, <1>2 DEF LostSince, GivenUp
  <2>2. CASE h # decoded + 1
    <3>1. ReplacedAfter(h) \/ LostSince(decoded)
      BY <2>1, <2>2, <1>3, <1>4, <1>6 DEF GapsAreAskedFor, Before
    <3>2. LostSince(decoded) => LostSince(keyDecoded)
      BY <1>3, VideoAssumption DEF LostSince, FramesInOrder, VideoTypes
    <3> QED
      BY <3>1, <3>2, <2>1a, <1>2, <1>4, <1>13
  <2>3. CASE h = decoded + 1 /\ ~ decodes /\ decoded # 0
    <3>1. ReplacedAfter(decoded) \/ LostSince(keyDecoded)
      BY <2>3, <1>3 DEF DecodesOrAsks
    <3>2. ASSUME NEW k \in keyframes, Coming(k) \/ \E i \in DOMAIN frameQueue : frameQueue[i] = k
          PROVE  k > h
      <4>1. k # h /\ k \in Nat
        BY <2>1, <3>2, <1>3, VideoAssumption DEF VideoTypes
      <4>2. CASE Coming(k)
        BY <4>1, <4>2, <1>3, <1>4, <1>7, VideoAssumption DEF Coming, VideoTypes
      <4>3. CASE \E i \in DOMAIN frameQueue : frameQueue[i] = k
        BY <4>1, <4>3, <1>4, <1>7
      <4> QED
        BY <4>2, <4>3, <3>2
    <3>3. ReplacedAfter(decoded) => ReplacedAfter(h)
      BY <3>2 DEF ReplacedAfter
    <3> QED
      BY <3>1, <3>3, <2>1a, <1>2, <1>4, <1>13
  <2>4. CASE h = decoded + 1 /\ decoded = 0
    <3>1. sentFrames # 0
      BY <2>4, <1>3, <1>7, VideoAssumption DEF VideoTypes
    <3>2. h \in keyframes
      BY <3>1, <2>4, <1>3 DEF BeginsWithKeyframe
    <3> QED
      BY <3>2, <2>1
  <2> QED
    BY <2>1, <2>2, <2>3, <2>4
<1> QED
  BY <1>8, <1>9, <1>10, <1>11, <1>14, <1>15, <1>16 DEF VideoInv

\* What taking a packet may do: a straggler does nothing; the frame it is of is
\* begun or goes on, or is whole and dropped or queued.
LEMMA TakePacketOutcomes ==
    ASSUME VideoTypes, TakePacket, NEW f, f = Head(videoNet).frame
    PROVE  /\ videoNet # <<>> /\ videoNet' = Tail(videoNet)
           /\ UNCHANGED <<sentFrames, hostWants, lostOf, idrAsked, decoded, decodes, keyDecoded, keyframes>>
           /\ clientWants' \in BOOLEAN
           /\ \/ /\ ~ StartsAnew(f) /\ assembling # f
                 /\ UNCHANGED <<assembling, shards, nextFrame, frameQueue, clientWants>>
              \/ /\ StartsAnew(f) \/ assembling = f
                 /\ clientWants \/ LosesCurrent(f) => clientWants'
                 /\ \/ /\ assembling' = f /\ shards' # {}
                       /\ UNCHANGED <<nextFrame, frameQueue>>
                    \/ /\ assembling' = NoFrame /\ nextFrame' = f + 1
                       /\ \/ frameQueue' = frameQueue /\ clientWants'
                          \/ frameQueue' = Append(frameQueue, f)
<1>1. PICK p : p = Head(videoNet)
  OBVIOUS
<1>2. PICK whole : whole \in BOOLEAN /\ whole = (Cardinality(HeldShards(p)) = PACKETS)
  OBVIOUS
<1>3. PICK full : full \in BOOLEAN /\ full = (Len(frameQueue) = FRAME_QUEUE)
  OBVIOUS
<1>4. /\ videoNet # <<>> /\ videoNet' = Tail(videoNet)
      /\ UNCHANGED <<sentFrames, hostWants, lostOf, idrAsked, decoded, decodes, keyDecoded, keyframes>>
      /\ IF ~StartsAnew(f) /\ assembling # f
         THEN UNCHANGED <<assembling, shards, nextFrame, frameQueue, clientWants>>
         ELSE /\ assembling' = IF whole THEN NoFrame ELSE f
              /\ shards' = IF whole THEN {} ELSE HeldShards(p)
              /\ nextFrame' = IF whole THEN f + 1 ELSE nextFrame
              /\ frameQueue' = IF whole /\ ~full THEN Append(frameQueue, f) ELSE frameQueue
              /\ clientWants' = (clientWants \/ LosesCurrent(f) \/ (whole /\ full))
  BY <1>1, <1>2, <1>3 DEF TakePacket
<1>5. HeldShards(p) # {}
  BY DEF HeldShards
<1>6. clientWants \in BOOLEAN
  BY DEF VideoTypes
<1>7. CASE ~StartsAnew(f) /\ assembling # f
  BY <1>4, <1>6, <1>7
<1>8. CASE ~(~StartsAnew(f) /\ assembling # f)
  <2>1. clientWants' \in BOOLEAN /\ (clientWants \/ LosesCurrent(f) \/ (whole /\ full) => clientWants')
    BY <1>4, <1>8
  <2>2. CASE whole
    BY <2>1, <2>2, <1>3, <1>4, <1>8
  <2>3. CASE ~ whole
    BY <2>1, <2>3, <1>4, <1>5, <1>8
  <2> QED
    BY <2>2, <2>3
<1> QED
  BY <1>7, <1>8

\* A frame that begins or goes on has left nothing behind that is not asked for,
\* or was lost whole.
LEMMA NothingIsSkipped ==
    ASSUME VideoTypes, PacketsInOrder, RestIsOnTheWay, FramesInOrder, videoNet # <<>>,
           NEW f, f = Head(videoNet).frame, StartsAnew(f) \/ assembling = f
    PROVE  /\ f \in 1 .. sentFrames /\ assembling <= f /\ nextFrame <= f /\ LastTaken < f
           /\ \A k \in 1 .. sentFrames : Coming(k) /\ k < f => LosesCurrent(f) \/ lostOf[k] = PACKETS
           /\ f > LastTaken + 1 =>
                \/ nextFrame > LastTaken + 1 \/ assembling > LastTaken + 1 \/ LosesCurrent(f)
                \/ \E k \in 1 .. sentFrames : LastTaken < k /\ k < f /\ lostOf[k] = PACKETS
<1>1. 1 \in DOMAIN videoNet /\ f = videoNet[1].frame
  BY HeadOfNet
<1>2. f \in 1 .. sentFrames /\ assembling <= f
  BY <1>1 DEF PacketsInOrder
<1>3. sentFrames \in Nat /\ assembling \in Nat /\ nextFrame \in Nat
  BY VideoAssumption DEF VideoTypes
<1>4. nextFrame <= f
  <2>1. CASE StartsAnew(f)
    BY <2>1, <1>2, <1>3 DEF StartsAnew
  <2>2. CASE assembling = f
    BY <2>2, <1>2, <1>3 DEF FramesInOrder, NoFrame
  <2> QED
    BY <2>1, <2>2
<1>5. LastTaken \in Nat /\ LastTaken < f
  <2>1. LastTaken \in Nat /\ (LastTaken = 0 \/ LastTaken < nextFrame)
    BY LastIsLast
  <2> QED
    BY <2>1, <1>2, <1>3, <1>4
<1>6. ASSUME NEW k \in 1 .. sentFrames, Coming(k), k < f, lostOf[k] # PACKETS
      PROVE  LosesCurrent(f)
  <2>1. assembling # f /\ StartsAnew(f)
    BY <1>2, <1>3, <1>6 DEF Coming
  <2>2. CASE assembling = NoFrame
    <3>1. NotBegun(k)
      BY <2>2, <1>3, <1>6 DEF NotBegun, Coming, NoFrame
    <3>2. f <= k
      BY <3>1, <1>6, NextIsNotLater
    <3> QED
      BY <3>2, <1>2, <1>3, <1>6
  <2>3. CASE assembling # NoFrame
    BY <2>1, <2>3 DEF LosesCurrent, FramesInOrder
  <2> QED
    BY <2>2, <2>3
<1>7. ASSUME f > LastTaken + 1, ~(nextFrame > LastTaken + 1), ~(assembling > LastTaken + 1)
      PROVE  LosesCurrent(f) \/ \E k \in 1 .. sentFrames : LastTaken < k /\ k < f /\ lostOf[k] = PACKETS
  <2>1. PICK k : k = LastTaken + 1
    OBVIOUS
  <2>2. k \in 1 .. sentFrames /\ LastTaken < k /\ k < f /\ nextFrame <= k /\ assembling <= k
    BY <2>1, <1>2, <1>3, <1>5, <1>7
  <2> QED
    BY <2>2, <1>6 DEF Coming
<1> QED
  BY <1>2, <1>4, <1>5, <1>6, <1>7

LEMMA TakingKeeps ==
    ASSUME VideoInv, TakePacket
    PROVE  VideoInv'
<1>1. PICK f : f = Head(videoNet).frame
  OBVIOUS
<1>2. VideoTypes /\ PacketsInOrder /\ RestIsOnTheWay /\ FramesInOrder /\ BeginsWithKeyframe
      /\ HolesAreAskedFor /\ GapsAreAskedFor /\ DecodesOrAsks
  BY DEF VideoInv
<1> DEFINE Same == UNCHANGED <<assembling, shards, nextFrame, frameQueue, clientWants>>
           Goes == StartsAnew(f) \/ assembling = f
           Tells == clientWants \/ LosesCurrent(f) => clientWants'
           Begun == assembling' = f /\ shards' # {} /\ UNCHANGED <<nextFrame, frameQueue>>
           Whole == assembling' = NoFrame /\ nextFrame' = f + 1
           Dropped == frameQueue' = frameQueue /\ clientWants'
           Queued == frameQueue' = Append(frameQueue, f)
<1>3. /\ videoNet # <<>> /\ videoNet' = Tail(videoNet)
      /\ UNCHANGED <<sentFrames, hostWants, lostOf, idrAsked, decoded, decodes, keyDecoded, keyframes>>
      /\ clientWants' \in BOOLEAN
  BY <1>1, <1>2, TakePacketOutcomes
<1>4. (~ StartsAnew(f) /\ assembling # f /\ Same) \/ (Goes /\ Tells /\ (Begun \/ (Whole /\ (Dropped \/ Queued))))
  BY <1>1, <1>2, TakePacketOutcomes
<1>5. f \in 1 .. sentFrames /\ assembling <= f /\ sentFrames \in Nat /\ assembling \in Nat /\ nextFrame \in Nat
  <2>1. 1 \in DOMAIN videoNet /\ f = videoNet[1].frame
    BY <1>1, <1>2, <1>3, HeadOfNet
  <2> QED
    BY <2>1, <1>2, VideoAssumption DEF PacketsInOrder, VideoTypes
<1>6. Goes => nextFrame <= f /\ LastTaken < f
  BY <1>1, <1>2, <1>3, NothingIsSkipped
<1>7. videoNet' \in Seq(VideoPackets)
  BY <1>2, <1>3, TailOfNet
<1>8. /\ frameQueue \in Seq(Nat) /\ Len(frameQueue) \in Nat
      /\ DOMAIN frameQueue = 1 .. Len(frameQueue)
      /\ Append(frameQueue, f) \in Seq(Nat) /\ DOMAIN Append(frameQueue, f) = 1 .. Len(frameQueue) + 1
      /\ Append(frameQueue, f) # <<>> /\ Len(Append(frameQueue, f)) = Len(frameQueue) + 1
      /\ \A i \in 1 .. Len(frameQueue) : Append(frameQueue, f)[i] = frameQueue[i]
      /\ Append(frameQueue, f)[Len(frameQueue) + 1] = f
  <2>1. frameQueue \in Seq(Nat) /\ f \in Nat
    BY <1>2, <1>5 DEF VideoTypes
  <2>2. Append(frameQueue, f) \in Seq(Nat) /\ Append(frameQueue, f) # <<>>
        /\ Len(Append(frameQueue, f)) = Len(frameQueue) + 1
        /\ \A i \in 1 .. Len(frameQueue) : Append(frameQueue, f)[i] = frameQueue[i]
        /\ Append(frameQueue, f)[Len(frameQueue) + 1] = f
    BY <2>1, AppendProperties
  <2>3. Len(frameQueue) \in Nat /\ DOMAIN frameQueue = 1 .. Len(frameQueue)
    BY <2>1, LenProperties
  <2>4. DOMAIN Append(frameQueue, f) = 1 .. Len(Append(frameQueue, f))
    BY <2>2, LenProperties
  <2> QED
    BY <2>1, <2>2, <2>3, <2>4
<1>9. VideoTypes'
  <2>1. frameQueue' \in Seq(Nat)
    BY <1>4, <1>8
  <2>2. assembling' \in 0 .. sentFrames /\ nextFrame' \in 0 .. sentFrames + 1
    <3>1. assembling' \in {NoFrame, assembling, f} /\ nextFrame' \in {nextFrame, f + 1}
      BY <1>4
    <3>2. assembling \in 0 .. sentFrames /\ nextFrame \in 0 .. sentFrames + 1
      BY <1>2 DEF VideoTypes
    <3> QED
      BY <3>1, <3>2, <1>5 DEF NoFrame
  <2> QED
    BY <2>1, <2>2, <1>2, <1>3, <1>7 DEF VideoTypes
<1>10. PacketsInOrder'
  <2>1. assembling' \in {NoFrame, assembling, Head(videoNet).frame}
    BY <1>1, <1>4
  <2> QED
    BY <2>1, <1>2, <1>3, TailKeepsOrder
<1>11. RestIsOnTheWay'
  <2> SUFFICES ASSUME NEW k \in 1 .. sentFrames, NotBegun(k)'
               PROVE  (IsFiniteSet(OnTheWay(k)) /\ Cardinality(OnTheWay(k)) + lostOf[k] >= PACKETS)'
    BY <1>3 DEF RestIsOnTheWay
  <2>1. NotBegun(k) /\ k # f
    <3>1. nextFrame' <= k /\ assembling' < k /\ k \in Nat
      BY <1>5 DEF NotBegun
    <3>2. CASE ~ StartsAnew(f) /\ assembling # f /\ Same
      <4>1. nextFrame <= k /\ assembling < k
        BY <3>1, <3>2
      <4>2. k # f
        BY <4>1, <3>2, <1>5 DEF StartsAnew
      <4> QED
        BY <4>1, <4>2 DEF NotBegun
    <3>3. CASE Goes /\ Begun
      BY <3>1, <3>3, <1>5 DEF NotBegun
    <3>4. CASE Goes /\ Whole
      BY <3>1, <3>4, <1>5, <1>6 DEF NotBegun
    <3> QED
      BY <3>2, <3>3, <3>4, <1>4
  <2>2. lostOf' = lostOf /\ k # Head(videoNet).frame
    BY <2>1, <1>1, <1>3
  <2> QED
    BY <2>1, <2>2, <1>2, <1>3, <1>9, OneLessOnTheWay
<1>12. BeginsWithKeyframe'
  BY <1>2, <1>3 DEF BeginsWithKeyframe
<1>13. /\ LastTaken \in Nat /\ decoded <= LastTaken /\ decoded \in Nat
       /\ \A i \in DOMAIN frameQueue : frameQueue[i] \in Nat /\ frameQueue[i] <= LastTaken
       /\ frameQueue # <<>> => frameQueue[Len(frameQueue)] = LastTaken
  BY <1>2, LastIsLast DEF VideoTypes
<1>13a. \A k \in 1 .. sentFrames : GivenUp(k) => GivenUp(k)'
  <2> TAKE k \in 1 .. sentFrames
  <2> HAVE GivenUp(k)
  <2>1. k < nextFrame \/ k < assembling
    BY DEF GivenUp
  <2>2. k \in Nat
    BY <1>5
  <2>3. CASE Same
    BY <2>1, <2>3 DEF GivenUp
  <2>4. CASE Goes /\ Begun
    BY <2>1, <2>2, <2>4, <1>5, <1>6 DEF GivenUp
  <2>5. CASE Goes /\ Whole
    BY <2>1, <2>2, <2>5, <1>5, <1>6 DEF GivenUp
  <2> QED
    BY <2>3, <2>4, <2>5, <1>4
<1>13b. \A x : LostSince(x) => LostSince(x)'
  BY <1>3, <1>13a DEF LostSince
<1>13c. Goes /\ (Begun \/ Whole) => \A k \in 1 .. sentFrames : k < f => GivenUp(k)'
  <2> SUFFICES ASSUME Goes, Begun \/ Whole, NEW k \in 1 .. sentFrames, k < f
               PROVE  k < nextFrame' \/ k < assembling'
    BY DEF GivenUp
  <2> QED
    BY <1>5
<1>14. CASE ~ StartsAnew(f) /\ assembling # f /\ Same
  <2>1. FramesInOrder'
    BY <1>2, <1>3, <1>14 DEF FramesInOrder
  <2>2. HolesAreAskedFor' /\ GapsAreAskedFor' /\ DecodesOrAsks'
    BY <1>2, <1>3, <1>14 DEF HolesAreAskedFor, GapsAreAskedFor, DecodesOrAsks, ReplacedAfter, LastTaken, Coming, Asks,
       Before, LostSince, GivenUp
  <2> QED
    BY <2>1, <2>2, <1>9, <1>10, <1>11, <1>12 DEF VideoInv
<1>15. CASE Goes /\ Tells /\ Begun
  <2>1. FramesInOrder'
    BY <1>2, <1>3, <1>6, <1>15 DEF FramesInOrder
  <2>2. CASE Asks'
    BY <2>1, <2>2, <1>9, <1>10, <1>11, <1>12, AskingIsEnough DEF VideoInv
  <2>3. CASE ~ Asks'
    <3>1. ~ Asks /\ ~ LosesCurrent(f)
      BY <2>3, <1>3, <1>15 DEF Asks
    <3>2. ASSUME NEW k \in keyframes, Coming(k), NEW x, k > x
          PROVE  Coming(k)' \/ LostSince(x)'
      <4>1. k \in 1 .. sentFrames
        BY <1>2 DEF VideoTypes
      <4>2. CASE k < f
        <5>1. lostOf[k] = PACKETS
          BY <4>1, <4>2, <3>1, <3>2, <1>1, <1>2, <1>3, <1>15, NothingIsSkipped
        <5> QED
          BY <5>1, <4>1, <4>2, <3>2, <1>3, <1>13c, <1>15 DEF LostSince
      <4>3. CASE f <= k
        BY <4>3, <3>2, <1>15 DEF Coming
      <4> QED
        BY <4>1, <4>2, <4>3, <1>5
    <3>3. HolesAreAskedFor'
      <4>1. LastTaken' = LastTaken
        BY <1>3, <1>15 DEF LastTaken
      <4>2. PICK l : l = LastTaken
        OBVIOUS
      <4>3. CASE nextFrame > l + 1 \/ assembling > l + 1
        <5>1. (\E k \in keyframes : k > l /\ Coming(k)) \/ LostSince(l)
          BY <4>2, <4>3, <3>1, <1>2 DEF HolesAreAskedFor
        <5>2. (\E k \in keyframes : k > l /\ Coming(k)') \/ LostSince(l)'
          BY <5>1, <3>2, <1>13b
        <5> QED
          BY <5>2, <4>1, <4>2, <1>3 DEF HolesAreAskedFor, LostSince
      <4>4. CASE ~(nextFrame > l + 1 \/ assembling > l + 1)
        <5>1. CASE f > l + 1
          <6>1. PICK k \in 1 .. sentFrames : l < k /\ k < f /\ lostOf[k] = PACKETS
            BY <5>1, <4>2, <4>4, <3>1, <1>1, <1>2, <1>3, <1>15, NothingIsSkipped
          <6>2. l \in Nat /\ k > l
            BY <6>1, <4>2, <1>5, <1>13
          <6>3. LostSince(l)'
            BY <6>1, <6>2, <1>3, <1>13c, <1>15 DEF LostSince
          <6> QED
            BY <6>3, <4>1, <4>2 DEF HolesAreAskedFor, LostSince
        <5>2. CASE ~ f > l + 1
          BY <5>2, <4>1, <4>2, <4>4, <1>15 DEF HolesAreAskedFor
        <5> QED
          BY <5>1, <5>2
      <4> QED
        BY <4>3, <4>4
    <3>4. ASSUME NEW x, NEW y, y <= x, x \in Nat, y \in Nat, ReplacedAfter(x) \/ LostSince(y)
          PROVE  \A u, v : u = x /\ v = y => ReplacedAfter(u)' \/ LostSince(v)'
      <4>1. CASE LostSince(y)
        BY <4>1, <1>13b
      <4>2. CASE ReplacedAfter(x)
        <5>1. PICK k \in keyframes : k > x /\ (Coming(k) \/ \E i \in DOMAIN frameQueue : frameQueue[i] = k)
          BY <4>2, <3>1 DEF ReplacedAfter
        <5>2. k > y /\ k \in keyframes' /\ frameQueue' = frameQueue
          <6>1. k \in Nat
            BY <1>2, <1>5 DEF VideoTypes
          <6> QED
            BY <6>1, <5>1, <3>4, <1>3, <1>15
        <5>3. Coming(k) => Coming(k)' \/ LostSince(y)'
          BY <5>2, <3>2
        <5> QED
          BY <5>1, <5>2, <5>3 DEF ReplacedAfter
      <4> QED
        BY <4>1, <4>2, <3>4
    <3>5. GapsAreAskedFor' /\ DecodesOrAsks'
      <4>1. frameQueue' = frameQueue /\ decoded' = decoded /\ keyDecoded' = keyDecoded /\ decodes' = decodes
            /\ keyframes' = keyframes
        BY <1>3, <1>15
      <4>2. \A i \in DOMAIN frameQueue : frameQueue[i] \in Nat /\ Before(i) \in Nat /\ Before(i) <= frameQueue[i]
        BY <1>2, <1>13, BeforeIsLess
      <4>3. decoded \in Nat /\ keyDecoded \in Nat /\ keyDecoded <= decoded
        BY <1>2 DEF VideoTypes, FramesInOrder
      <4>4. GapsAreAskedFor'
        <5> SUFFICES ASSUME NEW i \in DOMAIN frameQueue, frameQueue[i] \notin keyframes,
                            frameQueue[i] # Before(i) + 1, NEW u, u = frameQueue[i], NEW v, v = Before(i)
                     PROVE  ReplacedAfter(u)' \/ LostSince(v)'
          BY <4>1 DEF GapsAreAskedFor, Before, ReplacedAfter, LostSince
        <5>1. ReplacedAfter(u) \/ LostSince(v)
          BY <1>2 DEF GapsAreAskedFor
        <5> QED
          BY <5>1, <4>2, <3>4
      <4>5. DecodesOrAsks'
        <5> SUFFICES ASSUME ~ decodes, decoded # 0, NEW u, u = decoded, NEW v, v = keyDecoded
                     PROVE  ReplacedAfter(u)' \/ LostSince(v)'
          BY <4>1 DEF DecodesOrAsks, ReplacedAfter, LostSince
        <5>1. ReplacedAfter(u) \/ LostSince(v)
          BY <1>2 DEF DecodesOrAsks
        <5> QED
          BY <5>1, <4>3, <3>4
      <4> QED
        BY <4>4, <4>5
    <3> QED
      BY <3>3, <3>5, <2>1, <1>9, <1>10, <1>11, <1>12 DEF VideoInv
  <2> QED
    BY <2>2, <2>3
<1>16. CASE Goes /\ Tells /\ Whole /\ Dropped
  <2>1. Asks'
    BY <1>16 DEF Asks
  <2>2. FramesInOrder'
    <3>1. \A i \in DOMAIN frameQueue : frameQueue[i] < f + 1
      BY <1>5, <1>6, <1>13, <1>16
    <3>2. decoded < f + 1
      BY <1>5, <1>6, <1>13, <1>16
    <3> QED
      BY <3>1, <3>2, <1>2, <1>3, <1>16 DEF FramesInOrder
  <2> QED
    BY <2>1, <2>2, <1>9, <1>10, <1>11, <1>12, AskingIsEnough DEF VideoInv
<1>17. CASE Goes /\ Tells /\ Whole /\ Queued
  <2>1. PICK n \in Nat : n = Len(frameQueue)
    BY <1>8
  <2>2. /\ DOMAIN frameQueue = 1 .. n /\ DOMAIN frameQueue' = 1 .. n + 1
        /\ \A i \in 1 .. n : frameQueue'[i] = frameQueue[i] /\ frameQueue[i] \in Nat /\ frameQueue[i] < f
        /\ frameQueue'[n + 1] = f /\ LastTaken' = f
    <3>1. frameQueue' = Append(frameQueue, f)
      BY <1>17
    <3>2. LastTaken' = f
      BY <3>1, <1>8 DEF LastTaken
    <3>3. LastTaken < f /\ DOMAIN frameQueue = 1 .. n
      BY <2>1, <1>6, <1>8, <1>17
    <3>4. ASSUME NEW i \in 1 .. n
          PROVE  frameQueue[i] \in Nat /\ frameQueue[i] < f
      <4>1. frameQueue[i] \in Nat /\ frameQueue[i] <= LastTaken
        BY <3>3, <1>13
      <4> QED
        BY <4>1, <3>3, <1>5, <1>13
    <3>5. DOMAIN frameQueue' = 1 .. n + 1 /\ frameQueue'[n + 1] = f
      BY <3>1, <2>1, <1>8
    <3>6. \A i \in 1 .. n : frameQueue'[i] = frameQueue[i]
      BY <3>1, <2>1, <1>8
    <3> QED
      BY <3>2, <3>3, <3>4, <3>5, <3>6
  <2>3. \A i \in 1 .. n + 1 : i \in 1 .. n \/ i = n + 1
    OBVIOUS
  <2>4. FramesInOrder'
    <3>1. decoded < f
      BY <1>5, <1>6, <1>13, <1>17
    <3>2. ASSUME NEW i \in 1 .. n + 1
          PROVE  decoded < frameQueue'[i] /\ frameQueue'[i] < f + 1
      <4>1. CASE i \in 1 .. n
        <5>1. decoded < frameQueue[i] /\ frameQueue[i] \in Nat /\ frameQueue[i] < f
          BY <4>1, <2>2, <1>2 DEF FramesInOrder
        <5>2. frameQueue'[i] = frameQueue[i]
          BY <4>1, <2>2
        <5>3. f \in Nat
          BY <1>5
        <5> QED
          BY <5>1, <5>2, <5>3
      <4>2. CASE i = n + 1
        BY <4>2, <2>2, <3>1, <1>5
      <4> QED
        BY <4>1, <4>2, <2>3
    <3>3. ASSUME NEW i \in 1 .. n + 1, NEW j \in 1 .. n + 1, i < j
          PROVE  frameQueue'[i] < frameQueue'[j]
      <4>1. i \in 1 .. n
        BY <3>3
      <4>2. CASE j \in 1 .. n
        BY <4>1, <4>2, <3>3, <2>2, <1>2 DEF FramesInOrder
      <4>3. CASE j = n + 1
        BY <4>1, <4>3, <2>2
      <4> QED
        BY <4>2, <4>3, <2>3
    <3>4. decoded < f + 1
      BY <3>1, <1>5, <1>13
    <3>5. assembling' = NoFrame /\ nextFrame' = f + 1 /\ decoded' = decoded /\ keyDecoded' = keyDecoded
      BY <1>3, <1>17
    <3>6. keyDecoded <= decoded
      BY <1>2 DEF FramesInOrder
    <3> QED
      BY <3>2, <3>3, <3>4, <3>5, <3>6, <2>2 DEF FramesInOrder
  <2>5. CASE Asks'
    BY <2>4, <2>5, <1>9, <1>10, <1>11, <1>12, AskingIsEnough DEF VideoInv
  <2>6. CASE ~ Asks'
    <3>1. ~ Asks /\ ~ LosesCurrent(f)
      BY <2>6, <1>3, <1>17 DEF Asks
    <3>2. ASSUME NEW k \in keyframes, Coming(k), NEW x, k > x
          PROVE  Coming(k)' \/ k = f \/ LostSince(x)'
      <4>1. k \in 1 .. sentFrames
        BY <1>2 DEF VideoTypes
      <4>2. CASE k < f
        <5>1. lostOf[k] = PACKETS
          BY <4>1, <4>2, <3>1, <3>2, <1>1, <1>2, <1>3, <1>17, NothingIsSkipped
        <5> QED
          BY <5>1, <4>1, <4>2, <3>2, <1>3, <1>13c, <1>17 DEF LostSince
      <4>3. CASE f < k
        BY <4>1, <4>3, <1>5, <1>17 DEF Coming, NoFrame
      <4> QED
        BY <4>1, <4>2, <4>3, <1>5
    <3>3. HolesAreAskedFor'
      <4>1. ~(f + 1 > f + 1) /\ ~(NoFrame > f + 1)
        BY <1>5 DEF NoFrame
      <4> QED
        BY <4>1, <2>2, <1>17 DEF HolesAreAskedFor
    <3>4. ASSUME NEW x, NEW y, y <= x, x \in Nat, y \in Nat, ReplacedAfter(x) \/ LostSince(y)
          PROVE  \A u, v : u = x /\ v = y => ReplacedAfter(u)' \/ LostSince(v)'
      <4>1. CASE LostSince(y)
        BY <4>1, <1>13b
      <4>2. CASE ReplacedAfter(x)
        <5>1. PICK k \in keyframes : k > x /\ (Coming(k) \/ \E i \in DOMAIN frameQueue : frameQueue[i] = k)
          BY <4>2, <3>1 DEF ReplacedAfter
        <5>2. k > y /\ k \in keyframes'
          <6>1. k \in Nat
            BY <1>2, <1>5 DEF VideoTypes
          <6> QED
            BY <6>1, <5>1, <3>4, <1>3
        <5>3. LostSince(y)' \/ Coming(k)' \/ \E i \in DOMAIN frameQueue' : frameQueue'[i] = k
          <6>1. CASE \E i \in DOMAIN frameQueue : frameQueue[i] = k
            BY <6>1, <2>2
          <6>2. CASE Coming(k)
            BY <6>2, <5>2, <3>2, <2>2
          <6> QED
            BY <6>1, <6>2, <5>1
        <5> QED
          BY <5>1, <5>2, <5>3 DEF ReplacedAfter
      <4> QED
        BY <4>1, <4>2, <3>4
    <3>5. ASSUME NEW i \in 1 .. n, NEW v, v = Before(i), frameQueue[i] \notin keyframes, frameQueue[i] # v + 1,
                 NEW u, u = frameQueue[i]
          PROVE  ReplacedAfter(u)' \/ LostSince(v)'
      <4>1. ReplacedAfter(u) \/ LostSince(v)
        BY <3>5, <2>2, <1>2 DEF GapsAreAskedFor
      <4>2. v \in Nat /\ v <= u /\ u \in Nat
        BY <3>5, <2>2, <1>2, BeforeIsLess
      <4> QED
        BY <4>1, <4>2, <3>4
    <3>6. ASSUME f \notin keyframes, NEW v, v = LastTaken, f # v + 1, NEW u, u = f
          PROVE  ReplacedAfter(u)' \/ LostSince(v)'
      <4>1. v \in Nat /\ v < f /\ f > v + 1
        BY <3>6, <1>5, <1>6, <1>13, <1>17
      <4>2. CASE nextFrame > v + 1 \/ assembling > v + 1
        <5>1. (\E k \in keyframes : k > v /\ Coming(k)) \/ LostSince(v)
          BY <4>2, <3>1, <3>6, <1>2 DEF HolesAreAskedFor
        <5>2. CASE LostSince(v)
          BY <5>2, <1>13b
        <5>3. ASSUME NEW k \in keyframes, k > v, Coming(k)
              PROVE  ReplacedAfter(u)' \/ LostSince(v)'
          <6>1. k \in 1 .. sentFrames /\ k # f
            BY <3>6, <1>2 DEF VideoTypes
          <6>2. CASE k < f
            <7>1. lostOf[k] = PACKETS
              BY <6>1, <6>2, <5>3, <3>1, <1>1, <1>2, <1>3, <1>17, NothingIsSkipped
            <7> QED
              BY <7>1, <6>1, <6>2, <5>3, <1>3, <1>13c, <1>17 DEF LostSince
          <6>3. CASE k > f
            <7>1. Coming(k)'
              BY <6>1, <6>3, <1>5, <1>17 DEF Coming, NoFrame
            <7> QED
              BY <7>1, <6>3, <3>6, <5>3, <1>3 DEF ReplacedAfter
          <6> QED
            BY <6>1, <6>2, <6>3, <1>5
        <5> QED
          BY <5>1, <5>2, <5>3
      <4>3. CASE ~(nextFrame > v + 1 \/ assembling > v + 1)
        <5>1. PICK k \in 1 .. sentFrames : v < k /\ k < f /\ lostOf[k] = PACKETS
          BY <4>1, <4>3, <3>1, <3>6, <1>1, <1>2, <1>3, <1>17, NothingIsSkipped
        <5>2. k > v
          BY <5>1, <4>1, <1>5
        <5> QED
          BY <5>1, <5>2, <1>3, <1>13c, <1>17 DEF LostSince
      <4> QED
        BY <4>2, <4>3
    <3>7. GapsAreAskedFor'
      <4> SUFFICES ASSUME NEW i \in 1 .. n + 1,
                          NEW u, u = frameQueue'[i], NEW v, v = (IF i = 1 THEN decoded ELSE frameQueue'[i - 1]),
                          u \notin keyframes, u # v + 1
                   PROVE  ReplacedAfter(u)' \/ LostSince(v)'
        BY <2>2, <1>3 DEF GapsAreAskedFor, Before, ReplacedAfter, LostSince
      <4>1. CASE i \in 1 .. n
        <5>1. u = frameQueue[i]
          BY <4>1, <2>2
        <5>2. v = Before(i)
          <6>1. i # 1 => i - 1 \in 1 .. n
            BY <4>1
          <6> QED
            BY <6>1, <2>2 DEF Before
        <5> QED
          BY <5>1, <5>2, <4>1, <3>5
      <4>2. CASE i = n + 1
        <5>1. v = LastTaken
          <6>1. CASE n = 0
            <7>1. frameQueue = <<>>
              BY <6>1, <2>1, <1>8, EmptySeq
            <7> QED
              BY <6>1, <7>1, <4>2 DEF LastTaken
          <6>2. CASE n # 0
            <7>1. n \in 1 .. n /\ (n + 1) - 1 = n /\ n + 1 # 1
              BY <6>2
            <7>2. frameQueue # <<>>
              BY <6>2, <2>1, EmptySeq
            <7> QED
              BY <7>1, <7>2, <4>2, <2>1, <2>2, <1>13
          <6> QED
            BY <6>1, <6>2
        <5>2. u = f
          BY <4>2, <2>2
        <5> QED
          BY <5>1, <5>2, <3>6
      <4> QED
        BY <4>1, <4>2, <2>3
    <3>8. DecodesOrAsks'
      <4> SUFFICES ASSUME ~ decodes, decoded # 0, NEW u, u = decoded, NEW v, v = keyDecoded
                   PROVE  ReplacedAfter(u)' \/ LostSince(v)'
        BY <1>3 DEF DecodesOrAsks, ReplacedAfter, LostSince
      <4>1. ReplacedAfter(u) \/ LostSince(v)
        BY <1>2 DEF DecodesOrAsks
      <4>2. u \in Nat /\ v \in Nat /\ v <= u
        BY <1>2 DEF VideoTypes, FramesInOrder
      <4> QED
        BY <4>1, <4>2, <3>4
    <3> QED
      BY <3>3, <3>7, <3>8, <2>4, <1>9, <1>10, <1>11, <1>12 DEF VideoInv
  <2> QED
    BY <2>5, <2>6
<1> QED
  BY <1>4, <1>14, <1>15, <1>16, <1>17

LEMMA VideoBegins ==
    ASSUME GameVideoInit
    PROVE  VideoInv
<1> USE DEF GameVideoInit
<1>1. DOMAIN videoNet = {} /\ DOMAIN frameQueue = {} /\ videoNet \in Seq(VideoPackets) /\ frameQueue \in Seq(Nat)
  BY EmptySeq
<1>2. lostOf \in [1 .. MaxGameFrames -> 0 .. LostPerFrame]
  <2>1. 0 \in 0 .. LostPerFrame
    BY VideoAssumption
  <2> QED
    BY <2>1
<1>3. VideoTypes
  <2>1. sentFrames \in 0 .. MaxGameFrames /\ assembling \in 0 .. sentFrames /\ nextFrame \in 0 .. sentFrames + 1
    BY VideoAssumption DEF NoFrame
  <2> QED
    BY <1>1, <1>2, <2>1 DEF VideoTypes
<1>4. PacketsInOrder /\ RestIsOnTheWay /\ FramesInOrder /\ BeginsWithKeyframe
  BY <1>1 DEF PacketsInOrder, RestIsOnTheWay, FramesInOrder, BeginsWithKeyframe
<1>5. HolesAreAskedFor /\ GapsAreAskedFor /\ DecodesOrAsks
  BY <1>1 DEF HolesAreAskedFor, GapsAreAskedFor, DecodesOrAsks, Asks
<1> QED
  BY <1>3, <1>4, <1>5 DEF VideoInv

\* While the picture of a GameStream client cannot be decoded, a keyframe is
\* wanted, asked for or coming, however many packets of however many frames are
\* lost or dropped, unless a frame was lost whole since the last keyframe the
\* program decoded: that one the depacketizer does not notice (video.rs).
THEOREM LossesAreRepaired == GameVideoSpec => []LossAsksForKeyframe
<1>1. GameVideoInit => VideoInv
  BY VideoBegins
<1>2. VideoInv /\ [GameVideoNext]_videoVars => VideoInv'
  <2> SUFFICES ASSUME VideoInv, [GameVideoNext]_videoVars
               PROVE  VideoInv'
    OBVIOUS
  <2>1. CASE GameVideoNext
    BY <2>1, SendingKeeps, LosingKeeps, AskingKeeps, TakingKeeps, DecodingKeeps DEF GameVideoNext
  <2>2. CASE UNCHANGED videoVars
    <3>1. VideoTypes' /\ PacketsInOrder' /\ FramesInOrder' /\ BeginsWithKeyframe'
      BY <2>2 DEF videoVars, VideoInv, VideoTypes, PacketsInOrder, FramesInOrder, BeginsWithKeyframe
    <3>2. RestIsOnTheWay'
      BY <2>2 DEF videoVars, VideoInv, RestIsOnTheWay, NotBegun, OnTheWay
    <3>3. HolesAreAskedFor' /\ GapsAreAskedFor' /\ DecodesOrAsks'
      BY <2>2 DEF videoVars, VideoInv, HolesAreAskedFor, GapsAreAskedFor, DecodesOrAsks, ReplacedAfter, LastTaken, Coming, Asks,
         Before, LostSince, GivenUp
    <3> QED
      BY <3>1, <3>2, <3>3 DEF VideoInv
  <2> QED
    BY <2>1, <2>2
<1>3. VideoInv => LossAsksForKeyframe
  <2> SUFFICES ASSUME VideoInv, ~ decodes, decoded # 0
               PROVE  KeyframeOnItsWay \/ LostUnnoticed
    BY DEF LossAsksForKeyframe
  <2>1. VideoTypes /\ (ReplacedAfter(decoded) \/ LostSince(keyDecoded))
    BY DEF VideoInv, DecodesOrAsks
  <2>2. \A k \in 1 .. sentFrames : Coming(k) => ~ GivenUp(k)
    BY <2>1, VideoAssumption DEF VideoTypes, Coming, GivenUp
  <2>3. CASE ReplacedAfter(decoded)
    BY <2>1, <2>2, <2>3 DEF ReplacedAfter, Asks, KeyframeOnItsWay, VideoTypes
  <2>4. CASE LostSince(keyDecoded)
    <3>1. DOMAIN lostOf = 1 .. MaxGameFrames /\ \A k \in 1 .. sentFrames : k \in 1 .. MaxGameFrames
      BY <2>1, VideoAssumption DEF VideoTypes
    <3> QED
      BY <2>4, <3>1 DEF LostSince, LostUnnoticed
  <2> QED
    BY <2>1, <2>3, <2>4
<1> QED
  BY <1>1, <1>2, <1>3, PTL DEF GameVideoSpec

-----------------------------------------------------------------------------
(* The microphone.  One thread at most is not over, the one the app holds,   *)
(* and how far it is with undoing what was begun for it tells what there is. *)

NothingOf(n) == micThread[n] \in {"none", "gone"}

MicTyped ==
    /\ switch \in MicThreads \cup {0} /\ appAt \in {"idle", "attached", "joining"}
    /\ micThread \in [MicThreads -> {"none", "running", "leaving", "detaching", "gone"}]
    /\ micState \in BOOLEAN /\ micTracks \in 0 .. MaxMicThreads

\* Tracks are given out in order, each to one thread.
TracksAreNew ==
    \A n \in MicThreads :
        n > micTracks \/ (appAt = "attached" /\ n = micTracks) => micThread[n] = "none"

\* What the thread in hand has, by how far it came.
InHand ==
    /\ switch # 0 => appAt # "attached" /\ micThread[switch] # "none"
    /\ \A n \in MicThreads : n # switch => NothingOf(n)
    /\ switch = 0 => appAt # "joining" /\ ~micState
    /\ switch = 0 /\ appAt = "idle" => micTrack = 0
    /\ appAt = "attached" => micTracks # 0 /\ micTrack = micTracks
    /\ switch # 0 =>
         /\ micThread[switch] \in {"running", "leaving"} => micState
         /\ micThread[switch] \in {"detaching", "gone"} => ~micState
         /\ micTrack = IF micThread[switch] = "gone" THEN 0 ELSE switch

MicIInv == MicTyped /\ TracksAreNew /\ InHand

LEMMA MicInitial == MicInit => MicIInv
<1> SUFFICES ASSUME MicInit PROVE MicIInv
  OBVIOUS
<1>1. /\ switch = 0 /\ appAt = "idle" /\ ~micState /\ micState = FALSE /\ micTrack = 0 /\ micTracks = 0
      /\ micThread \in [MicThreads -> {"none", "running", "leaving", "detaching", "gone"}]
      /\ \A n \in MicThreads : micThread[n] = "none"
  BY DEF MicInit
<1>2. MicTyped
  <2>1. 0 \in 0 .. MaxMicThreads
    BY ClientSoundAssumption
  <2>2. micState \in BOOLEAN
    BY <1>1
  <2> QED
    BY <1>1, <2>1, <2>2 DEF MicTyped
<1>3. TracksAreNew
  BY <1>1 DEF TracksAreNew
<1>4. InHand
  BY <1>1 DEF InHand, NothingOf
<1> QED
  BY <1>2, <1>3, <1>4 DEF MicIInv

LEMMA SwitchingKeeps ==
    ASSUME MicIInv, AttachesMicrophone \/ StartsMicrophone \/ DropsMicrophone
                     \/ JoinsMicrophone \/ TakesFailed
    PROVE  MicIInv'
<1> USE DEF MicIInv, MicTyped, TracksAreNew, InHand, NothingOf, MicThreads
<1>1. CASE AttachesMicrophone
  BY <1>1, ClientSoundAssumption DEF AttachesMicrophone
<1>2. CASE StartsMicrophone
  <2>1. micTracks \in MicThreads /\ switch = 0
    BY <1>2, ClientSoundAssumption DEF StartsMicrophone
  <2> QED
    BY <1>2, <2>1 DEF StartsMicrophone, StartMicrophone
<1>3. CASE DropsMicrophone
  BY <1>3 DEF DropsMicrophone
<1>4. CASE JoinsMicrophone
  BY <1>4 DEF JoinsMicrophone, Joined
<1>5. CASE TakesFailed
  BY <1>5 DEF TakesFailed, MicFailed
<1> QED
  BY <1>1, <1>2, <1>3, <1>4, <1>5

LEMMA MicThreadKeeps ==
    ASSUME MicIInv, NEW n \in MicThreads,
           RunsMicrophone(n) \/ LeavesMicrophone(n) \/ StopsMicrophone(n) \/ DetachesMicrophone(n)
    PROVE  MicIInv'
<1>1. CASE micThread' = micThread
  BY <1>1, ClientSoundAssumption
     DEF RunsMicrophone, LeavesMicrophone, StopsMicrophone, DetachesMicrophone,
              MicIInv, MicTyped, TracksAreNew, InHand, NothingOf, MicThreads
<1>2. CASE micThread' # micThread
  <2>1. n = switch /\ UNCHANGED <<switch, appAt, micTracks>> /\ micThread[n] \notin {"none", "gone"}
    BY <1>2 DEF RunsMicrophone, LeavesMicrophone, StopsMicrophone, DetachesMicrophone,
                MicIInv, InHand, NothingOf
  <2>2. \A m \in MicThreads : m # n => micThread'[m] = micThread[m]
    BY DEF RunsMicrophone, LeavesMicrophone, StopsMicrophone, DetachesMicrophone, MicIInv, MicTyped
  <2>3. MicTyped'
    BY <2>1, ClientSoundAssumption
       DEF RunsMicrophone, LeavesMicrophone, StopsMicrophone, DetachesMicrophone, MicIInv, MicTyped, MicThreads
  <2>4. TracksAreNew'
    BY <2>1, <2>2 DEF MicIInv, TracksAreNew
  <2>5. n # 0
    BY ClientSoundAssumption DEF MicThreads
  <2>6. ASSUME NEW s, micThread' = [micThread EXCEPT ![n] = s],
               s \in {"leaving", "detaching", "gone"},
               s = "leaving" => UNCHANGED <<micState, micTrack>> /\ micState /\ micTrack = switch,
               s = "detaching" => UNCHANGED micTrack /\ ~micState' /\ micTrack = switch,
               s = "gone" => micTrack' = 0 /\ ~micState'
        PROVE  InHand'
    <3>1. micThread'[n] = s
      BY <2>6 DEF MicIInv, MicTyped
    <3> QED
      BY <2>1, <2>2, <2>5, <2>6, <3>1 DEF MicIInv, InHand, NothingOf
  <2>7. InHand'
    <3>1. CASE RunsMicrophone(n) \/ LeavesMicrophone(n)
      <4>1. micThread' = [micThread EXCEPT ![n] = "leaving"] /\ UNCHANGED <<micState, micTrack>>
        BY <1>2, <3>1 DEF RunsMicrophone, LeavesMicrophone
      <4>2. micState /\ micTrack = switch
        BY <2>1, <2>5, <3>1 DEF RunsMicrophone, LeavesMicrophone, MicIInv, InHand
      <4> QED
        BY <2>6, <4>1, <4>2
    <3>2. CASE StopsMicrophone(n)
      BY <2>1, <2>5, <2>6, <3>2 DEF StopsMicrophone, MicIInv, InHand
    <3>3. CASE DetachesMicrophone(n)
      BY <2>1, <2>5, <2>6, <3>3 DEF DetachesMicrophone, MicIInv, InHand
    <3> QED
      BY <3>1, <3>2, <3>3
  <2> QED
    BY <2>3, <2>4, <2>7 DEF MicIInv
<1> QED
  BY <1>1, <1>2

LEMMA MicInductive == MicIInv /\ [MicNext]_micVars => MicIInv'
<1> SUFFICES ASSUME MicIInv, [MicNext]_micVars PROVE MicIInv'
  OBVIOUS
<1>1. CASE UNCHANGED <<switch, appAt, micThread, micState, micTrack, micTracks>>
  BY <1>1 DEF MicIInv, MicTyped, TracksAreNew, InHand, NothingOf
<1>2. CASE MicNext
  <2>1. ASSUME NEW n \in MicThreads,
               OpensSink(n) \/ DeviceOpens(n) \/ RemoteEnds(n) \/ UnloadsModules(n)
        PROVE  MicIInv'
    BY <2>1, <1>1 DEF OpensSink, DeviceOpens, LoadsModule, KeepsSpeakers, RemoteEnds,
                      UnloadsModules, micClient
  <2> QED
    BY <1>2, <2>1, SwitchingKeeps, MicThreadKeeps DEF MicNext
<1> QED
  BY <1>1, <1>2 DEF micVars

\* What is sent is as the user switched it, whatever a thread before it still had to
\* undo (client-windows microphone.rs, client-core stop_microphone).
THEOREM MicrophoneStaysAsSwitched == MicSpec => []MicrophoneIsAsSwitched
<1>1. MicIInv => MicrophoneIsAsSwitched
  BY DEF MicIInv, MicTyped, InHand, MicrophoneIsAsSwitched
<1> QED
  BY <1>1, MicInitial, MicInductive, PTL DEF MicSpec

-----------------------------------------------------------------------------
(* The sound of a GameStream client.  drain is a recursive function: it is   *)
(* unfolded into its rounds, and what each round keeps holds after all.      *)

\* A set of numbers with 0 and the successor of each is all of them.
LEMMA Inductive ==
    ASSUME NEW S, 0 \in S, \A n \in Nat : n \in S => n + 1 \in S
    PROVE  Nat \subseteq S
<1> SUFFICES ASSUME Nat \ S # {} PROVE FALSE
  OBVIOUS
<1>1. PICK i \in Nat \ S : \A j \in Nat \ S : i <= j
  BY LeastOf
<1>2. i # 0 /\ i - 1 \in Nat
  BY <1>1
<1>3. i - 1 \in S
  BY <1>1, <1>2
<1> QED
  BY <1>1, <1>2, <1>3

\* The rounds of drain, from d on.
IsRun(r, d, k) == r = [n \in 0 .. k |-> IF n = 0 THEN d ELSE DrainOnce(r[n - 1])]

LEMMA RunsExist == ASSUME NEW d PROVE \A k \in Nat : \E r : IsRun(r, d, k)
<1> DEFINE S == {k \in Nat : \E r : IsRun(r, d, k)}
<1>1. 0 \in S
  <2>1. PICK r : r = [n \in 0 .. 0 |-> d]
    OBVIOUS
  <2>2. IsRun(r, d, 0)
    BY <2>1 DEF IsRun
  <2> QED
    BY <2>2
<1>2. ASSUME NEW k \in Nat, k \in S PROVE k + 1 \in S
  <2>1. PICK r : IsRun(r, d, k)
    BY <1>2
  <2>2. PICK q : q = [n \in 0 .. k + 1 |-> IF n = 0 THEN d ELSE DrainOnce(r[n - 1])]
    OBVIOUS
  <2>3. ASSUME NEW n \in 0 .. k PROVE q[n] = r[n]
    BY <2>1, <2>2 DEF IsRun
  <2>4. IsRun(q, d, k + 1)
    <3>1. ASSUME NEW n \in 0 .. k + 1, n # 0 PROVE q[n] = DrainOnce(q[n - 1])
      BY <2>2, <2>3, <3>1
    <3>2. q[0] = d
      BY <2>2
    <3>3. q = [n \in 0 .. k + 1 |-> q[n]]
      BY <2>2
    <3> QED
      BY <3>1, <3>2, <3>3 DEF IsRun
  <2> QED
    BY <2>4
<1> HIDE DEF S
<1>3. Nat \subseteq S
  BY <1>1, <1>2, Inductive
<1> QED
  BY <1>3 DEF S

\* What SoundDrained gives is where its rounds end.
LEMMA DrainIsRun ==
    ASSUME SEQ \in Nat, NEW d
    PROVE  \E r : IsRun(r, d, 2 * SEQ) /\ SoundDrained(d) = r[2 * SEQ]
<1>1. PICK q : IsRun(q, d, 2 * SEQ)
  BY RunsExist
<1>2. PICK r : r = CHOOSE f : f = [n \in 0 .. 2 * SEQ |-> IF n = 0 THEN d ELSE DrainOnce(f[n - 1])]
  OBVIOUS
<1>3. IsRun(r, d, 2 * SEQ)
  BY <1>1, <1>2 DEF IsRun
<1>4. SoundDrained(d) = r[2 * SEQ]
  BY <1>2 DEF SoundDrained
<1> QED
  BY <1>3, <1>4

-----------------------------------------------------------------------------
(* Numbers that wrap.                                                        *)

LEMMA ModSame == ASSUME NEW W \in Nat \ {0}, NEW a \in Int, 0 <= a, a < W PROVE a % W = a
  OBVIOUS
LEMMA ModAbove == ASSUME NEW W \in Nat \ {0}, NEW a \in Int, W <= a, a < 2 * W PROVE a % W = a - W
  OBVIOUS
LEMMA ModBelow == ASSUME NEW W \in Nat \ {0}, NEW a \in Int, - W <= a, a < 0 PROVE a % W = a + W
  OBVIOUS

LEMMA Divided ==
    ASSUME NEW m \in Nat \ {0}, NEW n \in Nat
    PROVE  /\ n % m \in 0 .. m - 1
           /\ \E q \in Nat : n = q * m + (n % m)
<1>1. n \div m \in Nat /\ n = (n \div m) * m + (n % m) /\ n % m \in 0 .. m - 1
  OBVIOUS
<1> QED
  BY <1>1

LEMMA TimesGrows == ASSUME NEW m \in Nat \ {0}, NEW a \in Int, NEW b \in Int, a < b PROVE a * m + m <= b * m
<1>1. PICK k \in Nat : b = a + 1 + k
  <2>1. b - a - 1 \in Nat /\ b = a + 1 + (b - a - 1)
    OBVIOUS
  <2> QED
    BY <2>1
<1>2. b * m = a * m + m + k * m
  BY <1>1
<1>3. k * m \in Nat
  OBVIOUS
<1>4. a * m \in Int /\ b * m \in Int
  OBVIOUS
<1> QED
  BY <1>2, <1>3, <1>4

LEMMA RestIs ==
    ASSUME NEW m \in Nat \ {0}, NEW q \in Nat, NEW r \in 0 .. m - 1
    PROVE  (q * m + r) % m = r
<1>1. q * m \in Nat
  OBVIOUS
<1>2. PICK n \in Nat : n = q * m + r
  BY <1>1
<1>3. PICK p \in Nat : n = p * m + (n % m)
  BY Divided
<1>4. n % m \in 0 .. m - 1
  BY Divided
<1>5. p * m \in Nat
  OBVIOUS
<1>6. p = q
  <2>1. PICK x \in Nat, y \in Nat : x = p * m /\ y = q * m /\ x + (n % m) = y + r
    BY <1>1, <1>2, <1>3, <1>5
  <2>2. ~ (x + m <= y) /\ ~ (y + m <= x)
    BY <1>4, <2>1
  <2>3. ~ (p < q)
    BY <2>1, <2>2, TimesGrows
  <2>4. ~ (q < p)
    BY <2>1, <2>2, TimesGrows
  <2> QED
    BY <2>3, <2>4
<1> QED
  BY <1>1, <1>2, <1>3, <1>4, <1>6

\* Multiples are a multiple apart.
LEMMA MultiplesApart ==
    ASSUME NEW m \in Nat \ {0}, NEW a \in Nat, NEW b \in Nat, a % m = b % m, a < b
    PROVE  a + m <= b
<1>1. PICK p \in Nat : a = p * m + (a % m)
  BY Divided
<1>2. PICK q \in Nat : b = q * m + (b % m)
  BY Divided
<1>3. p * m \in Nat /\ q * m \in Nat /\ a % m \in Nat
  BY Divided
<1>4. p * m < q * m
  BY <1>1, <1>2, <1>3
<1>5. p < q
  <2>1. ASSUME q < p PROVE FALSE
    <3>1. q * m + m <= p * m
      BY <2>1, TimesGrows
    <3> QED
      BY <1>3, <1>4, <3>1
  <2>2. p # q
    BY <1>3, <1>4
  <2> QED
    BY <2>1, <2>2
<1>6. p * m + m <= q * m
  BY <1>5, TimesGrows
<1> QED
  BY <1>1, <1>2, <1>3, <1>6

LEMMA SameWithin ==
    ASSUME NEW m \in Nat \ {0}, NEW low \in Nat, NEW a \in Nat, NEW b \in Nat, a % m = b % m,
           low <= a, a < low + m, low <= b, b < low + m
    PROVE  a = b
<1>1. ~ (a + m <= b) /\ ~ (b + m <= a)
  OBVIOUS
<1>2. ~ (a < b) /\ ~ (b < a)
  BY <1>1, MultiplesApart
<1> QED
  BY <1>2

LEMMA RestAfter ==
    ASSUME NEW m \in Nat \ {0}, NEW f \in Nat, f % m = 0, NEW i \in 0 .. m - 1
    PROVE  (f + i) % m = i
<1>1. PICK q \in Nat : f = q * m + (f % m)
  BY Divided
<1>2. f = q * m
  BY <1>1
<1> QED
  BY <1>2, RestIs

LEMMA NextRest ==
    ASSUME NEW m \in Nat \ {0}, NEW n \in Nat
    PROVE  (n + 1) % m = ((n % m) + 1) % m
<1>1. PICK q \in Nat : n = q * m + (n % m)
  BY Divided
<1>2. PICK r \in 0 .. m - 1 : r = n % m
  BY Divided
<1>3. CASE r + 1 < m
  <2>1. r + 1 \in 0 .. m - 1
    BY <1>3
  <2>2. n + 1 = q * m + (r + 1)
    BY <1>1, <1>2
  <2>3. (n + 1) % m = r + 1
    BY <2>1, <2>2, RestIs
  <2>4. (r + 1) % m = r + 1
    BY <2>1, ModSame
  <2> QED
    BY <1>2, <2>3, <2>4
<1>4. CASE r + 1 = m
  <2>1. (q + 1) * m = q * m + m /\ q * m \in Nat
    OBVIOUS
  <2>2. n + 1 = (q + 1) * m + 0 /\ q + 1 \in Nat /\ 0 \in 0 .. m - 1
    BY <1>1, <1>2, <1>4, <2>1
  <2>3. (n + 1) % m = 0
    BY <2>2, RestIs
  <2>4. m % m = 0
    BY ModAbove
  <2> QED
    BY <1>2, <1>4, <2>3, <2>4
<1> QED
  BY <1>2, <1>3, <1>4

IsMultiple(m, d) == \E c \in Nat \ {0} : m = c * d

\* The rest by a divisor d of m, and the multiple of d below n.
LEMMA RestOfRest ==
    ASSUME NEW d \in Nat \ {0}, NEW m, IsMultiple(m, d), NEW n \in Nat
    PROVE  /\ (n % m) % d = n % d
           /\ n - (n % d) \in Nat /\ (n - (n % d)) % d = 0
           /\ (n - (n % d)) % m = (n % m) - (n % d)
<1>0. PICK c \in Nat \ {0} : m = c * d
  BY DEF IsMultiple
<1>1. m \in Nat \ {0}
  <2>1. 0 * d + d <= c * d
    BY TimesGrows
  <2>2. c * d \in Int /\ 0 * d = 0
    OBVIOUS
  <2> QED
    BY <1>0, <2>1, <2>2
<1>2. PICK q \in Nat : n = q * m + (n % m)
  BY <1>1, Divided
<1>3. PICK r \in 0 .. m - 1 : r = n % m
  BY <1>1, Divided
<1>4. PICK p \in Nat : r = p * d + (r % d)
  <2>1. r \in Nat
    BY <1>1
  <2> QED
    BY <2>1, Divided
<1>5. PICK e \in 0 .. d - 1 : e = r % d
  <2>1. r \in Nat
    BY <1>1
  <2> QED
    BY <2>1, Divided
<1>6. n = (q * c + p) * d + e
  <2>1. (q * c + p) * d = q * m + p * d
    BY <1>0
  <2>2. q * m \in Nat /\ p * d \in Nat
    BY <1>1
  <2> QED
    BY <1>2, <1>3, <1>4, <1>5, <2>1, <2>2
<1>7. n % d = e
  BY <1>6, RestIs
<1>8. n - e = (q * c + p) * d + 0 /\ n - e = q * m + (r - e) /\ r - e \in 0 .. m - 1
  <2>1. PICK x \in Nat, y \in Nat, z \in Nat : x = (q * c + p) * d /\ y = q * m /\ z = p * d
    BY <1>1
  <2>2. n = x + e /\ n = y + r /\ r = z + e
    BY <1>2, <1>3, <1>4, <1>5, <1>6, <2>1
  <2>3. n - e = x + 0 /\ n - e = y + (r - e) /\ r - e \in 0 .. m - 1
    BY <1>1, <2>2
  <2> QED
    BY <2>1, <2>3
<1>9. (n - e) % d = 0 /\ (n - e) % m = r - e /\ n - e \in Nat
  <2>1. q * c + p \in Nat /\ 0 \in 0 .. d - 1
    OBVIOUS
  <2>2. ((q * c + p) * d + 0) % d = 0
    BY <2>1, RestIs
  <2>3. (q * m + (r - e)) % m = r - e
    BY <1>1, <1>8, RestIs
  <2>4. q * m \in Nat
    BY <1>1
  <2> QED
    BY <1>8, <2>2, <2>3, <2>4
<1> QED
  BY <1>3, <1>5, <1>7, <1>9

-----------------------------------------------------------------------------
(* Blocks of sound, and the shards of them that have arrived.                *)

LEMMA SoundSizes ==
    /\ DATA_SHARDS \in Nat \ {0} /\ PARITY_SHARDS \in Nat /\ SEQ \in Nat \ {0} /\ AudioReach \in Nat
    /\ 2 * AudioReach < SEQ /\ 2 * DATA_SHARDS <= SEQ
    /\ IsMultiple(SEQ, DATA_SHARDS)
    /\ SEQ \div 2 \in Nat /\ SEQ = 2 * (SEQ \div 2) /\ (SEQ \div 2) % DATA_SHARDS = 0
<1> DEFINE m == 2 * DATA_SHARDS
<1>1. DATA_SHARDS \in Nat \ {0} /\ PARITY_SHARDS \in Nat /\ SEQ \in Nat \ {0} /\ AudioReach \in Nat
      /\ 2 * AudioReach < SEQ /\ m \in Nat \ {0} /\ SEQ % m = 0
  BY AudioAssumption
<1>2. PICK h \in Nat : SEQ = h * m
  <2>1. PICK h \in Nat : SEQ = h * m + (SEQ % m)
    BY <1>1, Divided
  <2>2. h * m \in Nat
    BY <1>1
  <2> QED
    BY <1>1, <2>1, <2>2
<1>3. h # 0
  BY <1>1, <1>2
<1>4. PICK x \in Nat : x = h * DATA_SHARDS
  BY <1>1
<1>5. SEQ = 2 * x /\ SEQ = (2 * h) * DATA_SHARDS
  BY <1>1, <1>2, <1>4
<1>6. DATA_SHARDS <= x
  <2>1. 0 * DATA_SHARDS + DATA_SHARDS <= h * DATA_SHARDS
    BY <1>1, <1>3, TimesGrows
  <2> QED
    BY <1>1, <1>4, <2>1
<1>7. SEQ \div 2 = x
  BY <1>5
<1>8. x % DATA_SHARDS = 0
  <2>1. (h * DATA_SHARDS + 0) % DATA_SHARDS = 0
    BY <1>1, RestIs
  <2> QED
    BY <1>1, <1>4, <2>1
<1>9. 2 * h \in Nat \ {0}
  BY <1>3
<1> QED
  <2>1. 2 * DATA_SHARDS <= SEQ /\ SEQ = 2 * (SEQ \div 2) /\ SEQ \div 2 \in Nat
    BY <1>1, <1>5, <1>6, <1>7
  <2>2. IsMultiple(SEQ, DATA_SHARDS)
    BY <1>5, <1>9 DEF IsMultiple
  <2>3. (SEQ \div 2) % DATA_SHARDS = 0
    BY <1>7, <1>8
  <2> QED
    BY <1>1, <2>1, <2>2, <2>3

\* Where the block of the n-th sound begins.
FirstAt(n) == n - (n % DATA_SHARDS)

LEMMA FirstIs ==
    ASSUME NEW n \in Nat
    PROVE  /\ FirstAt(n) \in Nat /\ FirstAt(n) % DATA_SHARDS = 0
           /\ FirstAt(n) <= n /\ n < FirstAt(n) + DATA_SHARDS
           /\ n % SEQ \in 0 .. SEQ - 1
           /\ BlockOf(n % SEQ) = FirstAt(n) % SEQ
           /\ (n % SEQ) - BlockOf(n % SEQ) = n - FirstAt(n)
           /\ (n % SEQ) % DATA_SHARDS = n % DATA_SHARDS
<1>1. IsMultiple(SEQ, DATA_SHARDS)
  BY SoundSizes
<1>2. DATA_SHARDS \in Nat \ {0} /\ SEQ \in Nat \ {0}
  BY SoundSizes
<1>3. /\ (n % SEQ) % DATA_SHARDS = n % DATA_SHARDS
      /\ n - (n % DATA_SHARDS) \in Nat /\ (n - (n % DATA_SHARDS)) % DATA_SHARDS = 0
      /\ (n - (n % DATA_SHARDS)) % SEQ = (n % SEQ) - (n % DATA_SHARDS)
  BY <1>1, <1>2, RestOfRest
<1>4. n % DATA_SHARDS \in 0 .. DATA_SHARDS - 1 /\ n % SEQ \in 0 .. SEQ - 1
  BY <1>2, Divided
<1>5. PICK e \in 0 .. DATA_SHARDS - 1, r \in 0 .. SEQ - 1 : e = n % DATA_SHARDS /\ r = n % SEQ
  BY <1>4
<1>6. FirstAt(n) = n - e /\ BlockOf(n % SEQ) = r - e
  BY <1>3, <1>5 DEF FirstAt, BlockOf
<1>7. n - e <= n /\ n < (n - e) + DATA_SHARDS /\ r - (r - e) = n - (n - e)
  BY <1>2, <1>5
<1> QED
  BY <1>3, <1>4, <1>5, <1>6, <1>7

\* The block of the next sound: the same, or the one that begins with it.
LEMMA FirstOfNext ==
    ASSUME NEW n \in Nat
    PROVE  /\ (n + 1) % DATA_SHARDS # 0 => FirstAt(n + 1) = FirstAt(n)
           /\ (n + 1) % DATA_SHARDS = 0 => FirstAt(n + 1) = FirstAt(n) + DATA_SHARDS
<1>1. DATA_SHARDS \in Nat \ {0}
  BY SoundSizes
<1>2. PICK f \in Nat, e \in Nat : f = FirstAt(n) /\ f % DATA_SHARDS = 0 /\ n = f + e /\ e < DATA_SHARDS
  <2>1. FirstAt(n) \in Nat /\ FirstAt(n) % DATA_SHARDS = 0 /\ FirstAt(n) <= n /\ n < FirstAt(n) + DATA_SHARDS
    BY FirstIs
  <2>2. PICK f \in Nat : f = FirstAt(n)
    BY <2>1
  <2>3. n - f \in Nat /\ n = f + (n - f) /\ n - f < DATA_SHARDS
    BY <1>1, <2>1, <2>2
  <2> QED
    BY <2>1, <2>2, <2>3
<1>3. CASE e + 1 < DATA_SHARDS
  <2>1. (f + (e + 1)) % DATA_SHARDS = e + 1
    BY <1>1, <1>2, <1>3, RestAfter
  <2>2. n + 1 = f + (e + 1)
    BY <1>2
  <2>3. (n + 1) % DATA_SHARDS = e + 1
    BY <2>1, <2>2
  <2> QED
    BY <1>2, <2>2, <2>3 DEF FirstAt
<1>4. CASE e + 1 = DATA_SHARDS
  <2>1. PICK q \in Nat, x \in Nat : x = q * DATA_SHARDS /\ f = x
    <3>1. PICK q \in Nat : f = q * DATA_SHARDS + (f % DATA_SHARDS)
      BY <1>1, Divided
    <3>2. q * DATA_SHARDS \in Nat
      BY <1>1
    <3> QED
      BY <1>2, <3>1, <3>2
  <2>2. (q + 1) * DATA_SHARDS = x + DATA_SHARDS /\ q + 1 \in Nat /\ 0 \in 0 .. DATA_SHARDS - 1
    BY <1>1, <2>1
  <2>3. n + 1 = (q + 1) * DATA_SHARDS + 0
    BY <1>1, <1>2, <1>4, <2>1, <2>2
  <2>4. (n + 1) % DATA_SHARDS = 0
    BY <1>1, <2>2, <2>3, RestIs
  <2> QED
    BY <1>1, <1>2, <1>4, <2>4 DEF FirstAt
<1> QED
  BY <1>1, <1>2, <1>3, <1>4

\* What comes too late for the block that plays is told by its number.
LEMMA LateIsBefore ==
    ASSUME NEW f \in Nat, NEW g \in Nat, f % DATA_SHARDS = 0, g % DATA_SHARDS = 0, f < g,
           g <= f + AudioReach + DATA_SHARDS - 1
    PROVE  After(f % SEQ, g % SEQ) < 0
<1>1. PICK x \in Nat : SEQ \div 2 = x /\ SEQ = 2 * x /\ x % DATA_SHARDS = 0 /\ DATA_SHARDS <= x /\ AudioReach < x
  BY SoundSizes
<1>2. DATA_SHARDS \in Nat \ {0} /\ SEQ \in Nat \ {0}
  BY SoundSizes
<1>3. g - f <= x
  <2>1. SUFFICES ASSUME f + x < g PROVE FALSE
    BY <1>1
  <2>2. (f + x) % DATA_SHARDS = 0
    <3>1. PICK p \in Nat : f = p * DATA_SHARDS + (f % DATA_SHARDS)
      BY <1>2, Divided
    <3>2. PICK q \in Nat : x = q * DATA_SHARDS + (x % DATA_SHARDS)
      BY <1>2, Divided
    <3>3. (p + q) * DATA_SHARDS = p * DATA_SHARDS + q * DATA_SHARDS
          /\ p * DATA_SHARDS \in Nat /\ q * DATA_SHARDS \in Nat
      BY <1>2
    <3>4. f + x = (p + q) * DATA_SHARDS + 0 /\ p + q \in Nat /\ 0 \in 0 .. DATA_SHARDS - 1
      <4>1. PICK y \in Nat, z \in Nat, w \in Int : y = p * DATA_SHARDS /\ z = q * DATA_SHARDS /\ w = (p + q) * DATA_SHARDS
        BY <3>3
      <4>2. f = y + 0 /\ x = z + 0 /\ w = y + z
        BY <1>1, <3>1, <3>2, <3>3, <4>1
      <4>3. f + x = w + 0
        BY <4>2
      <4> QED
        BY <1>2, <4>1, <4>3
    <3>5. PICK c \in Nat : c = p + q /\ 0 \in 0 .. DATA_SHARDS - 1
      BY <3>4
    <3>6. (c * DATA_SHARDS + 0) % DATA_SHARDS = 0
      BY <1>2, <3>5, RestIs
    <3> QED
      BY <3>4, <3>5, <3>6
  <2>3. f + x + DATA_SHARDS <= g
    <3>1. f + x \in Nat /\ (f + x) % DATA_SHARDS = g % DATA_SHARDS
      BY <2>2
    <3> QED
      BY <1>2, <2>1, <3>1, MultiplesApart
  <2>4. AudioReach \in Nat
    BY SoundSizes
  <2> QED
    BY <1>1, <1>2, <2>3, <2>4
<1>4. PICK p \in Nat : f = p * SEQ + (f % SEQ)
  BY <1>2, Divided
<1>5. PICK q \in Nat : g = q * SEQ + (g % SEQ)
  BY <1>2, Divided
<1>6. PICK r \in 0 .. SEQ - 1, t \in 0 .. SEQ - 1 : r = f % SEQ /\ t = g % SEQ
  BY <1>2, Divided
<1>7. r - t \in {f - g, f - g + SEQ}
  <2>1. PICK y \in Nat, z \in Nat : y = p * SEQ /\ z = q * SEQ /\ f = y + r /\ g = z + t
    BY <1>2, <1>4, <1>5, <1>6
  <2>2. q = p \/ q = p + 1
    <3>1. ~ (q < p)
      <4>1. SUFFICES ASSUME q < p PROVE FALSE
        OBVIOUS
      <4>2. z + SEQ <= y
        BY <1>2, <2>1, <4>1, TimesGrows
      <4> QED
        BY <1>2, <2>1, <4>2
    <3>2. ~ (p + 1 < q)
      <4>1. SUFFICES ASSUME p + 1 < q PROVE FALSE
        OBVIOUS
      <4>2. (p + 1) * SEQ = y + SEQ
        BY <1>2, <2>1
      <4>3. y + SEQ + SEQ <= z
        <5>1. (p + 1) * SEQ + SEQ <= q * SEQ
          BY <1>2, <4>1, TimesGrows
        <5> QED
          BY <2>1, <4>2, <5>1
      <4> QED
        BY <1>1, <1>2, <1>3, <2>1, <4>3
    <3> QED
      BY <3>1, <3>2
  <2>3. CASE q = p
    BY <2>1, <2>3
  <2>4. CASE q = p + 1
    <3>1. z = y + SEQ
      BY <1>2, <2>1, <2>4
    <3> QED
      BY <1>2, <2>1, <3>1
  <2> QED
    BY <2>2, <2>3, <2>4
<1>8. (r - t) % SEQ = f - g + SEQ
  <2>1. CASE r - t = f - g
    <3>1. - SEQ <= r - t /\ r - t < 0 /\ r - t \in Int
      BY <1>2, <1>6, <2>1
    <3> QED
      BY <1>2, <2>1, <3>1, ModBelow
  <2>2. CASE r - t = f - g + SEQ
    <3>1. 0 <= r - t /\ r - t < SEQ /\ r - t \in Int
      BY <1>1, <1>2, <1>3, <2>2
    <3> QED
      BY <1>2, <2>2, <3>1, ModSame
  <2> QED
    BY <1>7, <2>1, <2>2
<1>9. ~ (f - g + SEQ < SEQ \div 2)
  BY <1>1, <1>3
<1> QED
  BY <1>2, <1>6, <1>8, <1>9 DEF After

\* A shard of the block that begins with the sound f, and whether it was sent.
ShardOf(f, s) == IF s < DATA_SHARDS THEN f + s ELSE f
ShardIsSent(f, s, sent) == IF s < DATA_SHARDS THEN f + s < sent ELSE f + DATA_SHARDS <= sent

BlockKept(b, f, sent) ==
    /\ b \in [SoundShards -> Int]
    /\ \A s \in SoundShards : b[s] # Absent => b[s] = ShardOf(f, s) /\ ShardIsSent(f, s, sent)

LEMMA ShardTypes == SoundShards \subseteq Nat /\ \A s \in 0 .. DATA_SHARDS - 1 : s \in SoundShards
  BY SoundSizes DEF SoundShards

LEMMA EmptyKept == ASSUME NEW f, NEW sent PROVE BlockKept(EmptyBlock, f, sent)
  BY DEF BlockKept, EmptyBlock, Absent

\* What is rebuilt is what was sent.
LEMMA RecoveredKept ==
    ASSUME NEW f \in Nat, NEW sent \in Nat, NEW b, BlockKept(b, f, sent)
    PROVE  BlockKept(Recovered(b), f, sent)
<1>1. CASE Cardinality(Present(b)) < DATA_SHARDS
  BY <1>1 DEF Recovered
<1>2. CASE ~ (Cardinality(Present(b)) < DATA_SHARDS)
  <2>1. DATA_SHARDS \in Nat \ {0}
    BY SoundSizes
  <2>2. Present(b) \subseteq SoundShards /\ Present(b) \subseteq Nat /\ IsFiniteSet(Present(b))
    <3>1. IsFiniteSet(SoundShards)
      BY SoundSizes, FS_Interval DEF SoundShards
    <3>2. Present(b) \subseteq SoundShards
      BY DEF Present
    <3> QED
      BY <3>1, <3>2, FS_Subset, ShardTypes
  <2>3. Present(b) # {}
    BY <1>2, <2>1, FS_EmptySet
  <2>4. Min(Present(b)) \in Present(b)
    BY <2>2, <2>3, LeastOf
  <2>5. FirstOf(b) = f
    <3>1. PICK s \in SoundShards : s = Min(Present(b)) /\ b[s] # Absent
      BY <2>4 DEF Present
    <3>2. b[s] = ShardOf(f, s) /\ s \in Nat
      BY <3>1, ShardTypes DEF BlockKept
    <3>3. FirstOf(b) = IF s < DATA_SHARDS THEN b[s] - s ELSE b[s]
      BY <3>1 DEF FirstOf
    <3> QED
      BY <2>1, <3>2, <3>3 DEF ShardOf
  <2>6. ASSUME NEW s \in SoundShards, s < DATA_SHARDS, b[s] = Absent
        PROVE  f + s < sent
    <3>1. SUFFICES ASSUME \A t \in Present(b) : t < DATA_SHARDS PROVE FALSE
      <4>1. ASSUME NEW t \in Present(b), ~ (t < DATA_SHARDS) PROVE f + s < sent
        <5>1. f + DATA_SHARDS <= sent
          BY <2>2, <4>1 DEF BlockKept, Present, ShardIsSent
        <5> QED
          BY <2>1, <2>6, <5>1, ShardTypes
      <4> QED
        BY <4>1
    <3>2. PICK A : A = 0 .. DATA_SHARDS - 1
      OBVIOUS
    <3>3. IsFiniteSet(A) /\ Cardinality(A) = DATA_SHARDS
      BY <2>1, <3>2, FS_Interval
    <3>4. s \in A
      BY <2>1, <2>6, <3>2, ShardTypes
    <3>5. Present(b) \subseteq A \ {s}
      BY <2>1, <2>2, <2>6, <3>1, <3>2 DEF Present
    <3>6. IsFiniteSet(A \ {s}) /\ Cardinality(A \ {s}) = DATA_SHARDS - 1
      BY <3>3, <3>4, FS_RemoveElement
    <3>7. Cardinality(Present(b)) <= DATA_SHARDS - 1 /\ Cardinality(Present(b)) \in Nat
      BY <2>2, <3>5, <3>6, FS_Subset, FS_CardinalityType
    <3> QED
      BY <1>2, <2>1, <3>7
  <2>7. Recovered(b) = [s \in SoundShards |-> IF s < DATA_SHARDS /\ b[s] = Absent THEN f + s ELSE b[s]]
    BY <1>2, <2>5 DEF Recovered
  <2>8. ASSUME NEW s \in SoundShards
        PROVE  /\ Recovered(b)[s] \in Int
               /\ Recovered(b)[s] # Absent =>
                    Recovered(b)[s] = ShardOf(f, s) /\ ShardIsSent(f, s, sent)
    <3>1. s \in Nat
      BY ShardTypes
    <3>2. CASE s < DATA_SHARDS /\ b[s] = Absent
      BY <2>6, <2>7, <3>1, <3>2 DEF ShardOf, ShardIsSent
    <3>3. CASE ~ (s < DATA_SHARDS /\ b[s] = Absent)
      BY <2>7, <3>3 DEF BlockKept
    <3> QED
      BY <3>2, <3>3
  <2> QED
    BY <2>7, <2>8 DEF BlockKept
<1> QED
  BY <1>1, <1>2

\* The blocks at the n-th sound: each of one block sent, none before that of the sound.
BlockIsOf(b, k, f, n, sent) ==
    /\ f % DATA_SHARDS = 0 /\ f % SEQ = k
    /\ FirstAt(n) <= f /\ f < FirstAt(n) + SEQ
    /\ BlockKept(b, f, sent)
BlocksKept(bs, n, sent) ==
    /\ bs = [k \in DOMAIN bs |-> bs[k]]
    /\ \A k \in DOMAIN bs : \E f \in Nat : BlockIsOf(bs[k], k, f, n, sent)

\* Which block it is, is told by its number.
LEMMA BlockFound ==
    ASSUME NEW n \in Nat, NEW sent \in Nat, NEW bs, BlocksKept(bs, n, sent),
           NEW f \in Nat, f % DATA_SHARDS = 0, FirstAt(n) <= f, f < FirstAt(n) + SEQ
    PROVE  BlockKept(At(bs, f % SEQ), f, sent)
<1>1. PICK k : k = f % SEQ
  OBVIOUS
<1>2. CASE k \in DOMAIN bs
  <2>1. PICK g \in Nat : BlockIsOf(bs[k], k, g, n, sent)
    BY <1>2 DEF BlocksKept
  <2>2. g = f
    <3>1. FirstAt(n) \in Nat /\ SEQ \in Nat \ {0}
      BY FirstIs, SoundSizes
    <3>2. g % SEQ = f % SEQ /\ FirstAt(n) <= g /\ g < FirstAt(n) + SEQ
      BY <1>1, <2>1 DEF BlockIsOf
    <3> QED
      BY <3>1, <3>2, SameWithin
  <2> QED
    BY <1>1, <1>2, <2>1, <2>2 DEF At, BlockIsOf
<1>3. CASE k \notin DOMAIN bs
  BY <1>1, <1>3, EmptyKept DEF At
<1> QED
  BY <1>2, <1>3

LEMMA PutKept ==
    ASSUME NEW n \in Nat, NEW sent \in Nat, NEW bs, BlocksKept(bs, n, sent),
           NEW f \in Nat, f % DATA_SHARDS = 0, FirstAt(n) <= f, f < FirstAt(n) + SEQ,
           NEW b, BlockKept(b, f, sent)
    PROVE  BlocksKept(Put(bs, f % SEQ, b), n, sent)
<1>1. PICK k : k = f % SEQ
  OBVIOUS
<1>2. PICK qs : qs = Put(bs, k, b)
  OBVIOUS
<1>3. /\ DOMAIN qs = DOMAIN bs \union {k} /\ qs = [j \in DOMAIN qs |-> qs[j]]
      /\ qs[k] = b /\ \A j \in DOMAIN bs : j # k => qs[j] = bs[j]
  BY <1>2 DEF Put
<1>4. ASSUME NEW j \in DOMAIN qs PROVE \E g \in Nat : BlockIsOf(qs[j], j, g, n, sent)
  <2>1. CASE j = k
    <3>1. BlockIsOf(qs[j], j, f, n, sent)
      BY <1>1, <1>3, <2>1 DEF BlockIsOf
    <3> QED
      BY <3>1
  <2>2. CASE j # k
    BY <1>3, <2>2 DEF BlocksKept
  <2> QED
    BY <2>1, <2>2
<1>5. BlocksKept(qs, n, sent)
  BY <1>3, <1>4 DEF BlocksKept
<1> QED
  BY <1>1, <1>2, <1>5

\* The next sound: with the last of a block, that block is let go.
LEMMA NextKept ==
    ASSUME NEW n \in Nat, NEW sent \in Nat, NEW bs, BlocksKept(bs, n, sent)
    PROVE  BlocksKept(IF (n + 1) % DATA_SHARDS = 0 THEN WithoutSound(bs, FirstAt(n) % SEQ) ELSE bs,
                      n + 1, sent)
<1>1. DATA_SHARDS \in Nat \ {0} /\ SEQ \in Nat \ {0}
  BY SoundSizes
<1>2. FirstAt(n) \in Nat /\ FirstAt(n) % DATA_SHARDS = 0
  BY FirstIs
<1>3. CASE (n + 1) % DATA_SHARDS # 0
  <2>1. FirstAt(n + 1) = FirstAt(n)
    BY <1>3, FirstOfNext
  <2> QED
    BY <1>3, <2>1 DEF BlocksKept, BlockIsOf
<1>4. CASE (n + 1) % DATA_SHARDS = 0
  <2>1. FirstAt(n + 1) = FirstAt(n) + DATA_SHARDS
    BY <1>4, FirstOfNext
  <2>2. PICK qs : qs = WithoutSound(bs, FirstAt(n) % SEQ)
    OBVIOUS
  <2>3. /\ DOMAIN qs = DOMAIN bs \ {FirstAt(n) % SEQ} /\ qs = [j \in DOMAIN qs |-> qs[j]]
        /\ \A j \in DOMAIN qs : qs[j] = bs[j]
    BY <2>2 DEF WithoutSound
  <2>4. ASSUME NEW j \in DOMAIN qs PROVE \E g \in Nat : BlockIsOf(qs[j], j, g, n + 1, sent)
    <3>1. PICK g \in Nat : BlockIsOf(bs[j], j, g, n, sent)
      BY <2>3 DEF BlocksKept
    <3>2. g # FirstAt(n) /\ FirstAt(n) <= g /\ g % DATA_SHARDS = FirstAt(n) % DATA_SHARDS
      BY <1>2, <2>3, <3>1 DEF BlockIsOf
    <3>3. FirstAt(n) + DATA_SHARDS <= g
      <4>1. FirstAt(n) < g
        BY <1>2, <3>2
      <4> QED
        BY <1>1, <1>2, <3>2, <4>1, MultiplesApart
    <3>4. g < FirstAt(n) + SEQ
      BY <3>1 DEF BlockIsOf
    <3>5. FirstAt(n + 1) <= g /\ g < FirstAt(n + 1) + SEQ
      BY <1>1, <1>2, <2>1, <3>3, <3>4
    <3>6. BlockIsOf(qs[j], j, g, n + 1, sent)
      BY <2>3, <3>1, <3>5 DEF BlockIsOf
    <3> QED
      BY <3>6
  <2> QED
    BY <1>4, <2>2, <2>3, <2>4 DEF BlocksKept
<1> QED
  BY <1>3, <1>4

-----------------------------------------------------------------------------
(* The sounds that play.                                                     *)

Sounds == [sound : Nat, as : Nat]

\* Of the sounds before the n-th, in order and each with its number.
PlayedKept(p, n) ==
    /\ p \in Seq(Sounds)
    /\ \A i \in 1 .. Len(p) - 1 : p[i].sound < p[i + 1].sound
    /\ \A i \in 1 .. Len(p) : p[i].sound < n /\ p[i].sound % SEQ = p[i].as

LEMMA PlayedLater ==
    ASSUME NEW n \in Nat, NEW m \in Nat, n <= m, NEW p, PlayedKept(p, n)
    PROVE  PlayedKept(p, m)
<1>1. PICK T : T = Sounds
  OBVIOUS
<1>2. p \in Seq(T)
  BY <1>1 DEF PlayedKept
<1>3. \A x \in T : x.sound \in Nat
  BY <1>1 DEF Sounds
<1>4. \A i \in 1 .. Len(p) : p[i].sound \in Nat
  BY <1>2, <1>3
<1>5. \A i \in 1 .. Len(p) : p[i].sound < m
  BY <1>4 DEF PlayedKept
<1> QED
  BY <1>5 DEF PlayedKept

LEMMA PlaysNext ==
    ASSUME NEW n \in Nat, NEW p, PlayedKept(p, n)
    PROVE  PlayedKept(Append(p, [sound |-> n, as |-> n % SEQ]), n + 1)
<1>1. PICK e : e = [sound |-> n, as |-> n % SEQ]
  OBVIOUS
<1>2. e \in Sounds /\ e.sound = n /\ e.as = n % SEQ
  <2>1. n % SEQ \in Nat
    BY SoundSizes, Divided
  <2> QED
    BY <1>1, <2>1 DEF Sounds
<1>3. PICK q : q = Append(p, e)
  OBVIOUS
<1>4. /\ q \in Seq(Sounds) /\ Len(q) = Len(p) + 1 /\ q[Len(p) + 1] = e
      /\ \A i \in 1 .. Len(p) : q[i] = p[i]
  <2>1. PICK T : T = Sounds
    OBVIOUS
  <2>2. p \in Seq(T) /\ e \in T
    BY <1>2, <2>1 DEF PlayedKept
  <2>3. q \in Seq(T) /\ Len(q) = Len(p) + 1 /\ q[Len(p) + 1] = e
    BY <1>3, <2>2
  <2>4. ASSUME NEW i \in 1 .. Len(p) PROVE q[i] = p[i]
    BY <1>3, <2>2
  <2> QED
    BY <2>1, <2>3, <2>4
<1>5. Len(p) \in Nat /\ \A i \in 1 .. Len(p) : p[i].sound \in Nat
  <2>1. PICK T : T = Sounds
    OBVIOUS
  <2>2. p \in Seq(T)
    BY <2>1 DEF PlayedKept
  <2>3. Len(p) \in Nat /\ \A i \in 1 .. Len(p) : p[i] \in T
    BY <2>2
  <2>4. \A x \in T : x.sound \in Nat
    BY <2>1 DEF Sounds
  <2> QED
    BY <2>3, <2>4
<1>6. ASSUME NEW i \in 1 .. Len(q) - 1 PROVE q[i].sound < q[i + 1].sound
  <2>1. CASE i = Len(p)
    BY <1>2, <1>4, <1>5, <2>1 DEF PlayedKept
  <2>2. CASE i < Len(p)
    <3>1. i \in 1 .. Len(p) - 1 /\ i + 1 \in 1 .. Len(p) /\ i \in 1 .. Len(p)
      BY <1>4, <1>5, <2>2
    <3> QED
      BY <1>4, <3>1 DEF PlayedKept
  <2> QED
    BY <1>4, <1>5, <2>1, <2>2
<1>7. ASSUME NEW i \in 1 .. Len(q) PROVE q[i].sound < n + 1 /\ q[i].sound % SEQ = q[i].as
  <2>1. CASE i = Len(p) + 1
    BY <1>2, <1>4, <2>1
  <2>2. CASE i <= Len(p)
    <3>1. i \in 1 .. Len(p)
      BY <1>4, <1>5, <2>2
    <3> QED
      BY <1>4, <1>5, <3>1 DEF PlayedKept
  <2> QED
    BY <1>4, <1>5, <2>1, <2>2
<1> QED
  BY <1>1, <1>3, <1>4, <1>6, <1>7 DEF PlayedKept

LEMMA LastPlayed ==
    ASSUME NEW n \in Nat, NEW p, PlayedKept(p, n)
    PROVE  PlayedKept(LastOf(p), n)
<1>1. CASE p = <<>>
  BY <1>1 DEF LastOf
<1>2. CASE p # <<>>
  <2>1. Len(p) \in Nat \ {0} /\ p[Len(p)] \in Sounds
    BY <1>2 DEF PlayedKept
  <2>2. PICK e : e = p[Len(p)]
    OBVIOUS
  <2>3. e.sound < n /\ e.sound % SEQ = e.as
    BY <2>1, <2>2 DEF PlayedKept
  <2>4. LastOf(p) = <<e>>
    BY <1>2, <2>2 DEF LastOf
  <2>5. PICK q : q = <<e>>
    OBVIOUS
  <2>6. q \in Seq(Sounds) /\ Len(q) = 1 /\ q[1] = e
    BY <2>1, <2>2, <2>5
  <2>7. PlayedKept(q, n)
    BY <2>3, <2>6 DEF PlayedKept
  <2> QED
    BY <2>4, <2>5, <2>7
<1> QED
  BY <1>1, <1>2

\* drain at the sound d.at, from the sound low on: what it holds and lets play was sent.
IsDrain(d) == d \in [next : {d.next}, at : Nat, blocks : {d.blocks}, played : {d.played}, on : BOOLEAN]
DrainKept(d, low, sent) ==
    /\ IsDrain(d)
    /\ d.next = d.at % SEQ /\ low <= d.at /\ d.at <= sent
    /\ BlocksKept(d.blocks, d.at, sent)
    /\ PlayedKept(d.played, d.at)

LEMMA AfterItself == ASSUME NEW k \in Int PROVE ~ (After(k, k) > 0)
<1>1. SEQ \in Nat \ {0} /\ k - k = 0
  BY SoundSizes
<1>2. 0 % SEQ = 0
  BY <1>1, ModSame
<1> QED
  BY <1>1, <1>2 DEF After

\* A drain with fields of its own.
LEMMA NextSet ==
    ASSUME NEW d, IsDrain(d), NEW x
    PROVE  /\ IsDrain([d EXCEPT !.next = x]) /\ [d EXCEPT !.next = x].next = x
           /\ [d EXCEPT !.next = x].at = d.at /\ [d EXCEPT !.next = x].blocks = d.blocks
           /\ [d EXCEPT !.next = x].played = d.played
  BY DEF IsDrain
LEMMA AtSet ==
    ASSUME NEW d, IsDrain(d), NEW x \in Nat
    PROVE  /\ IsDrain([d EXCEPT !.at = x]) /\ [d EXCEPT !.at = x].next = d.next
           /\ [d EXCEPT !.at = x].at = x /\ [d EXCEPT !.at = x].blocks = d.blocks
           /\ [d EXCEPT !.at = x].played = d.played
  BY DEF IsDrain
LEMMA BlocksSet ==
    ASSUME NEW d, IsDrain(d), NEW x
    PROVE  /\ IsDrain([d EXCEPT !.blocks = x]) /\ [d EXCEPT !.blocks = x].next = d.next
           /\ [d EXCEPT !.blocks = x].at = d.at /\ [d EXCEPT !.blocks = x].blocks = x
           /\ [d EXCEPT !.blocks = x].played = d.played
  BY DEF IsDrain
LEMMA PlayedSet ==
    ASSUME NEW d, IsDrain(d), NEW x
    PROVE  /\ IsDrain([d EXCEPT !.played = x]) /\ [d EXCEPT !.played = x].next = d.next
           /\ [d EXCEPT !.played = x].at = d.at /\ [d EXCEPT !.played = x].blocks = d.blocks
           /\ [d EXCEPT !.played = x].played = x
  BY DEF IsDrain

Advance(d, next, at, left) == [d EXCEPT !.next = next, !.at = at, !.blocks = left]

LEMMA Advanced ==
    ASSUME NEW d, IsDrain(d), NEW next, NEW at \in Nat, NEW left
    PROVE  /\ IsDrain(Advance(d, next, at, left))
           /\ Advance(d, next, at, left).next = next /\ Advance(d, next, at, left).at = at
           /\ Advance(d, next, at, left).blocks = left /\ Advance(d, next, at, left).played = d.played
<1>1. PICK a : a = [d EXCEPT !.next = next]
  OBVIOUS
<1>2. PICK b : b = [a EXCEPT !.at = at]
  OBVIOUS
<1>3. PICK c : c = [b EXCEPT !.blocks = left]
  OBVIOUS
<1>4. IsDrain(a) /\ a.next = next /\ a.played = d.played
  BY <1>1, NextSet
<1>5. IsDrain(b) /\ b.next = next /\ b.at = at /\ b.played = d.played
  BY <1>2, <1>4, AtSet
<1>6. IsDrain(c) /\ c.next = next /\ c.at = at /\ c.blocks = left /\ c.played = d.played
  BY <1>3, <1>5, BlocksSet
<1>7. Advance(d, next, at, left) = c
  BY <1>1, <1>2, <1>3 DEF Advance
<1> QED
  BY <1>6, <1>7

\* One round of drain plays the next sound, as it was sent, or nothing.
LEMMA RoundKeeps ==
    ASSUME NEW low \in Nat, NEW sent \in Nat, NEW d, DrainKept(d, low, sent)
    PROVE  DrainKept(DrainOnce(d), low, sent)
<1>1. PICK n \in Nat : n = d.at
  BY DEF DrainKept, IsDrain
<1>2. d.next = n % SEQ /\ low <= n /\ n <= sent
      /\ BlocksKept(d.blocks, n, sent) /\ PlayedKept(d.played, n)
  BY <1>1 DEF DrainKept
<1>3. PICK f \in Nat : f = FirstAt(n) /\ f % DATA_SHARDS = 0 /\ f <= n /\ n < f + DATA_SHARDS
  BY FirstIs
<1>4. DATA_SHARDS \in Nat \ {0} /\ SEQ \in Nat \ {0}
  BY SoundSizes
<1>5. PICK base : base = BlockOf(d.next)
  OBVIOUS
<1>6. base = f % SEQ /\ d.next - base = n - f /\ base \in 0 .. SEQ - 1
  <2>1. BlockOf(n % SEQ) = FirstAt(n) % SEQ /\ (n % SEQ) - BlockOf(n % SEQ) = n - FirstAt(n)
    BY FirstIs
  <2>2. f % SEQ \in 0 .. SEQ - 1
    BY <1>4, Divided
  <2> QED
    BY <1>2, <1>3, <1>5, <2>1, <2>2
<1>7. PICK i \in SoundShards : i = n - f /\ i < DATA_SHARDS /\ i = d.next - base
  <2>1. n - f \in 0 .. DATA_SHARDS - 1
    BY <1>3, <1>4
  <2> QED
    BY <1>4, <1>6, <2>1, ShardTypes
<1>8. PICK b : b = At(d.blocks, base)
  OBVIOUS
<1>9. FirstAt(n) <= f /\ f < FirstAt(n) + SEQ
  BY <1>3, <1>4
<1>10. BlockKept(b, f, sent)
  BY <1>2, <1>3, <1>6, <1>8, <1>9, BlockFound
<1>11. PICK r : r = IF b[i] = Absent THEN Recovered(b) ELSE b
  OBVIOUS
<1>12. BlockKept(r, f, sent)
  BY <1>10, <1>11, RecoveredKept
<1>13. PICK bs : bs = Put(d.blocks, base, r)
  OBVIOUS
<1>14. BlocksKept(bs, n, sent)
  BY <1>2, <1>3, <1>6, <1>9, <1>12, <1>13, PutKept
<1>15. PICK next : next = (d.next + 1) % SEQ
  OBVIOUS
<1>16. next = (n + 1) % SEQ /\ next % DATA_SHARDS = (n + 1) % DATA_SHARDS
  <2>1. next = (n + 1) % SEQ
    BY <1>2, <1>4, <1>15, NextRest
  <2>2. PICK m \in Nat : m = n + 1
    OBVIOUS
  <2>3. (m % SEQ) % DATA_SHARDS = m % DATA_SHARDS
    BY FirstIs
  <2> QED
    BY <2>1, <2>2, <2>3
<1>17. PICK left : left = IF next % DATA_SHARDS = 0 THEN WithoutSound(bs, base) ELSE bs
  OBVIOUS
<1>18. BlocksKept(left, n + 1, sent)
  BY <1>3, <1>6, <1>14, <1>16, <1>17, NextKept
<1>19. r[i] # Absent => r[i] = n /\ n < sent
  BY <1>3, <1>4, <1>7, <1>12 DEF BlockKept, ShardOf, ShardIsSent
<1>20. Ahead(bs, base) => n + 1 <= sent
  <2>1. SUFFICES ASSUME NEW k \in DOMAIN bs, After(k, base) > 0, Cardinality(Present(bs[k])) >= DATA_SHARDS
                 PROVE  n + 1 <= sent
    BY DEF Ahead
  <2>2. k # base
    BY <1>6, <2>1, AfterItself
  <2>3. PICK g \in Nat : BlockIsOf(bs[k], k, g, n, sent)
    BY <1>14 DEF BlocksKept
  <2>4. f < g
    BY <1>3, <1>6, <2>2, <2>3 DEF BlockIsOf
  <2>5. f + DATA_SHARDS <= g
    BY <1>3, <1>4, <2>3, <2>4, MultiplesApart DEF BlockIsOf
  <2>6. PICK s \in SoundShards : bs[k][s] # Absent
    <3>1. Present(bs[k]) # {}
      BY <1>4, <2>1, FS_EmptySet
    <3> QED
      BY <3>1 DEF Present
  <2>7. g < sent
    <3>1. ShardIsSent(g, s, sent) /\ s \in Nat
      BY <2>3, <2>6, ShardTypes DEF BlockIsOf, BlockKept
    <3> QED
      BY <1>4, <3>1 DEF ShardIsSent
  <2> QED
    BY <1>3, <1>4, <2>5, <2>7
<1>21. IsDrain(d)
  BY DEF DrainKept
<1>22. DrainOnce(d) =
         CASE ~d.on -> d
           [] d.on /\ r[i] # Absent ->
              [d EXCEPT !.next = next, !.at = @ + 1, !.blocks = left,
                        !.played = Append(@, [sound |-> r[i], as |-> d.next])]
           [] d.on /\ r[i] = Absent /\ Ahead(bs, base) -> [d EXCEPT !.next = next, !.at = @ + 1, !.blocks = left]
           [] d.on /\ r[i] = Absent /\ ~Ahead(bs, base) -> [d EXCEPT !.blocks = bs, !.on = FALSE]
  BY <1>5, <1>7, <1>8, <1>11, <1>13, <1>15, <1>17 DEF DrainOnce
<1>23. CASE ~d.on
  BY <1>22, <1>23
<1>24. CASE d.on /\ r[i] # Absent
  <2>1. PICK p : p = Append(d.played, [sound |-> r[i], as |-> d.next])
    OBVIOUS
  <2>2. PlayedKept(p, n + 1)
    BY <1>2, <1>19, <1>24, <2>1, PlaysNext
  <2>3. PICK e : e = [d EXCEPT !.next = next, !.at = n + 1, !.blocks = left, !.played = p]
    OBVIOUS
  <2>4. IsDrain(e) /\ e.next = next /\ e.at = n + 1 /\ e.blocks = left /\ e.played = p
    <3>1. PICK a : a = Advance(d, next, n + 1, left)
      OBVIOUS
    <3>2. IsDrain(a) /\ a.next = next /\ a.at = n + 1 /\ a.blocks = left
      <4>1. n + 1 \in Nat
        OBVIOUS
      <4> QED
        BY <1>21, <3>1, <4>1, Advanced
    <3>3. e = [a EXCEPT !.played = p]
      BY <2>3, <3>1 DEF Advance
    <3> QED
      BY <3>2, <3>3, PlayedSet
  <2>5. DrainOnce(d) = e
    BY <1>1, <1>22, <1>24, <2>1, <2>3
  <2>6. low <= n + 1 /\ n + 1 <= sent
    BY <1>2, <1>19, <1>24
  <2> QED
    BY <1>16, <1>18, <2>2, <2>4, <2>5, <2>6 DEF DrainKept
<1>25. CASE d.on /\ r[i] = Absent /\ Ahead(bs, base)
  <2>1. PlayedKept(d.played, n + 1)
    BY <1>2, PlayedLater
  <2>2. PICK e : e = [d EXCEPT !.next = next, !.at = n + 1, !.blocks = left]
    OBVIOUS
  <2>3. IsDrain(e) /\ e.next = next /\ e.at = n + 1 /\ e.blocks = left /\ e.played = d.played
    <3>1. e = Advance(d, next, n + 1, left) /\ n + 1 \in Nat
      BY <2>2 DEF Advance
    <3> QED
      BY <1>21, <3>1, Advanced
  <2>4. DrainOnce(d) = e
    BY <1>1, <1>22, <1>25, <2>2
  <2>5. low <= n + 1 /\ n + 1 <= sent
    BY <1>2, <1>20, <1>25
  <2> QED
    BY <1>16, <1>18, <2>1, <2>3, <2>4, <2>5 DEF DrainKept
<1>26. CASE d.on /\ r[i] = Absent /\ ~Ahead(bs, base)
  <2>1. PICK e : e = [d EXCEPT !.blocks = bs, !.on = FALSE]
    OBVIOUS
  <2>2. /\ IsDrain(e)
        /\ e.next = d.next /\ e.at = n /\ e.blocks = bs /\ e.played = d.played
    BY <1>1, <1>21, <2>1 DEF IsDrain
  <2>3. DrainOnce(d) = e
    BY <1>22, <1>26, <2>1
  <2> QED
    BY <1>2, <1>14, <2>2, <2>3 DEF DrainKept
<1> QED
  BY <1>23, <1>24, <1>25, <1>26

\* And so does drain as a whole.
LEMMA DrainKeeps ==
    ASSUME NEW low \in Nat, NEW sent \in Nat, NEW d, DrainKept(d, low, sent)
    PROVE  DrainKept(SoundDrained(d), low, sent)
<1>1. SEQ \in Nat
  BY SoundSizes
<1>2. PICK r : IsRun(r, d, 2 * SEQ) /\ SoundDrained(d) = r[2 * SEQ]
  BY <1>1, DrainIsRun
<1> DEFINE S == {n \in Nat : n <= 2 * SEQ => DrainKept(r[n], low, sent)}
<1>3. 0 \in S
  <2>1. r[0] = d
    BY <1>1, <1>2 DEF IsRun
  <2> QED
    BY <2>1
<1>4. ASSUME NEW n \in Nat, n \in S PROVE n + 1 \in S
  <2>1. SUFFICES ASSUME n + 1 <= 2 * SEQ PROVE DrainKept(r[n + 1], low, sent)
    OBVIOUS
  <2>2. DrainKept(r[n], low, sent)
    BY <1>1, <1>4, <2>1
  <2>3. r[n + 1] = DrainOnce(r[n])
    BY <1>1, <1>2, <2>1 DEF IsRun
  <2> QED
    BY <2>2, <2>3, RoundKeeps
<1> HIDE DEF S
<1>5. Nat \subseteq S
  BY <1>3, <1>4, Inductive
<1>6. 2 * SEQ \in Nat
  BY <1>1
<1> QED
  BY <1>2, <1>5, <1>6 DEF S

-----------------------------------------------------------------------------
(* The sound of a session.  Every packet and every shard that was kept is of *)
(* one block sent, which its number tells from every other within reach.     *)

\* A packet that may still arrive.
PacketKept(p, sent) ==
    /\ p \in [first : Nat, shard : SoundShards]
    /\ p.first % DATA_SHARDS = 0 /\ ShardIsSent(p.first, p.shard, sent)
    /\ sent <= p.first + DATA_SHARDS - 1 + AudioReach

SoundInv ==
    /\ soundsSent \in Nat /\ soundAt \in Nat
    /\ soundAt <= soundsSent /\ soundsSent <= soundAt + AudioReach
    /\ nextSound = Absent \/ nextSound = soundAt % SEQ
    /\ nextSound = Absent => soundAt = 0 /\ DOMAIN blocks = {}
    /\ \A p \in audioNet : PacketKept(p, soundsSent)
    /\ BlocksKept(blocks, soundAt, soundsSent)
    /\ PlayedKept(played, soundAt)

LEMMA SoundBegins == GameAudioInit => SoundInv
<1> SUFFICES ASSUME GameAudioInit PROVE SoundInv
  OBVIOUS
<1>1. soundsSent = 0 /\ soundAt = 0 /\ nextSound = Absent /\ audioNet = {} /\ played = <<>>
  BY DEF GameAudioInit
<1>2. DOMAIN blocks = {} /\ blocks = [b \in DOMAIN blocks |-> blocks[b]]
  BY DEF GameAudioInit
<1>3. BlocksKept(blocks, soundAt, soundsSent)
  BY <1>2 DEF BlocksKept
<1>4. PlayedKept(played, soundAt)
  BY <1>1 DEF PlayedKept
<1> QED
  BY <1>1, <1>2, <1>3, <1>4, SoundSizes DEF SoundInv

\* What was sent stays sent.
LEMMA SentStays ==
    ASSUME NEW f \in Nat, NEW s \in SoundShards, NEW sent \in Nat, ShardIsSent(f, s, sent)
    PROVE  ShardIsSent(f, s, sent + 1)
  BY SoundSizes, ShardTypes DEF ShardIsSent

LEMMA BlocksStay ==
    ASSUME NEW bs, NEW n \in Nat, NEW sent \in Nat, BlocksKept(bs, n, sent)
    PROVE  BlocksKept(bs, n, sent + 1)
<1>1. ASSUME NEW k \in DOMAIN bs PROVE \E f \in Nat : BlockIsOf(bs[k], k, f, n, sent + 1)
  <2>1. PICK f \in Nat : BlockIsOf(bs[k], k, f, n, sent)
    BY DEF BlocksKept
  <2>2. PICK b : b = bs[k]
    OBVIOUS
  <2>3. BlockKept(b, f, sent)
    BY <2>1, <2>2 DEF BlockIsOf
  <2>4. BlockKept(b, f, sent + 1)
    BY <2>3, SentStays DEF BlockKept
  <2>5. BlockIsOf(bs[k], k, f, n, sent + 1)
    BY <2>1, <2>2, <2>4 DEF BlockIsOf
  <2> QED
    BY <2>5
<1> QED
  BY <1>1 DEF BlocksKept

LEMMA SoundSent == ASSUME SoundInv, SendSound PROVE SoundInv'
<1>1. soundsSent \in Nat /\ soundAt \in Nat /\ soundAt <= soundsSent /\ soundsSent < soundAt + AudioReach
  BY SoundSizes DEF SoundInv, SendSound
<1>2. soundsSent' = soundsSent + 1
  BY DEF SendSound
<1>3. DATA_SHARDS \in Nat \ {0} /\ PARITY_SHARDS \in Nat /\ AudioReach \in Nat
  BY SoundSizes
<1>4. BlocksKept(blocks, soundAt, soundsSent + 1)
  BY <1>1, BlocksStay DEF SoundInv
<1>5. ASSUME NEW p \in audioNet' PROVE PacketKept(p, soundsSent + 1)
  <2>1. PICK i \in 0 .. DATA_SHARDS - 1 : i = soundsSent % DATA_SHARDS
    BY <1>1, <1>3, Divided
  <2>2. PICK f \in Nat : f = FirstAt(soundsSent) /\ f = soundsSent - i /\ f % DATA_SHARDS = 0
    BY <1>1, <2>1, FirstIs DEF FirstAt
  <2>3. PICK all : all = IF i = DATA_SHARDS - 1
                         THEN {i} \union (DATA_SHARDS .. DATA_SHARDS + PARITY_SHARDS - 1) ELSE {i}
    OBVIOUS
  <2>4. \/ p \in audioNet /\ p.first + DATA_SHARDS - 1 + AudioReach > soundsSent
        \/ p \in {[first |-> f, shard |-> s] : s \in all}
    BY <2>1, <2>2, <2>3 DEF SendSound
  <2>5. CASE p \in audioNet /\ p.first + DATA_SHARDS - 1 + AudioReach > soundsSent
    <3>1. PacketKept(p, soundsSent)
      BY <2>5 DEF SoundInv
    <3>2. p.first \in Nat /\ p.shard \in SoundShards
      BY <3>1 DEF PacketKept
    <3>3. ShardIsSent(p.first, p.shard, soundsSent + 1)
      BY <1>1, <3>1, <3>2, SentStays DEF PacketKept
    <3>4. soundsSent + 1 <= p.first + DATA_SHARDS - 1 + AudioReach
      BY <1>1, <1>3, <2>5, <3>2
    <3> QED
      BY <3>1, <3>3, <3>4 DEF PacketKept
  <2>6. CASE p \in {[first |-> f, shard |-> s] : s \in all}
    <3>1. PICK s \in all : p = [first |-> f, shard |-> s]
      BY <2>6
    <3>2. s \in SoundShards /\ ShardIsSent(f, s, soundsSent + 1)
      BY <1>1, <1>3, <2>1, <2>2, <2>3 DEF SoundShards, ShardIsSent
    <3>3. soundsSent + 1 <= f + DATA_SHARDS - 1 + AudioReach
      BY <1>1, <1>3, <2>1, <2>2
    <3> QED
      BY <2>2, <3>1, <3>2, <3>3 DEF PacketKept
  <2> QED
    BY <2>4, <2>5, <2>6
<1>6. UNCHANGED <<nextSound, soundAt, blocks, played>>
  BY DEF SendSound
<1>7. soundAt <= soundsSent + 1 /\ soundsSent + 1 <= soundAt + AudioReach /\ soundsSent + 1 \in Nat
  BY <1>1, <1>3
<1> QED
  BY <1>2, <1>4, <1>5, <1>6, <1>7 DEF SoundInv

LEMMA SoundLost == ASSUME SoundInv, NEW p \in audioNet, LoseSound(p) PROVE SoundInv'
  BY DEF SoundInv, LoseSound

\* The number a first packet gives to begin with.
LEMMA FirstSound ==
    ASSUME SoundInv, NEW p \in audioNet, NEW next, NEW at,
           next = IF nextSound # Absent THEN nextSound
                  ELSE IF p.shard < DATA_SHARDS THEN (p.first + p.shard) % SEQ ELSE BaseOf(p),
           at = IF nextSound # Absent THEN soundAt ELSE p.first + (IF p.shard < DATA_SHARDS THEN p.shard ELSE 0)
    PROVE  /\ at \in Nat /\ at <= soundsSent /\ soundsSent <= at + AudioReach
           /\ next = at % SEQ /\ next # Absent
           /\ BlocksKept(blocks, at, soundsSent) /\ PlayedKept(played, at)
<1>1. SEQ \in Nat \ {0} /\ DATA_SHARDS \in Nat \ {0} /\ AudioReach \in Nat
  BY SoundSizes
<1>2. soundsSent \in Nat /\ soundAt \in Nat /\ soundAt <= soundsSent /\ soundsSent <= soundAt + AudioReach
  BY DEF SoundInv
<1>3. PICK f \in Nat, s \in SoundShards : f = p.first /\ s = p.shard /\ ShardIsSent(f, s, soundsSent)
  BY DEF SoundInv, PacketKept
<1>4. s \in Nat
  BY ShardTypes
<1>5. \A n \in Nat : n % SEQ # Absent
  <2>1. ASSUME NEW n \in Nat PROVE n % SEQ # Absent
    <3>1. n % SEQ \in 0 .. SEQ - 1
      BY <1>1, Divided
    <3> QED
      BY <1>1, <3>1 DEF Absent
  <2> QED
    BY <2>1
<1>6. CASE nextSound # Absent
  BY <1>2, <1>5, <1>6 DEF SoundInv
<1>7. CASE nextSound = Absent
  <2>1. soundAt = 0 /\ DOMAIN blocks = {} /\ BlocksKept(blocks, soundAt, soundsSent)
        /\ PlayedKept(played, 0)
    BY <1>7 DEF SoundInv
  <2>2. BlocksKept(blocks, at, soundsSent)
    BY <2>1 DEF BlocksKept
  <2>3. next = at % SEQ /\ at \in Nat /\ at <= soundsSent
    <3>1. CASE s < DATA_SHARDS
      BY <1>2, <1>3, <1>4, <1>7, <3>1 DEF ShardIsSent
    <3>2. CASE ~ (s < DATA_SHARDS)
      <4>1. at = f + 0 /\ next = f % SEQ
        BY <1>3, <1>7, <3>2 DEF BaseOf
      <4>2. f + DATA_SHARDS <= soundsSent
        BY <1>3, <3>2 DEF ShardIsSent
      <4> QED
        BY <1>1, <1>2, <4>1, <4>2
    <3> QED
      BY <3>1, <3>2
  <2>4. soundsSent <= at + AudioReach
    BY <1>1, <1>2, <2>1, <2>3
  <2>5. PlayedKept(played, at)
    BY <2>1, <2>3, PlayedLater
  <2> QED
    BY <1>5, <2>2, <2>3, <2>4, <2>5
<1> QED
  BY <1>6, <1>7

\* A packet that is not late belongs to a block within reach.
LEMMA InReach ==
    ASSUME NEW sent \in Nat, NEW at \in Nat, at <= sent, sent <= at + AudioReach,
           NEW p, PacketKept(p, sent), ~ (After(BaseOf(p), BlockOf(at % SEQ)) < 0)
    PROVE  FirstAt(at) <= p.first /\ p.first < FirstAt(at) + SEQ
<1>1. /\ SEQ \in Nat \ {0} /\ DATA_SHARDS \in Nat \ {0} /\ AudioReach \in Nat
      /\ 2 * AudioReach < SEQ /\ 2 * DATA_SHARDS <= SEQ
  BY SoundSizes
<1>2. PICK g \in Nat : /\ g = FirstAt(at) /\ g % DATA_SHARDS = 0 /\ g <= at /\ at < g + DATA_SHARDS
                       /\ BlockOf(at % SEQ) = g % SEQ
  BY FirstIs
<1>3. PICK f \in Nat, s \in SoundShards : f = p.first /\ s = p.shard
  BY DEF PacketKept
<1>4. f % DATA_SHARDS = 0 /\ ShardIsSent(f, s, sent) /\ sent <= f + DATA_SHARDS - 1 + AudioReach
  BY <1>3 DEF PacketKept
<1>5. s \in Nat
  BY ShardTypes
<1>6. f < sent
  BY <1>1, <1>4, <1>5 DEF ShardIsSent
<1>7. ~ (After(f % SEQ, g % SEQ) < 0)
  BY <1>2, <1>3 DEF BaseOf
<1>8. g <= f
  <2>1. SUFFICES ASSUME f < g PROVE FALSE
    OBVIOUS
  <2>2. g <= f + AudioReach + DATA_SHARDS - 1
    BY <1>1, <1>2, <1>4
  <2> QED
    BY <1>2, <1>4, <1>7, <2>1, <2>2, LateIsBefore
<1>9. f < g + SEQ
  BY <1>1, <1>2, <1>6
<1> QED
  BY <1>2, <1>3, <1>8, <1>9

LEMMA ShardPut ==
    ASSUME NEW f \in Nat, NEW sent \in Nat, NEW b, BlockKept(b, f, sent),
           NEW s \in SoundShards, ShardIsSent(f, s, sent)
    PROVE  BlockKept([b EXCEPT ![s] = ShardOf(f, s)], f, sent)
<1>1. PICK q : q = [b EXCEPT ![s] = ShardOf(f, s)]
  OBVIOUS
<1>2. ShardOf(f, s) \in Int
  BY SoundSizes, ShardTypes DEF ShardOf
<1>3. q \in [SoundShards -> Int] /\ q[s] = ShardOf(f, s) /\ \A t \in SoundShards : t # s => q[t] = b[t]
  BY <1>1, <1>2 DEF BlockKept
<1>4. BlockKept(q, f, sent)
  BY <1>3 DEF BlockKept
<1> QED
  BY <1>1, <1>4

LEMMA DrainBegins ==
    ASSUME NEW sent \in Nat, NEW at \in Nat, at <= sent, NEW next, next = at % SEQ,
           NEW bs, BlocksKept(bs, at, sent), NEW pl, PlayedKept(pl, at), NEW e,
           e = [next |-> next, at |-> at, blocks |-> bs, played |-> pl, on |-> TRUE]
    PROVE  DrainKept(e, at, sent)
<1>1. IsDrain(e) /\ e.next = next /\ e.at = at /\ e.blocks = bs /\ e.played = pl
  BY DEF IsDrain
<1> QED
  BY <1>1 DEF DrainKept

LEMMA SoundTaken == ASSUME SoundInv, NEW p \in audioNet, TakeSound(p) PROVE SoundInv'
<1>1. PICK next, at :
        /\ next = IF nextSound # Absent THEN nextSound
                  ELSE IF p.shard < DATA_SHARDS THEN (p.first + p.shard) % SEQ ELSE BaseOf(p)
        /\ at = IF nextSound # Absent THEN soundAt
                ELSE p.first + (IF p.shard < DATA_SHARDS THEN p.shard ELSE 0)
  OBVIOUS
<1>2. /\ at \in Nat /\ at <= soundsSent /\ soundsSent <= at + AudioReach
      /\ next = at % SEQ /\ next # Absent
      /\ BlocksKept(blocks, at, soundsSent) /\ PlayedKept(played, at)
  BY <1>1, FirstSound
<1>3. PICK base : base = BaseOf(p)
  OBVIOUS
<1>4. PICK bs : bs = Put(blocks, base, [At(blocks, base) EXCEPT ![p.shard] = Carries(p)])
  OBVIOUS
<1>5. PICK e : e = [next |-> next, at |-> at, blocks |-> bs, played |-> LastOf(played), on |-> TRUE]
  OBVIOUS
<1>6. PICK d : d = SoundDrained(e)
  OBVIOUS
<1>7. /\ IF After(base, BlockOf(next)) < 0
         THEN nextSound' = next /\ soundAt' = at /\ UNCHANGED <<blocks, played>>
         ELSE nextSound' = d.next /\ soundAt' = d.at /\ blocks' = d.blocks /\ played' = d.played
      /\ UNCHANGED <<soundsSent, audioNet>>
  BY <1>1, <1>3, <1>4, <1>5, <1>6 DEF TakeSound
<1>8. soundsSent \in Nat /\ AudioReach \in Nat /\ SEQ \in Nat \ {0} /\ PacketKept(p, soundsSent)
      /\ \A q \in audioNet : PacketKept(q, soundsSent)
  BY SoundSizes DEF SoundInv
<1>9. CASE After(base, BlockOf(next)) < 0
  BY <1>2, <1>7, <1>8, <1>9 DEF SoundInv
<1>10. CASE ~ (After(base, BlockOf(next)) < 0)
  <2>1. PICK f \in Nat, s \in SoundShards :
          f = p.first /\ s = p.shard /\ f % DATA_SHARDS = 0 /\ ShardIsSent(f, s, soundsSent)
    BY <1>8 DEF PacketKept
  <2>2. base = f % SEQ /\ Carries(p) = ShardOf(f, s)
    BY <1>3, <2>1 DEF BaseOf, Carries, ShardOf
  <2>3. FirstAt(at) <= f /\ f < FirstAt(at) + SEQ
    BY <1>2, <1>3, <1>8, <1>10, <2>1, InReach
  <2>4. BlockKept(At(blocks, base), f, soundsSent)
    BY <1>2, <1>8, <2>1, <2>2, <2>3, BlockFound
  <2>5. BlockKept([At(blocks, base) EXCEPT ![s] = ShardOf(f, s)], f, soundsSent)
    BY <1>8, <2>1, <2>4, ShardPut
  <2>6. BlocksKept(bs, at, soundsSent)
    BY <1>2, <1>4, <1>8, <2>1, <2>2, <2>3, <2>5, PutKept
  <2>7. PlayedKept(LastOf(played), at)
    BY <1>2, LastPlayed
  <2>8. DrainKept(e, at, soundsSent)
    BY <1>2, <1>5, <1>8, <2>6, <2>7, DrainBegins
  <2>9. DrainKept(d, at, soundsSent)
    BY <1>2, <1>6, <1>8, <2>8, DrainKeeps
  <2>10. /\ d.at \in Nat /\ d.next = d.at % SEQ /\ at <= d.at /\ d.at <= soundsSent
         /\ BlocksKept(d.blocks, d.at, soundsSent) /\ PlayedKept(d.played, d.at)
    BY <2>9 DEF DrainKept, IsDrain
  <2>11. d.next # Absent
    <3>1. d.next \in 0 .. SEQ - 1
      BY <1>8, <2>10, Divided
    <3> QED
      BY <1>8, <3>1 DEF Absent
  <2>12. soundsSent <= d.at + AudioReach
    BY <1>2, <1>8, <2>10
  <2> QED
    BY <1>7, <1>8, <1>10, <2>10, <2>11, <2>12 DEF SoundInv
<1> QED
  BY <1>9, <1>10

LEMMA SoundSteps == ASSUME SoundInv, [GameAudioNext]_audioVars PROVE SoundInv'
<1>1. CASE SendSound
  BY <1>1, SoundSent
<1>2. CASE \E p \in audioNet : LoseSound(p)
  BY <1>2, SoundLost
<1>3. CASE \E p \in audioNet : TakeSound(p)
  BY <1>3, SoundTaken
<1>4. CASE UNCHANGED audioVars
  BY <1>4 DEF SoundInv, audioVars
<1> QED
  BY <1>1, <1>2, <1>3, <1>4 DEF GameAudioNext

LEMMA KeptInOrder == SoundInv => SoundInOrder
<1> SUFFICES ASSUME SoundInv PROVE SoundInOrder
  OBVIOUS
<1>1. PlayedKept(played, soundAt)
  BY DEF SoundInv
<1>2. DOMAIN played = 1 .. Len(played)
  BY <1>1 DEF PlayedKept
<1> QED
  BY <1>1, <1>2 DEF PlayedKept, SoundInOrder

\* AudioDepacketizer::add lets play in the order sent, each packet once and as
\* the number it was encrypted for, whatever is lost, repeated, late or rebuilt
\* (audio.rs, fec.rs), for blocks of any size and numbers that wrap anywhere.
THEOREM SoundPlaysInOrder == GameAudioSpec => []SoundInOrder
<1>1. GameAudioInit => SoundInv
  BY SoundBegins
<1>2. SoundInv /\ [GameAudioNext]_audioVars => SoundInv'
  BY SoundSteps
<1>3. SoundInv => SoundInOrder
  BY KeptInOrder
<1> QED
  BY <1>1, <1>2, <1>3, PTL DEF GameAudioSpec

\* What a GameStream client shows is repaired after a loss that leaves a packet of
\* its frame (video.rs), and what it plays is in order (audio.rs).
THEOREM MediaStaysInStep == GameVideoSpec /\ GameAudioSpec => []MediaInStep
<1>1. LossAsksForKeyframe /\ SoundInOrder => MediaInStep
  BY DEF MediaInStep
<1> QED
  BY <1>1, LossesAreRepaired, SoundPlaysInOrder, PTL
=============================================================================
