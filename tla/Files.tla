-------------------------------- MODULE Files ---------------------------------
(***************************************************************************)
(* File transfer over files channels (host-core/src/files.rs,              *)
(* client-core/src/files.rs): one file of a writable share at the host,    *)
(* uploaded and downloaded by the clients at the other end of the          *)
(* channels.  Per channel the host has one thread that handles requests in *)
(* order; the client makes one call at a time.  A file is apart from its   *)
(* name: a handle goes on writing to what was renamed or removed.  A byte  *)
(* is the source it was read from, and a chunk is one byte.                *)
(***************************************************************************)
EXTENDS Integers, Sequences, FiniteSets, FiniteSetsExt

CONSTANTS
    FileChannels,   \* the files channels, each with a client of its own
    Uses,           \* what the client of each is asked to do
    Sources,        \* the files clients have to upload
    SIZE,           \* their size
    ACK_EVERY,
    UPLOAD_WINDOW,
    MaxCalls,       \* bound: calls of the clients
    MaxKills        \* bound: times the host is killed

ASSUME FilesAssumption ==
    /\ SIZE \in Nat \ {0} /\ ACK_EVERY \in Nat \ {0} /\ UPLOAD_WINDOW \in Nat \ {0}
    /\ MaxCalls \in Nat /\ MaxKills \in Nat
    /\ IsFiniteSet(FileChannels)
    /\ Uses \in [FileChannels -> SUBSET {"ask", "upload", "download"}]

VARIABLES
    disk,       \* contents, by file
    target,     \* the file of that name, 0 for none
    partial,    \* the file of that name with PART_SUFFIX
    uploading,  \* FileService.upload, by channel
    placing,    \* the channels in finish() after the target was removed
    reading,    \* a download the channel's thread is in, by channel
    requests, replies,
    gone,       \* the channels that are closed
    fcall,      \* what the client of a channel is doing
    fcalls,     \* calls made so far
    ours, dest, \* the client's .wcpart, and the file downloaded
    kills,
    \* history
    stale,      \* the channels a call was given up on
    mixed,      \* two uploads were open at once, or one went on where another source's stopped
    renewed,    \* the clients that went on with a download of another file
    placed,     \* a file was put in place
    undone      \* ... and what was left of it was then overwritten
hostFiles == <<disk, target, partial, uploading, placing, reading>>
clientFiles == <<fcall, fcalls, ours, dest>>
fileHistory == <<stale, mixed, renewed, placed, undone>>
fileVars == <<hostFiles, requests, replies, gone, clientFiles, kills, fileHistory>>

NoPart == 0
Handles == 1 .. 2 * Cardinality(FileChannels) + 2
NoUpload == [file |-> NoPart, size |-> 0, written |-> 0, acked |-> 0]
NotReading == [file |-> NoPart, at |-> 0]
NoCall == [op |-> "idle", source |-> "", sent |-> 0, acked |-> 0, stage |-> "", resume |-> FALSE]
Bytes(s) == [n \in 1 .. SIZE |-> s]
Whole(c) == \E s \in Sources : c = Bytes(s)

\* A share that has the file, or does not.
FilesInit ==
    /\ target \in {NoPart, 1} /\ partial = NoPart
    /\ \E s \in Sources : disk = [f \in Handles |-> IF f = target THEN Bytes(s) ELSE <<>>]
    /\ uploading = [c \in FileChannels |-> NoUpload]
    /\ placing = {} /\ reading = [c \in FileChannels |-> NotReading]
    /\ requests = [c \in FileChannels |-> <<>>] /\ replies = [c \in FileChannels |-> <<>>]
    /\ gone = {}
    /\ fcall = [c \in FileChannels |-> NoCall] /\ fcalls = 0
    /\ ours = [c \in FileChannels |-> <<>>] /\ dest = [c \in FileChannels |-> <<>>]
    /\ kills = 0
    /\ stale = {} /\ mixed = FALSE /\ renewed = {} /\ placed = (target # NoPart) /\ undone = FALSE

-----------------------------------------------------------------------------
\* The client.  FilesClient::send.
Request(c, r) == requests' = [requests EXCEPT ![c] = Append(@, r)]

Returns(c) == fcall' = [fcall EXCEPT ![c] = NoCall]

\* A call on a channel that is closed returns an error and changes nothing.
Begins(c, call) ==
    /\ fcall[c].op = "idle" /\ call.op \in Uses[c]
    /\ fcalls < MaxCalls /\ c \notin gone
    /\ fcalls' = fcalls + 1
    /\ fcall' = [fcall EXCEPT ![c] = call]
    /\ UNCHANGED <<hostFiles, replies, gone, dest, kills>>

\* shares, list and stat: one request, one answer.
AskAbout(c) ==
    /\ Begins(c, [NoCall EXCEPT !.op = "ask"])
    /\ Request(c, [type |-> "Ask"])
    /\ UNCHANGED <<ours, fileHistory>>

\* upload, up to its first reply.
BeginUpload(c, s, resume) ==
    /\ Begins(c, [NoCall EXCEPT !.op = "upload", !.source = s, !.stage = "opening"])
    /\ Request(c, [type |-> "Write", size |-> SIZE, resume |-> resume])
    /\ UNCHANGED <<ours, fileHistory>>

\* download, up to its first reply: what is held of it decides where it goes on.
BeginDownload(c, resume) ==
    LET held == IF resume THEN Len(ours[c]) ELSE 0
    IN  /\ Begins(c, [NoCall EXCEPT !.op = "download", !.resume = held > 0])
        /\ Request(c, [type |-> "Read", offset |-> held])
        /\ ours' = [ours EXCEPT ![c] = IF held = 0 THEN <<>> ELSE @]
        /\ UNCHANGED fileHistory

Reply(c, type) ==
    /\ fcall[c].op # "idle"
    /\ replies[c] # <<>> /\ Head(replies[c]).type \in type
    /\ replies' = [replies EXCEPT ![c] = Tail(@)]

\* The reply ends the call: an answer, an Error, Done, or one of another request.
EndsCall(c) ==
    /\ Reply(c, {"Answer", "Ready", "Ack", "Done", "Chunk", "End", "Error"})
    /\ LET r == Head(replies[c]).type
           o == fcall[c]
       IN  ~ \/ o.op = "upload" /\ o.stage = "opening" /\ r = "Ready"
             \/ o.op = "upload" /\ o.stage # "opening" /\ r = "Ack"
             \/ o.op = "download" /\ r \in {"Chunk", "End"}
    /\ Returns(c)
    /\ UNCHANGED <<hostFiles, requests, gone, fcalls, ours, dest, kills, fileHistory>>

\* upload: Ready says where to go on from.
TakeReady(c) ==
    /\ Reply(c, {"Ready"})
    /\ fcall[c].op = "upload" /\ fcall[c].stage = "opening"
    /\ LET at == Head(replies[c]).offset
       IN  fcall' = [fcall EXCEPT ![c] = [@ EXCEPT !.stage = "sending", !.sent = at, !.acked = at]]
    /\ UNCHANGED <<hostFiles, requests, gone, fcalls, ours, dest, kills, fileHistory>>

TakeAck(c) ==
    /\ Reply(c, {"Ack"})
    /\ fcall[c].op = "upload" /\ fcall[c].stage # "opening"
    /\ fcall' = [fcall EXCEPT ![c].acked = Max({@, Head(replies[c]).written})]
    /\ UNCHANGED <<hostFiles, requests, gone, fcalls, ours, dest, kills, fileHistory>>

\* ... the next chunk once the window has room (a reply that is there is taken first),
\* and Finish after the last.
SendChunk(c) ==
    /\ fcall[c].op = "upload" /\ fcall[c].stage = "sending"
    /\ fcall[c].sent < SIZE
    /\ replies[c] = <<>> /\ c \notin gone
    /\ fcall[c].sent - fcall[c].acked < UPLOAD_WINDOW
    /\ Request(c, [type |-> "Chunk", byte |-> fcall[c].source])
    /\ fcall' = [fcall EXCEPT ![c].sent = @ + 1]
    /\ UNCHANGED <<hostFiles, replies, gone, fcalls, ours, dest, kills, fileHistory>>

SendFinish(c) ==
    /\ fcall[c].op = "upload" /\ fcall[c].stage = "sending"
    /\ fcall[c].sent >= SIZE
    /\ Request(c, [type |-> "Finish"])
    /\ fcall' = [fcall EXCEPT ![c].stage = "finishing"]
    /\ UNCHANGED <<hostFiles, replies, gone, fcalls, ours, dest, kills, fileHistory>>

\* download: a chunk, and the end of the file.
TakeChunk(c) ==
    /\ Reply(c, {"Chunk"})
    /\ fcall[c].op = "download"
    /\ ours' = [ours EXCEPT ![c] = Append(@, Head(replies[c]).byte)]
    /\ renewed' = IF fcall[c].resume /\ ours[c][1] # Head(replies[c]).byte
                  THEN renewed \cup {c} ELSE renewed
    /\ UNCHANGED <<hostFiles, requests, gone, fcall, fcalls, dest, kills, stale, mixed, placed, undone>>

TakeEnd(c) ==
    /\ Reply(c, {"End"})
    /\ fcall[c].op = "download"
    /\ IF Len(ours[c]) = Head(replies[c]).size
       THEN /\ dest' = [dest EXCEPT ![c] = ours[c]]
            /\ ours' = [ours EXCEPT ![c] = <<>>]
       ELSE UNCHANGED <<dest, ours>>
    /\ Returns(c)
    /\ UNCHANGED <<hostFiles, requests, gone, fcalls, kills, fileHistory>>

\* REPLY_WITHIN passes without a reply: the call returns an error.  The host may
\* still answer on the channel.
GiveUpCall(c) ==
    /\ fcall[c].op # "idle" /\ replies[c] = <<>> /\ c \notin gone
    /\ Returns(c)
    /\ stale' = stale \cup {c}
    /\ UNCHANGED <<hostFiles, requests, replies, gone, fcalls, ours, dest, kills,
                   mixed, renewed, placed, undone>>

\* The channel is closed: by the client between calls, or with its session.
CloseFiles(c) ==
    /\ c \notin gone
    /\ gone' = gone \cup {c}
    /\ replies' = [replies EXCEPT ![c] = <<>>]
    /\ Returns(c)
    /\ UNCHANGED <<hostFiles, requests, fcalls, ours, dest, kills, fileHistory>>

-----------------------------------------------------------------------------
\* The host: FileService::handle in the thread of a channel, which goes on to the end
\* of what it was sent when the channel is closed.
Emits(c, r) == replies' = [replies EXCEPT ![c] = IF c \in gone THEN @ ELSE Append(@, r)]

Handling(c, types) ==
    /\ reading[c] = NotReading
    /\ c \notin placing
    /\ requests[c] # <<>> /\ Head(requests[c]).type \in types
    /\ requests' = [requests EXCEPT ![c] = Tail(@)]
    /\ UNCHANGED <<gone, clientFiles, kills>>

AnswersAsk(c) ==
    /\ Handling(c, {"Ask"})
    /\ Emits(c, [type |-> "Answer"])
    /\ UNCHANGED <<hostFiles, fileHistory>>

\* Shares::resolve_existing, resolve_new and writable: a share that is not there or
\* read-only, a path that is spelt wrong, leads out or does not exist, a size too large.
RefusesPath(c) ==
    /\ Handling(c, {"Read", "Write", "Ask"})
    /\ uploading' = [uploading EXCEPT ![c] = IF Head(requests[c]).type = "Write" THEN NoUpload ELSE @]
    /\ Emits(c, [type |-> "Error"])
    /\ UNCHANGED <<disk, target, partial, placing, reading, fileHistory>>

\* Bug to catch: a part that is complete is begun again.
HeldShort(resume) ==
    LET l == IF partial = NoPart THEN 0 ELSE Len(disk[partial])
    IN  IF ~ resume \/ l >= SIZE THEN 0 ELSE l

\* begin_upload: how much of the part to keep.
Held(resume) ==
    LET l == IF partial = NoPart THEN 0 ELSE Len(disk[partial])
    IN  IF ~ resume \/ l > SIZE THEN 0 ELSE l

\* A number for a file that is made: none that has a name or is open.
Unused == CHOOSE f \in Handles :
    f \notin {target, partial} \cup {uploading[c].file : c \in FileChannels}
             \cup {reading[c].file : c \in FileChannels}

\* begin_upload.
OpensUpload(c) ==
    /\ Handling(c, {"Write"})
    /\ LET held == Held(Head(requests[c]).resume)
           f == IF partial = NoPart THEN Unused ELSE partial
           others == {d \in FileChannels \ {c} : uploading[d].file # NoPart \/ d \in placing}
       IN  /\ partial' = f
           /\ disk' = [disk EXCEPT ![f] = IF held = 0 THEN <<>> ELSE @]
           /\ uploading' = [uploading EXCEPT ![c] =
                 [file |-> f, size |-> SIZE, written |-> held, acked |-> held]]
           /\ Emits(c, [type |-> "Ready", offset |-> held])
           /\ mixed' = (mixed \/ others # {})
           /\ undone' = (undone \/ (target = NoPart /\ partial # NoPart /\ ~ Head(requests[c]).resume))
    /\ UNCHANGED <<target, placing, reading, stale, renewed, placed>>

WriteAt(bytes, n, b) ==
    [i \in 1 .. Max({Len(bytes), n}) |->
        IF i = n THEN b ELSE IF i <= Len(bytes) THEN bytes[i] ELSE "hole"]

\* What an upload has written once n bytes have come, and when that is acknowledged.
AckIsDue(u, n) == n - u.acked >= ACK_EVERY
Counted(u, n) == [u EXCEPT !.written = n, !.acked = IF AckIsDue(u, n) THEN n ELSE @]

\* chunk.
WritesChunk(c) ==
    /\ Handling(c, {"Chunk"})
    /\ LET u == uploading[c]
           n == u.written + 1
           b == Head(requests[c]).byte
       IN  IF u = NoUpload \/ n > u.size
           THEN /\ uploading' = [uploading EXCEPT ![c] = NoUpload]
                /\ Emits(c, [type |-> "Error"])
                /\ UNCHANGED <<disk, mixed>>
           ELSE /\ disk' = [disk EXCEPT ![u.file] = WriteAt(@, n, b)]
                /\ uploading' = [uploading EXCEPT ![c] = Counted(u, n)]
                /\ IF AckIsDue(u, n)
                   THEN Emits(c, [type |-> "Ack", written |-> n])
                   ELSE UNCHANGED replies
                /\ mixed' = (mixed \/ (n > 1 /\ disk[u.file][1] # b))
    /\ UNCHANGED <<target, partial, placing, reading, stale, renewed, placed, undone>>

AllArrived(u) == u # NoUpload /\ u.written = u.size

\* finish, as far as the removal of the file it replaces...
Finishes(c) ==
    /\ Handling(c, {"Finish"})
    /\ IF AllArrived(uploading[c])
       THEN /\ placing' = placing \cup {c}
            /\ uploading' = [uploading EXCEPT ![c] = NoUpload]
            /\ target' = NoPart
            /\ UNCHANGED replies
       ELSE /\ Emits(c, [type |-> "Error"])
            /\ UNCHANGED <<placing, uploading, target>>
    /\ UNCHANGED <<disk, partial, reading, fileHistory>>

\* ... and the renaming, which fails when another upload took the part away.
PutsInPlace(c) ==
    /\ c \in placing
    /\ placing' = placing \ {c}
    /\ IF partial = NoPart
       THEN /\ Emits(c, [type |-> "Error"])
            /\ UNCHANGED <<target, partial, placed>>
       ELSE /\ target' = partial
            /\ partial' = NoPart
            /\ placed' = TRUE
            /\ Emits(c, [type |-> "Done"])
    /\ UNCHANGED <<disk, uploading, reading, requests, gone, clientFiles, kills,
                   stale, mixed, renewed, undone>>

\* read: opened at the offset, then chunk by chunk until the end or the channel's.
OpensFile(c) ==
    /\ Handling(c, {"Read"})
    /\ LET at == Head(requests[c]).offset
       IN  IF target = NoPart \/ at > Len(disk[target])
           THEN Emits(c, [type |-> "Error"]) /\ UNCHANGED reading
           ELSE /\ reading' = [reading EXCEPT ![c] = [file |-> target, at |-> at]]
                /\ UNCHANGED replies
    /\ UNCHANGED <<disk, target, partial, uploading, placing, fileHistory>>

ReadsOn(c) ==
    LET r == reading[c]
    IN  /\ r # NotReading
        /\ IF c \in gone \/ r.at >= Len(disk[r.file])
           THEN /\ reading' = [reading EXCEPT ![c] = NotReading]
                /\ Emits(c, [type |-> "End", size |-> Len(disk[r.file])])
           ELSE /\ reading' = [reading EXCEPT ![c].at = @ + 1]
                /\ Emits(c, [type |-> "Chunk", byte |-> disk[r.file][r.at + 1]])
        /\ UNCHANGED <<disk, target, partial, uploading, placing, requests, gone, clientFiles,
                       kills, fileHistory>>

\* The host is killed: its files stay as they are, every channel is gone.
KillHost ==
    /\ kills < MaxKills
    /\ kills' = kills + 1
    /\ uploading' = [c \in FileChannels |-> NoUpload]
    /\ reading' = [c \in FileChannels |-> NotReading]
    /\ placing' = {}
    /\ requests' = [c \in FileChannels |-> <<>>]
    /\ replies' = [c \in FileChannels |-> <<>>]
    /\ fcall' = [c \in FileChannels |-> NoCall]
    /\ UNCHANGED <<disk, target, partial, gone, fcalls, ours, dest, fileHistory>>

FilesNext ==
    \/ KillHost
    \/ \E c \in FileChannels :
         \/ AskAbout(c) \/ EndsCall(c) \/ TakeReady(c) \/ TakeAck(c) \/ SendChunk(c)
         \/ SendFinish(c) \/ TakeChunk(c) \/ TakeEnd(c) \/ GiveUpCall(c) \/ CloseFiles(c)
         \/ AnswersAsk(c) \/ RefusesPath(c) \/ OpensUpload(c) \/ WritesChunk(c) \/ Finishes(c)
         \/ PutsInPlace(c) \/ OpensFile(c) \/ ReadsOn(c)
         \/ \E resume \in BOOLEAN :
              \/ BeginDownload(c, resume)
              \/ \E s \in Sources : BeginUpload(c, s, resume)

FilesSpec == FilesInit /\ [][FilesNext]_fileVars

-----------------------------------------------------------------------------
\* "The host puts the file in place only when all of it has arrived" (upload), and a
\* download is renamed when complete: whatever was killed, closed or begun again,
\* the file under the name is one that somebody has, and so is what was downloaded.
\* Not so when two uploads of the name overlapped, or an upload went on where another
\* source's had stopped; and a download that went on with a file since replaced, or
\* on a channel where an earlier call had been given up, may be anything.
FilesAreWhole ==
    ~ mixed =>
        /\ target # NoPart => Whole(disk[target])
        /\ \A c \in FileChannels \ (stale \cup renewed) : dest[c] # <<>> => Whole(dest[c])

\* An upload that replaces a file removes it first, and the host may be killed then:
\* one of the two is there, under its name or as a complete part that an upload with
\* `resume` puts in place, until an upload without it overwrites the part.
OldOrNewIsThere ==
    placed /\ ~ mixed /\ ~ undone =>
        \/ target # NoPart
        \/ partial # NoPart /\ Whole(disk[partial])

-----------------------------------------------------------------------------
(***************************************************************************)
(* Folder watch (host-core/src/watch.rs, client-core/src/files.rs): the    *)
(* host looks at a folder, sends each file that changed and then stopped   *)
(* changing, and the client files it under the same name.  One file of the *)
(* folder, that a program of the host writes in place, removes and makes   *)
(* again while it is looked at and read; a byte is the version that wrote  *)
(* it.  Time is in polls of POLL_EVERY.                                    *)
(***************************************************************************)

CONSTANTS
    DEBOUNCE,       \* in polls
    Lengths,        \* the lengths of the file
    MaxVersions     \* bound: times the program writes the file

ASSUME WatchAssumption ==
    /\ DEBOUNCE \in Nat /\ MaxVersions \in Nat
    /\ Lengths \subseteq Nat \ {0}

VARIABLES
    saveFile,   \* the file's bytes, NoFile when there is none
    version,    \* the last version written; with the length, the stamp
    locked,     \* whether a program keeps others from opening it
    seen,       \* Watcher.seen of the file
    streaming,  \* stream(): the file it has open and how far it is
    watching,   \* the host's thread: "on", "cancelled", "over"
    wire,       \* replies on their way
    incoming,   \* the client's file on its way in
    saved,      \* the client's copy
    receiver,   \* the client's thread: "on", "closing", "over"
    missed      \* history: the version whose reading failed at the host
watchVars == <<saveFile, version, locked, seen, streaming, watching, wire, incoming, saved,
               receiver, missed>>

NoFile == <<>>
NotSeen == [stamp |-> <<0, 0>>, age |-> -1, sent |-> <<0, 0>>]
Still == [bytes |-> NoFile, at |-> -1, size |-> 0, live |-> FALSE]
NoIncoming == [size |-> 0, bytes |-> <<>>]

StampOf == <<Len(saveFile), version>>
WatchReply(type) == [type |-> type, size |-> 0, byte |-> 0]

\* Watcher::new.  Files that are there count as sent unless `existing` was asked for.
WatchInit ==
    /\ saveFile \in {NoFile} \cup {[i \in 1 .. n |-> 1] : n \in Lengths}
    /\ version = 1 /\ locked = FALSE
    /\ \E existing \in BOOLEAN :
         seen = IF saveFile = NoFile THEN NotSeen
                ELSE [stamp |-> StampOf, age |-> 0,
                      sent |-> IF existing THEN <<0, 0>> ELSE StampOf]
    /\ streaming = Still /\ watching = "on" /\ wire = <<>>
    /\ incoming = NoIncoming /\ receiver = "on" /\ missed = 0
    /\ saved = IF seen.sent = StampOf THEN saveFile ELSE NoFile

-----------------------------------------------------------------------------
\* A program of the host, which may go on keeping the file to itself.
Save(n, keep) ==
    /\ version < MaxVersions
    /\ version' = version + 1
    /\ saveFile' = [i \in 1 .. n |-> version']
    /\ locked' = keep
    /\ UNCHANGED <<seen, streaming, watching, wire, incoming, saved, receiver, missed>>

\* What is open stays readable; the file made next is another one.
Remove ==
    /\ saveFile # NoFile /\ version < MaxVersions
    /\ saveFile' = NoFile
    /\ streaming' = IF streaming.live THEN [streaming EXCEPT !.bytes = saveFile, !.live = FALSE]
                    ELSE streaming
    /\ UNCHANGED <<version, locked, seen, watching, wire, incoming, saved, receiver, missed>>

Unlock ==
    /\ locked
    /\ locked' = FALSE
    /\ UNCHANGED <<saveFile, version, seen, streaming, watching, wire, incoming, saved, receiver, missed>>

-----------------------------------------------------------------------------
\* The host's thread.
Looked ==
    IF saveFile = NoFile THEN NotSeen
    ELSE IF seen = NotSeen \/ seen.stamp # StampOf
         THEN [stamp |-> StampOf, age |-> 0, sent |-> seen.sent]
         ELSE [seen EXCEPT !.age = IF @ < DEBOUNCE THEN @ + 1 ELSE @]

\* Bug to catch: a file is sent when it was not sent before, changed or not.
SettledFirst(s) == s.age >= DEBOUNCE /\ s.sent = <<0, 0>>

Settled(s) == s.age >= DEBOUNCE /\ s.sent # s.stamp

\* poll: the file to send is marked as sent before it is opened.
Poll ==
    /\ watching = "on" /\ streaming = Still
    /\ LET s == Looked
           ready == s # NotSeen /\ Settled(s) /\ ~ locked
       IN  /\ seen' = IF ready THEN [s EXCEPT !.sent = s.stamp] ELSE s
           /\ streaming' = IF ready THEN [Still EXCEPT !.at = 0, !.size = Len(saveFile)] ELSE Still
    /\ UNCHANGED <<saveFile, version, locked, watching, wire, incoming, saved, receiver, missed>>

Sends(r) == wire' = IF receiver = "over" THEN wire ELSE Append(wire, r)

\* stream: the file is opened and announced, ...
OpenToStream ==
    /\ watching = "on" /\ streaming # Still /\ ~ streaming.live /\ streaming.bytes = NoFile
    /\ saveFile # NoFile /\ ~ locked
    /\ streaming' = [streaming EXCEPT !.live = TRUE]
    /\ Sends([WatchReply("File") EXCEPT !.size = streaming.size])
    /\ UNCHANGED <<saveFile, version, locked, seen, watching, incoming, saved, receiver, missed>>

\* ... or it cannot be opened, or read on: it is looked at again as it changes.
StreamFails ==
    /\ streaming # Still
    /\ streaming.bytes = NoFile /\ (streaming.live \/ saveFile = NoFile \/ locked)
    /\ streaming' = Still
    /\ missed' = version
    /\ UNCHANGED <<saveFile, version, locked, seen, watching, wire, incoming, saved, receiver>>

\* ... read and sent chunk by chunk, until nothing is left to read.
StreamOn ==
    /\ watching = "on" /\ (streaming.live \/ streaming.bytes # NoFile)
    /\ LET now == IF streaming.live THEN saveFile ELSE streaming.bytes
           n == streaming.at + 1
       IN  IF n <= Len(now)
           THEN /\ streaming' = [streaming EXCEPT !.at = n]
                /\ Sends([WatchReply("Chunk") EXCEPT !.byte = now[n]])
           ELSE /\ streaming' = Still
                /\ Sends(WatchReply("End"))
    /\ UNCHANGED <<saveFile, version, locked, seen, watching, incoming, saved, receiver, missed>>

\* kill: the channel is closed or its session ended, and the thread sees the flag.
CancelWatch ==
    /\ watching = "on" /\ receiver = "over"
    /\ watching' = "over" /\ streaming' = Still
    /\ UNCHANGED <<saveFile, version, locked, seen, wire, incoming, saved, receiver, missed>>

-----------------------------------------------------------------------------
\* The client's thread: receive.  A watch that fails or is stopped leaves no part.
EndReceiver ==
    /\ receiver' = "over"
    /\ incoming' = NoIncoming
    /\ wire' = <<>>

StopWatch ==
    /\ receiver = "on"
    /\ EndReceiver
    /\ UNCHANGED <<saveFile, version, locked, seen, streaming, watching, saved, missed>>

TakeReply(type) ==
    /\ receiver = "on"
    /\ wire # <<>> /\ Head(wire).type = type
    /\ UNCHANGED <<saveFile, version, locked, seen, streaming, watching, missed>>

ReceiveFile ==
    /\ TakeReply("File")
    /\ wire' = Tail(wire)
    /\ incoming' = [size |-> Head(wire).size, bytes |-> <<>>]
    /\ UNCHANGED <<saved, receiver>>

\* More than was announced ends the watch.
ReceiveChunk ==
    /\ TakeReply("Chunk")
    /\ IF Len(incoming.bytes) + 1 > incoming.size
       THEN EndReceiver
       ELSE /\ incoming' = [incoming EXCEPT !.bytes = Append(@, Head(wire).byte)]
            /\ wire' = Tail(wire)
            /\ UNCHANGED receiver
    /\ UNCHANGED saved

\* Less than was announced is dropped.
ReceiveEnd ==
    /\ TakeReply("End")
    /\ wire' = Tail(wire)
    /\ saved' = IF incoming # NoIncoming /\ Len(incoming.bytes) = incoming.size
                THEN incoming.bytes ELSE saved
    /\ incoming' = NoIncoming
    /\ UNCHANGED receiver

WatchStep == Poll \/ OpenToStream \/ StreamFails \/ StreamOn \/ CancelWatch
ReceiveStep == ReceiveFile \/ ReceiveChunk \/ ReceiveEnd

WatchNext ==
    \/ Remove \/ Unlock \/ StopWatch \/ WatchStep \/ ReceiveStep
    \/ \E n \in Lengths, keep \in BOOLEAN : Save(n, keep)

WatchFairness == WF_watchVars(WatchStep) /\ WF_watchVars(ReceiveStep)

WatchSpec == WatchInit /\ [][WatchNext]_watchVars

-----------------------------------------------------------------------------
\* Nothing is being read, on its way or coming in.
WatchQuiet == streaming = Still /\ wire = <<>> /\ incoming = NoIncoming

\* As long as the watch is on, the client's copy becomes the file, unless a program keeps
\* the file to itself or the host failed to read it.
WatchCatchesUp == WatchFairness =>
    <>[](receiver = "over" \/ saveFile = NoFile \/ locked \/ missed = version \/ saved = saveFile)

\* Uploads and downloads whose host is killed, whose channel closes or whose call
\* is made again at any step (files.rs): the name never stands for part of a file,
\* and a replaced file is there, old or new.
FilesAreKept == FilesAreWhole /\ OldOrNewIsThere
=============================================================================
