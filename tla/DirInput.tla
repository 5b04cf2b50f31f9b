------------------------------ MODULE DirInput ------------------------------
(***************************************************************************)
(* The directory input of the agent (input/dir.go): one log directory,     *)
(* the application that writes and rotates its files, and the Input that   *)
(* reads them, oldest first, for a Runner.                                 *)
(*                                                                         *)
(* A record is one line, numbered in the order the application writes;     *)
(* offsets count lines.  A file is an inode with its lines, reached by     *)
(* name through the directory; its name may move to another inode.  The    *)
(* modification times are kept as the order they give (`older'); no two    *)
(* are equal.  A file fits the 1 MB read buffer.  To list the directory    *)
(* and to open a file of it is one step.                                   *)
(*                                                                         *)
(* ReadBatch may return before any line, for the sake of its deadline,     *)
(* its size or its context.  The Runner is there as the caller: it has a   *)
(* batch in hand until it commits, and loses it when it crashes.           *)
(***************************************************************************)
EXTENDS Naturals, Sequences, Functions

CONSTANTS
    Name,           \* file names in the directory
    Active,         \* the name the application writes under when it renames
    Inode,          \* inode numbers
    MaxRecords,     \* bound: lines the application ever writes
    MaxRestarts,    \* bound: how often the agent comes up again
    MaxHandled,     \* bound: how often a file is renamed, cut or removed
    Habits,         \* what the application does to its files
    Careful,        \* whether it does so only to what is already collected
    ReuseInodes     \* whether the file system gives a free inode out again

ASSUME DirAssumption ==
    /\ Active \in Name
    /\ MaxRecords \in Nat
    /\ MaxRestarts \in Nat
    /\ MaxHandled \in Nat
    /\ Habits \subseteq {"dated", "rename", "truncate", "remove"}
    /\ Careful \in BOOLEAN
    /\ ReuseInodes \in BOOLEAN

NoInode == "none"
NoName == "none"

ASSUME NoneAssumption == NoInode \notin Inode /\ NoName \notin Name

VARIABLES
    \* the file system and the application
    link,           \* the inode of a name
    content,        \* the lines of an inode
    older,          \* pairs of linked inodes, the first one modified before the second
    used,           \* inodes given out so far
    appFd,          \* the inode the application has open
    appended,       \* lines written so far
    handled,        \* how often a file was renamed, cut or removed
    \* the Input
    pc,             \* where ReadBatch is; "out": it is not running
    currentFile,    \* dirInput.currentFile
    fd,             \* the inode of dirInput.currentF, which is currentInode
    offset,         \* dirInput.offset
    buffer,         \* lines in dirInput.reader that were not consumed
    doneInodes,     \* the keys of dirInput.doneInodes
    disk,           \* the state file at MetaPath
    restarts,       \* how often the agent came up again
    \* the caller
    hand,           \* records read since the last Commit
    taken,          \* records the caller is through with
    \* read by the properties only
    late            \* records written behind the reader's back

files == <<link, content, older, used>>
app == <<appFd, appended, handled>>
reader == <<currentFile, fd, offset, buffer, doneInodes>>
caller == <<hand, taken>>
vars == <<files, app, pc, reader, disk, restarts, caller, late>>

Record == 1..MaxRecords

State == [file: Name \cup {NoName}, offset: 0..MaxRecords, done: SUBSET Inode]

TypeOK ==
    /\ link \in [Name -> Inode \cup {NoInode}]
    /\ content \in [Inode -> Seq(Record)]
    /\ older \subseteq Inode \X Inode
    /\ used \subseteq Inode
    /\ appFd \in Inode \cup {NoInode}
    /\ appended \in 0..MaxRecords
    /\ handled \in 0..MaxHandled
    /\ pc \in {"out", "line", "check", "read", "advance", "closed", "down"}
    /\ currentFile \in Name \cup {NoName}
    /\ fd \in Inode \cup {NoInode}
    /\ offset \in 0..MaxRecords
    /\ buffer \in Seq(Record)
    /\ doneInodes \subseteq Inode
    /\ disk \in State
    /\ restarts \in 0..MaxRestarts
    /\ hand \subseteq Record
    /\ taken \subseteq Record
    /\ late \subseteq Record

-----------------------------------------------------------------------------

Linked == {i \in Inode : \E n \in Name : link[n] = i}

NameOf(i) == CHOOSE n \in Name : link[n] = i

LinesOf(i) == Range(content[i])

\* The order of the modification times without an inode, and with one that has just
\* been modified.
Without(i) == {p \in older : i \notin {p[1], p[2]}}

Touched(i) == Without(i) \cup ((Linked \ {i}) \X {i})

Oldest(S) == {i \in S : \A j \in S \ {i} : <<i, j>> \in older}

\* The application may do this; if it is careful, only to a file that is collected.
MayHandle(i, habit) ==
    /\ handled < MaxHandled
    /\ habit \in Habits
    /\ Careful => LinesOf(i) \subseteq taken

\* A new, empty file under a name that is free.
CreateFile(n) ==
    /\ link[n] = NoInode
    /\ \E i \in Inode \ (Linked \cup {appFd, fd}) :
           /\ ReuseInodes \/ i \notin used
           /\ link' = [link EXCEPT ![n] = i]
           /\ content' = [content EXCEPT ![i] = <<>>]
           /\ older' = Touched(i)
           /\ used' = used \cup {i}
           /\ appFd' = i

Init ==
    /\ link = [n \in Name |-> NoInode]
    /\ content = [i \in Inode |-> <<>>]
    /\ older = {}
    /\ used = {}
    /\ appFd = NoInode
    /\ appended = 0
    /\ handled = 0
    /\ pc = "out"
    /\ currentFile = NoName
    /\ fd = NoInode
    /\ offset = 0
    /\ buffer = <<>>
    /\ doneInodes = {}
    /\ disk = [file |-> NoName, offset |-> 0, done |-> {}]
    /\ restarts = 0
    /\ hand = {}
    /\ taken = {}
    /\ late = {}

-----------------------------------------------------------------------------
(* The application.                                                        *)

\* The reader has met the end of the file and is about to look for another, or
\* has left the file after it was renamed.
BehindReader(i) ==
    \/ i = fd /\ pc = "advance"
    \/ i \in doneInodes /\ link[Active] # i

\* A line is written, through the file the application has open.
Write ==
    /\ appFd # NoInode
    /\ appended < MaxRecords
    /\ appended' = appended + 1
    /\ content' = [content EXCEPT ![appFd] = Append(@, appended + 1)]
    /\ older' = IF appFd \in Linked THEN Touched(appFd) ELSE older
    /\ late' = IF BehindReader(appFd) THEN late \cup {appended + 1} ELSE late
    /\ UNCHANGED <<link, used, appFd, handled, pc, reader, disk, restarts, caller>>

\* The application opens its first file, goes on to a file of another name, or opens
\* its name anew after a rename.
OpenNext ==
    /\ \E n \in Name :
           /\ \/ appFd = NoInode /\ n = Active
              \/ "dated" \in Habits /\ appFd # NoInode
              \/ "rename" \in Habits /\ n = Active
           /\ CreateFile(n)
    /\ UNCHANGED <<appended, handled, pc, reader, disk, restarts, caller, late>>

\* The active file gets another name; a file that had that name is gone.  A careful
\* application has closed the file before, and waits for the reader to be there.
Rename ==
    /\ link[Active] # NoInode
    /\ MayHandle(link[Active], "rename")
    /\ Careful => fd = link[Active]
    /\ \E n \in Name \ {Active} :
           /\ link[n] # NoInode => MayHandle(link[n], "rename")
           /\ link' = [link EXCEPT ![n] = link[Active], ![Active] = NoInode]
           /\ older' = Without(link[n])
    /\ appFd' = IF Careful THEN NoInode ELSE appFd
    /\ handled' = handled + 1
    /\ UNCHANGED <<content, used, appended, pc, reader, disk, restarts, caller, late>>

\* The file the application has open is cut to nothing (copytruncate).
Truncate ==
    /\ appFd \in Linked
    /\ content[appFd] # <<>>
    /\ MayHandle(appFd, "truncate")
    /\ content' = [content EXCEPT ![appFd] = <<>>]
    /\ older' = Touched(appFd)
    /\ handled' = handled + 1
    /\ UNCHANGED <<link, used, appFd, appended, pc, reader, disk, restarts, caller, late>>

\* An old file is removed.
Unlink ==
    /\ \E n \in Name :
           /\ link[n] \notin {NoInode, appFd}
           /\ MayHandle(link[n], "remove")
           /\ link' = [link EXCEPT ![n] = NoInode]
           /\ older' = Without(link[n])
    /\ handled' = handled + 1
    /\ UNCHANGED <<content, used, appFd, appended, pc, reader, disk, restarts, caller, late>>

-----------------------------------------------------------------------------
(* The Input.                                                              *)

\* The caller calls ReadBatch.
ReadBatch ==
    /\ pc = "out"
    /\ pc' = "line"
    /\ UNCHANGED <<files, app, reader, disk, restarts, caller, late>>

\* The loop of ReadBatch ends before the next line.
Return ==
    /\ pc = "line"
    /\ pc' = "out"
    /\ UNCHANGED <<files, app, reader, disk, restarts, caller, late>>

\* The state of an open file at a given offset.
Opened(i, at) ==
    /\ currentFile' = NameOf(i)
    /\ fd' = i
    /\ offset' = at
    /\ buffer' = <<>>

\* Mutation: without a state, reading starts at the end of a file.
MutOpenFile ==
    /\ pc = "line"
    /\ fd = NoInode
    /\ \/ /\ currentFile # NoName
          /\ link[currentFile] # NoInode
          /\ Opened(link[currentFile], offset)
          /\ pc' = "check"
       \/ /\ currentFile = NoName
          /\ \E i \in Oldest(Linked) : Opened(i, Len(content[i]))
          /\ pc' = "check"
       \/ /\ IF currentFile = NoName THEN Linked = {} ELSE link[currentFile] = NoInode
          /\ currentFile' = NoName
          /\ pc' = "advance"
          /\ UNCHANGED <<fd, offset, buffer>>
    /\ UNCHANGED <<files, app, doneInodes, disk, restarts, caller, late>>

\* openFile: currentFile at the saved offset, whatever inode it is now, or else the
\* oldest file.  To seek beyond the end of a file is no error.
OpenFile ==
    /\ pc = "line"
    /\ fd = NoInode
    /\ \/ /\ currentFile # NoName
          /\ link[currentFile] # NoInode
          /\ Opened(link[currentFile], offset)
          /\ pc' = "check"
       \/ /\ currentFile = NoName
          /\ \E i \in Oldest(Linked) : Opened(i, 0)
          /\ pc' = "check"
       \/ /\ IF currentFile = NoName THEN Linked = {} ELSE link[currentFile] = NoInode
          /\ currentFile' = NoName
          /\ pc' = "advance"
          /\ UNCHANGED <<fd, offset, buffer>>
    /\ UNCHANGED <<files, app, doneInodes, disk, restarts, caller, late>>

\* The name of the current file leads elsewhere, or the file has become shorter than
\* what was read of it.
Rotated == link[currentFile] # fd \/ Len(content[fd]) < offset

\* Mutation: what is marked is the file that is found under the name.
MutDetectRotation ==
    /\ pc = "check" \/ (pc = "line" /\ fd # NoInode)
    /\ IF Rotated
          THEN /\ doneInodes' = doneInodes \cup ({link[currentFile]} \ {NoInode})
               /\ currentFile' = NoName
               /\ fd' = NoInode
               /\ offset' = 0
               /\ buffer' = <<>>
               /\ pc' = "advance"
          ELSE /\ pc' = "read"
               /\ UNCHANGED reader
    /\ UNCHANGED <<files, app, disk, restarts, caller, late>>

\* readLine, before it reads: a file that was rotated is marked done and closed.
DetectRotation ==
    /\ pc = "check" \/ (pc = "line" /\ fd # NoInode)
    /\ IF Rotated
          THEN /\ doneInodes' = doneInodes \cup {fd}
               /\ currentFile' = NoName
               /\ fd' = NoInode
               /\ offset' = 0
               /\ buffer' = <<>>
               /\ pc' = "advance"
          ELSE /\ pc' = "read"
               /\ UNCHANGED reader
    /\ UNCHANGED <<files, app, disk, restarts, caller, late>>

\* What the reader can return without asking for more: its buffer, or what a
\* read of the file would fill it with.
Available ==
    IF buffer # <<>> THEN buffer ELSE SubSeq(content[fd], offset + 1, Len(content[fd]))

\* Mutation: the offset moves by the size of the read.
MutReadLine ==
    /\ pc = "read"
    /\ Available # <<>>
    /\ offset' = offset + Len(Available)
    /\ buffer' = Tail(Available)
    /\ hand' = hand \cup {Head(Available)}
    /\ pc' = "line"
    /\ UNCHANGED <<files, app, currentFile, fd, doneInodes, disk, restarts, taken, late>>

\* readLine returns a line, which joins the batch.
ReadLine ==
    /\ pc = "read"
    /\ Available # <<>>
    /\ offset' = offset + 1
    /\ buffer' = Tail(Available)
    /\ hand' = hand \cup {Head(Available)}
    /\ pc' = "line"
    /\ UNCHANGED <<files, app, currentFile, fd, doneInodes, disk, restarts, taken, late>>

\* readLine meets the end of the file.
ReadEOF ==
    /\ pc = "read"
    /\ Available = <<>>
    /\ pc' = "advance"
    /\ UNCHANGED <<files, app, reader, disk, restarts, caller, late>>

\* The files advanceFile may open: those that are neither done nor found under the
\* name of the current file.
Candidates ==
    {i \in Linked \ doneInodes : currentFile = NoName \/ link[currentFile] # i}

\* The lines of the file the reader stays with.
CurrentLines == IF fd = NoInode THEN {} ELSE LinesOf(fd)

\* Mutation: the current file is not marked done.
MutAdvanceFileUnmarked ==
    /\ pc = "advance"
    /\ IF Candidates = {}
          THEN /\ pc' = "out"
               /\ late' = late \ CurrentLines
               /\ UNCHANGED reader
          ELSE /\ \E i \in Oldest(Candidates) : Opened(i, 0)
               /\ UNCHANGED doneInodes
               /\ pc' = "line"
               /\ UNCHANGED late
    /\ UNCHANGED <<files, app, disk, restarts, caller>>

\* Mutation: the newest of the other files is next.
MutAdvanceFile ==
    /\ pc = "advance"
    /\ IF Candidates = {}
          THEN /\ pc' = "out"
               /\ late' = late \ CurrentLines
               /\ UNCHANGED reader
          ELSE /\ \E i \in Candidates :
                      /\ \A j \in Candidates \ {i} : <<j, i>> \in older
                      /\ Opened(i, 0)
               /\ doneInodes' = doneInodes \cup ({fd} \ {NoInode})
               /\ pc' = "line"
               /\ UNCHANGED late
    /\ UNCHANGED <<files, app, disk, restarts, caller>>

\* advanceFile: the oldest of the other files is opened and the current one marked
\* done, or ReadBatch returns.
AdvanceFile ==
    /\ pc = "advance"
    /\ IF Candidates = {}
          THEN /\ pc' = "out"
               /\ late' = late \ CurrentLines
               /\ UNCHANGED reader
          ELSE /\ \E i \in Oldest(Candidates) : Opened(i, 0)
               /\ doneInodes' = doneInodes \cup ({fd} \ {NoInode})
               /\ pc' = "line"
               /\ UNCHANGED late
    /\ UNCHANGED <<files, app, disk, restarts, caller>>

\* Mutation: the position of the file, not of the reader, is saved.
MutCommitState ==
    /\ doneInodes' = doneInodes \cap Linked
    /\ \/ disk' = [file |-> currentFile, offset |-> offset + Len(buffer), done |-> doneInodes']
       \/ UNCHANGED disk

\* commitState: entries of files that are gone are pruned, and the state file is
\* replaced, unless it cannot be written.
CommitState ==
    /\ doneInodes' = doneInodes \cap Linked
    /\ \/ disk' = [file |-> currentFile, offset |-> offset, done |-> doneInodes']
       \/ UNCHANGED disk

\* The caller has written its batch and commits.
Commit ==
    /\ pc = "out"
    /\ hand # {}
    /\ CommitState
    /\ taken' = taken \cup hand
    /\ hand' = {}
    /\ UNCHANGED <<files, app, pc, currentFile, fd, offset, buffer, restarts, late>>

\* The caller is done with the Input.
Close ==
    /\ pc = "out"
    /\ CommitState
    /\ fd' = NoInode
    /\ buffer' = <<>>
    /\ taken' = taken \cup hand
    /\ hand' = {}
    /\ pc' = "closed"
    /\ UNCHANGED <<files, app, currentFile, offset, restarts, late>>

\* The agent dies, or exits after Close.
Crash ==
    /\ pc # "down"
    /\ restarts < MaxRestarts
    /\ pc' = "down"
    /\ currentFile' = NoName
    /\ fd' = NoInode
    /\ offset' = 0
    /\ buffer' = <<>>
    /\ doneInodes' = {}
    /\ hand' = {}
    /\ UNCHANGED <<files, app, disk, restarts, taken, late>>

\* Mutation: the offset is not loaded.
MutNewDirInput ==
    /\ pc = "down"
    /\ pc' = "out"
    /\ currentFile' = disk.file
    /\ doneInodes' = disk.done
    /\ restarts' = restarts + 1
    /\ UNCHANGED <<files, app, fd, offset, buffer, disk, caller, late>>

\* The agent comes up again: NewDirInput and loadState.
NewDirInput ==
    /\ pc = "down"
    /\ pc' = "out"
    /\ currentFile' = disk.file
    /\ offset' = disk.offset
    /\ doneInodes' = disk.done
    /\ restarts' = restarts + 1
    /\ UNCHANGED <<files, app, fd, buffer, disk, caller, late>>

-----------------------------------------------------------------------------

Application == Write \/ OpenNext \/ Rename \/ Truncate \/ Unlink

Input ==
    \/ Return \/ OpenFile \/ DetectRotation \/ ReadLine \/ ReadEOF \/ AdvanceFile

Next ==
    \/ Application
    \/ Input
    \/ ReadBatch \/ Commit \/ Close \/ Crash \/ NewDirInput

Spec == Init /\ [][Next]_vars

\* The Runner keeps calling ReadBatch and commits what it reads, ReadBatch goes on, its
\* deadline does not pass before the first line for ever, and the agent comes
\* up again.
FairSpec ==
    /\ Spec
    /\ WF_vars(Input)
    /\ WF_vars(NewDirInput)
    /\ SF_vars(ReadBatch)
    /\ SF_vars(Commit)
    /\ SF_vars(OpenFile)
    /\ SF_vars(DetectRotation)

-----------------------------------------------------------------------------

\* The records still to be read by an Input that is at offset `at' of inode i and
\* skips the inodes in `skipped'.
StillAhead(i, at, skipped) ==
    UNION {IF j = i
              THEN Range(SubSeq(content[j], at + 1, Len(content[j])))
              ELSE IF j \in skipped THEN {} ELSE LinesOf(j) : j \in Linked}

\* The inode a name leads to.
InodeOf(name) == IF name = NoName THEN NoInode ELSE link[name]

\* Read, or lost for a reason that is not the Input's.
Excused == taken \cup hand \cup late

\* No file was renamed, cut or removed: the application only goes on to new names.
Untouched == handled = 0

\* Every record that was written is read already or still lies ahead of the reader.
AllAhead ==
    pc \notin {"closed", "down"} =>
        1..appended \subseteq Excused
            \cup StillAhead(IF fd # NoInode THEN fd ELSE InodeOf(currentFile), offset, doneInodes)

\* Nothing is skipped, be it by the marks in doneInodes or by the order of EOF, rotation
\* and directory listing (dir.go:106, 149, 257), except what is written to a file whose
\* end the reader has met: by an application that goes on to new names, across
\* restarts, and by a careful one that renames, while the agent is up.
NothingSkipped == Untouched \/ restarts = 0 => AllAhead

\* An Input that starts from the state file gets every record the caller is
\* not through with (commitState and loadState, at any point of ReadBatch).
StateCoversOnlyTaken ==
    Untouched =>
        1..appended \subseteq taken \cup late
            \cup StillAhead(InodeOf(disk.file), disk.offset, disk.done)

\* Records are read in the order they were written, over any number of files (the
\* order of listFiles, dir.go:354, and of the lines in one file).
ReadsInOrder ==
    [][Untouched => \A r \in hand' \ hand : 1..(r - 1) \subseteq Excused]_vars

\* What the state file has passed is not read again, not even after a
\* restart (openFile's seek and the doneInodes that were loaded).
NoRereadBehindState ==
    [][Untouched =>
        hand' \ hand \subseteq StillAhead(InodeOf(disk.file), disk.offset, disk.done)]_vars

\* Every record of an application that goes on to new names is read and committed in
\* the end, across a crash, unless the Input is closed or the record came too late.
EveryRecordTaken ==
    \A r \in Record :
        (r <= appended) ~> (r \in taken \cup late \/ pc = "closed" \/ ~Untouched)

\* ReadBatch comes to its end without the help of its deadline, whatever was done to the
\* files (readLine, openFile and advanceFile hand each other the same files, dir.go:87-114).
ReadBatchReturns ==
    pc \in {"line", "check", "read", "advance"} ~> pc \in {"out", "down"}

\* dir.go:256 says: "Skip files already fully read (keyed by inode, so rename doesn't
\* fool us)."  While the reader has another file open, advanceFile skips those in doneInodes.
SkippedFilesWereRead ==
    \A i \in Linked \cap doneInodes : fd \notin {NoInode, i} => LinesOf(i) \subseteq Excused
=============================================================================
