-------------------------- MODULE DirReadingProofs --------------------------
(***************************************************************************)
(* What the directory input reads and what its state file covers: proofs   *)
(* for every set of names and inodes and all bounds.                       *)
(*                                                                         *)
(* As long as no file is renamed, cut or removed, the files are written    *)
(* one behind the other (Sorted), a position in one of them stands for all *)
(* that lies before it, and the position on disk follows that of the       *)
(* reader (Places).  When a polite application renames its files, the      *)
(* reader may come upon a file again and the order of the positions is     *)
(* lost; what remains is that a file it has left was read to its end, or   *)
(* written to behind its back (Reader), and that it does not leave the     *)
(* active file while there is nothing newer (Renamed).                     *)
(***************************************************************************)
EXTENDS DirInputProofs

\* The application renames only what is collected and what it has closed, it cuts and
\* removes nothing, and an inode number is given out once.
Polite == Careful /\ Habits \subseteq {"dated", "rename"} /\ ~ReuseInodes

Orderly == Untouched \/ Polite

-----------------------------------------------------------------------------
(* The files.                                                              *)

\* The order of modification is one, and the application writes to the newest file.
Files ==
    /\ older \subseteq Linked \X Linked
    /\ \A i, j \in Linked : ~(<<i, j>> \in older /\ <<j, i>> \in older)
    /\ appFd # NoInode =>
           appFd \in Linked /\ \A i \in Linked \ {appFd} : <<i, appFd>> \in older
    /\ \A m, n \in Name : link[m] = link[n] /\ link[m] # NoInode => m = n
    /\ Linked \subseteq used

\* Each record is in one file, or taken and gone.
Lines ==
    /\ \A i \in Linked : \A r \in LinesOf(i) : r <= appended
    /\ \A i, j \in Linked : i # j => LinesOf(i) \cap LinesOf(j) = {}
    /\ \A r \in 1..appended : r \in taken \/ \E i \in Linked : r \in LinesOf(i)

\* Records were written to the files in turn.
Sorted ==
    /\ \A i, j \in Linked : i # j => <<i, j>> \in older \/ <<j, i>> \in older
    /\ \A i, j, k \in Linked : <<i, j>> \in older /\ <<j, k>> \in older => <<i, k>> \in older
    /\ \A i \in Linked : \A k, l \in 1..Len(content[i]) :
           k < l => content[i][k] < content[i][l]
    /\ \A i, j \in Linked :
           <<i, j>> \in older => \A r \in LinesOf(i), s \in LinesOf(j) : r < s

-----------------------------------------------------------------------------
(* The reader.                                                             *)

\* The file the reader has open, or will open.
At == IF fd # NoInode THEN fd ELSE InodeOf(currentFile)

\* The reader has read its file up to the offset, and the files it has left.
Reader ==
    /\ At # NoInode =>
           /\ At \in Linked
           /\ offset <= Len(content[At])
           /\ \A k \in 1..offset : content[At][k] \in taken \cup hand
    /\ \A j \in (doneInodes \cap Linked) \ {At} : LinesOf(j) \subseteq Excused

\* What is in the buffer comes next in the file.
Buffered ==
    \A k \in 1..Len(buffer) :
        /\ fd # NoInode
        /\ offset + k <= Len(content[fd])
        /\ buffer[k] = content[fd][offset + k]

\* Where ReadBatch is tells what the reader has open; behind the end of a file that it
\* has met, there is only what came late.
Whereabouts ==
    /\ fd # NoInode => currentFile # NoName
    /\ pc \in {"closed", "down"} => fd = NoInode
    /\ pc = "advance" /\ fd = NoInode => currentFile = NoName
    /\ pc = "advance" /\ fd # NoInode =>
           \A k \in offset + 1..Len(content[fd]) : content[fd][k] \in late

\* An agent that is up for the first time.
FirstLife == restarts = 0 /\ pc \notin {"closed", "down"}

Watched == Untouched \/ (Polite /\ FirstLife)

\* A file that lost its name while it is read was the active one and is collected.  The
\* reader stays with the active file if it is the newest.
Renamed ==
    /\ doneInodes \subseteq used
    /\ fd = NoInode => currentFile = NoName
    /\ fd # NoInode /\ link[currentFile] # fd =>
           currentFile = Active /\ LinesOf(fd) \subseteq taken /\ appFd # fd
    /\ fd # NoInode /\ fd = appFd /\ fd = link[Active] => Linked \ {fd} \subseteq doneInodes
    /\ appFd \in doneInodes /\ link[Active] = appFd => fd = appFd

\* The place in inode i stands for all that is older.
Position(i, at, done) ==
    IF i = NoInode
       THEN at = 0 /\ done = {}
       ELSE /\ i \in Linked
            /\ at <= Len(content[i])
            /\ done = {j \in Linked : <<j, i>> \in older}

\* The file of the state on disk.
Saved == InodeOf(disk.file)

\* The reader and the state on disk are at such places, under names that stay, and the
\* reader is not behind the state.
Places ==
    /\ Position(At, offset, doneInodes)
    /\ currentFile # NoName => link[currentFile] # NoInode
    /\ fd # NoInode => link[currentFile] = fd
    /\ Position(Saved, disk.offset, disk.done)
    /\ disk.file # NoName => Saved # NoInode
    /\ Saved # NoInode => \A k \in 1..disk.offset : content[Saved][k] \in taken
    /\ \A j \in disk.done : LinesOf(j) \subseteq taken \cup late
    /\ pc # "down" =>
           \/ Saved = NoInode
           \/ Saved \in doneInodes
           \/ Saved = At /\ disk.offset <= offset

RInv ==
    /\ IInv
    /\ Orderly => Files /\ Lines
    /\ Watched => Reader /\ Buffered /\ Whereabouts
    /\ Polite /\ FirstLife => Renamed
    /\ Untouched => Sorted /\ Places

-----------------------------------------------------------------------------
(* What an action does to the files.                                       *)

\* The lines of a file by their places.
LEMMA LinesByPlace ==
    ASSUME TypeOK, NEW i \in Inode
    PROVE  /\ LinesOf(i) = {content[i][k] : k \in 1..Len(content[i])}
           /\ Len(content[i]) \in Nat
           /\ \A k \in 1..Len(content[i]) : content[i][k] \in Nat
<1>1. content[i] \in Seq(Record)
  BY DEF TypeOK
<1>2. DOMAIN content[i] = 1..Len(content[i]) /\ Len(content[i]) \in Nat
  BY <1>1
<1>3. \A k \in 1..Len(content[i]) : content[i][k] \in Record
  BY <1>1
<1> QED
  BY <1>2, <1>3, DirAssumption DEF LinesOf, Range, Record

\* Linked inodes are inodes, and not the missing one.
LEMMA LinkedTyped == Linked \subseteq Inode /\ NoInode \notin Linked
BY NoneAssumption DEF Linked

\* The step leaves the files and their order alone.
SameFiles == UNCHANGED <<files, appFd, appended, handled>>

\* Steps of the Input and its Runner.
LEMMA InputLeavesFiles ==
    ASSUME [Next]_vars, ~Application
    PROVE  SameFiles /\ taken \subseteq taken'
BY DEF SameFiles, Next, vars, Application, Input, files, app, caller, ReadBatch, Return,
       OpenFile, DetectRotation, ReadLine, ReadEOF, AdvanceFile, Commit, Close, Crash, NewDirInput

\* A new file is the newest.
LEMMA Created ==
    ASSUME TypeOK, Files, OpenNext
    PROVE  \E n \in Name, i \in Inode \ (Linked \cup {appFd, fd}) :
               /\ ReuseInodes \/ i \notin used
               /\ link[n] = NoInode
               /\ link' = [link EXCEPT ![n] = i]
               /\ content' = [content EXCEPT ![i] = <<>>]
               /\ older' = older \cup (Linked \X {i})
               /\ Linked' = Linked \cup {i}
               /\ used' = used \cup {i}
               /\ appFd' = i
<1>1. PICK n \in Name : CreateFile(n)
  BY DEF OpenNext
<1>2. PICK i \in Inode \ (Linked \cup {appFd, fd}) :
         /\ ReuseInodes \/ i \notin used
         /\ link' = [link EXCEPT ![n] = i]
         /\ content' = [content EXCEPT ![i] = <<>>]
         /\ older' = Touched(i)
         /\ used' = used \cup {i}
         /\ appFd' = i
  BY <1>1 DEF CreateFile
<1>3. link[n] = NoInode
  BY <1>1 DEF CreateFile
<1>4. older' = older \cup (Linked \X {i})
  BY <1>2 DEF Touched, Without, Files
<1>5. Linked' = Linked \cup {i}
  BY <1>2, <1>3, NoneAssumption DEF TypeOK, Linked
<1> QED
  BY <1>2, <1>3, <1>4, <1>5

\* A line goes to the end of the newest file.
LEMMA Written ==
    ASSUME TypeOK, Files, Write
    PROVE  /\ appFd \in Linked /\ appFd' = appFd
           /\ link' = link /\ Linked' = Linked /\ older' = older
           /\ \A i \in Inode : i # appFd => content'[i] = content[i] /\ LinesOf(i)' = LinesOf(i)
           /\ Len(content'[appFd]) = Len(content[appFd]) + 1
           /\ \A k \in 1..Len(content[appFd]) : content'[appFd][k] = content[appFd][k]
           /\ content'[appFd][Len(content[appFd]) + 1] = appended + 1
           /\ LinesOf(appFd)' = LinesOf(appFd) \cup {appended + 1}
<1> USE DEF TypeOK
<1>1. appFd \in Linked /\ appFd \in Inode
  BY LinkedTyped DEF Write, Files
<1>2. link' = link /\ Linked' = Linked
  BY DEF Write, Linked
<1>3. older' = older
  <2>1. older' = Touched(appFd)
    BY <1>1 DEF Write
  <2>2. ASSUME NEW p \in older, appFd \in {p[1], p[2]}
        PROVE  p \in (Linked \ {appFd}) \X {appFd}
    <3>1. PICK i \in Linked, j \in Linked : p = <<i, j>>
      BY DEF Files
    <3>2. ~(<<i, j>> \in older /\ <<j, i>> \in older)
      BY DEF Files
    <3>3. p[1] = i /\ p[2] = j
      BY <3>1
    <3>4. i # appFd => <<i, appFd>> \in older
      BY <1>1, LinkedTyped DEF Files
    <3>5. j # appFd => <<j, appFd>> \in older
      BY <1>1, LinkedTyped DEF Files
    <3>6. i # appFd /\ j = appFd
      BY <2>2, <3>1, <3>2, <3>3, <3>4, <3>5
    <3> QED
      BY <3>1, <3>6
  <2>3. (Linked \ {appFd}) \X {appFd} \subseteq older
    BY <1>1, LinkedTyped, NoneAssumption DEF Files
  <2> QED
    BY <2>1, <2>2, <2>3 DEF Touched, Without
<1>4. /\ content' = [content EXCEPT ![appFd] = Append(content[appFd], appended + 1)]
      /\ content[appFd] \in Seq(Record) /\ appended + 1 \in Record
  <2>1. content' = [content EXCEPT ![appFd] = Append(content[appFd], appended + 1)]
    BY <1>1 DEF Write
  <2>2. appended + 1 \in Record
    BY DirAssumption DEF Write, Record
  <2> QED
    BY <1>1, <2>1, <2>2
<1>5. /\ content'[appFd] = Append(content[appFd], appended + 1)
      /\ \A i \in Inode : i # appFd => content'[i] = content[i]
  BY <1>1, <1>4
<1>6. /\ Len(content'[appFd]) = Len(content[appFd]) + 1
      /\ \A k \in 1..Len(content[appFd]) : content'[appFd][k] = content[appFd][k]
      /\ content'[appFd][Len(content[appFd]) + 1] = appended + 1
  BY <1>4, <1>5
<1>7. LinesOf(appFd)' = LinesOf(appFd) \cup {appended + 1}
  <2> DEFINE n == Len(content[appFd])
  <2>1. n \in Nat /\ DOMAIN content[appFd] = 1..n
    BY <1>4
  <2>2. DOMAIN content'[appFd] = 1..(n + 1) /\ appFd' = appFd
    BY <1>4, <1>5 DEF Write
  <2>3. 1..(n + 1) = 1..n \cup {n + 1}
    BY <2>1
  <2>4. LinesOf(appFd) = {content[appFd][k] : k \in 1..n}
    BY <2>1 DEF LinesOf, Range
  <2>5. LinesOf(appFd)' = {content'[appFd][k] : k \in 1..(n + 1)}
    BY <2>2 DEF LinesOf, Range
  <2>6. LinesOf(appFd)' = {content'[appFd][k] : k \in 1..n} \cup {content'[appFd][n + 1]}
    BY <2>3, <2>5
  <2>7. {content'[appFd][k] : k \in 1..n} = {content[appFd][k] : k \in 1..n}
    BY <1>6
  <2> QED
    BY <1>6, <2>4, <2>6, <2>7
<1>8. \A i \in Inode : i # appFd => LinesOf(i)' = LinesOf(i)
  BY <1>5 DEF LinesOf
<1> QED
  BY <1>1, <1>2, <1>3, <1>5, <1>6, <1>7, <1>8 DEF Write

\* A polite application renames what the reader has open and has been taken.
LEMMA Moved ==
    ASSUME TypeOK, Files, Polite, Rename
    PROVE  \E n \in Name \ {Active} :
               /\ link[Active] = fd /\ fd # NoInode /\ LinesOf(fd) \subseteq taken
               /\ link[n] # NoInode => link[n] # fd /\ LinesOf(link[n]) \subseteq taken
               /\ link' = [link EXCEPT ![n] = fd, ![Active] = NoInode]
               /\ older' = Without(link[n])
               /\ Linked' = Linked \ {link[n]}
               /\ appFd' = NoInode
<1> USE DirAssumption, NoneAssumption DEF TypeOK
<1>1. PICK n \in Name \ {Active} :
         /\ link[n] # NoInode => MayHandle(link[n], "rename")
         /\ link' = [link EXCEPT ![n] = link[Active], ![Active] = NoInode]
         /\ older' = Without(link[n])
  BY DEF Rename
<1>2. /\ link[Active] = fd /\ fd # NoInode /\ appFd' = NoInode
      /\ LinesOf(fd) \subseteq taken
      /\ link[n] # NoInode => LinesOf(link[n]) \subseteq taken
  BY <1>1 DEF Rename, MayHandle, Polite
<1>3. link[n] # NoInode => link[n] # fd
  BY <1>1, <1>2 DEF Files
<1>4. Linked' = Linked \ {link[n]}
  <2>1. \A m \in Name : link'[m] = IF m = n THEN fd ELSE IF m = Active THEN NoInode ELSE link[m]
    BY <1>1, <1>2
  <2>2. ASSUME NEW i \in Linked, i # link[n]  PROVE i \in Linked'
    <3>1. PICK m \in Name : link[m] = i
      BY <2>2 DEF Linked
    <3>2. CASE m = Active
      BY <1>1, <1>2, <2>1, <2>2, <3>1, <3>2 DEF Linked
    <3>3. CASE m # Active
      BY <2>1, <2>2, <3>1, <3>3 DEF Linked
    <3> QED
      BY <3>2, <3>3
  <2>3. ASSUME NEW i \in Linked'  PROVE i \in Linked /\ i # link[n]
    <3>1. i \in Inode /\ i # NoInode
      BY DEF Linked
    <3>2. PICK m \in Name : link'[m] = i
      BY <2>3 DEF Linked
    <3>3. CASE m = n
      BY <1>2, <1>3, <2>1, <3>1, <3>2, <3>3 DEF Linked
    <3>4. CASE m # n
      BY <2>1, <3>1, <3>2, <3>4 DEF Linked, Files
    <3> QED
      BY <3>3, <3>4
  <2> QED
    BY <2>2, <2>3
<1> QED
  BY <1>1, <1>2, <1>3, <1>4

\* What is not touched was not touched before; a polite application only renames.
LEMMA Permitted ==
    ASSUME TypeOK, [Next]_vars
    PROVE  /\ Untouched' => Untouched /\ ~Rename
           /\ Orderly' => Orderly /\ ~Truncate /\ ~Unlink /\ (Rename => Polite)
<1>1. handled \in Nat
  BY DirAssumption DEF TypeOK
<1>2. Rename \/ Truncate \/ Unlink => handled' = handled + 1
  BY DEF Rename, Truncate, Unlink
<1>3. handled' = handled \/ handled' = handled + 1
  BY <1>2, InputLeavesFiles DEF SameFiles, Application, Write, OpenNext
<1>4. Untouched' => Untouched /\ ~Rename /\ ~Truncate /\ ~Unlink
  BY <1>1, <1>2, <1>3 DEF Untouched
<1>5. Polite => ~Truncate /\ ~Unlink
  BY DEF Polite, Truncate, Unlink, MayHandle
<1> QED
  BY <1>4, <1>5 DEF Orderly, Polite

\* The files stay in order (every action of the application).
LEMMA FilesKept ==
    ASSUME TypeOK, [Next]_vars, Orderly', Orderly => Files /\ Lines
    PROVE  Files' /\ Lines'
<1> USE NoneAssumption
<1>1. Files /\ Lines /\ ~Truncate /\ ~Unlink /\ (Rename => Polite)
  BY Permitted
<1>2. CASE Write
  <2>1. /\ appFd \in Linked /\ appFd' = appFd
        /\ link' = link /\ Linked' = Linked /\ older' = older
        /\ \A i \in Inode : i # appFd => LinesOf(i)' = LinesOf(i)
        /\ LinesOf(appFd)' = LinesOf(appFd) \cup {appended + 1}
    BY <1>1, <1>2, Written
  <2>2. used' = used /\ taken' = taken /\ appended' = appended + 1 /\ appended \in Nat
    BY <1>2, DirAssumption DEF Write, caller, TypeOK
  <2>3. Files'
    BY <1>1, <2>1, <2>2 DEF Files
  <2>4. \A i \in Linked : i \in Inode
    BY LinkedTyped
  <2>5. \A i \in Linked : \A r \in LinesOf(i)' : r \in LinesOf(i) \/ (i = appFd /\ r = appended + 1)
    BY <2>1, <2>4
  <2>6. \A i \in Linked : \A r \in LinesOf(i) : r \in Nat /\ r <= appended
    BY <1>1, <2>4, LinesByPlace DEF Lines
  <2>7. \A i \in Linked : \A r \in LinesOf(i)' : r <= appended'
    BY <2>2, <2>5, <2>6
  <2>8. \A i, j \in Linked : i # j => LinesOf(i)' \cap LinesOf(j)' = {}
    <3>1. ASSUME NEW i \in Linked, NEW j \in Linked, i # j, NEW r \in LinesOf(i)' \cap LinesOf(j)'
          PROVE  FALSE
      <4>1. LinesOf(i) \cap LinesOf(j) = {}
        BY <1>1, <3>1 DEF Lines
      <4>2. r # appended + 1 => r \in LinesOf(i) /\ r \in LinesOf(j)
        BY <2>5, <3>1
      <4>3. r = appended + 1 => i = appFd /\ j = appFd
        BY <2>2, <2>5, <2>6, <3>1
      <4> QED
        BY <3>1, <4>1, <4>2, <4>3
    <3> QED
      BY <3>1
  <2>9. \A r \in 1..appended' : r \in taken' \/ \E i \in Linked : r \in LinesOf(i)'
    <3>1. ASSUME NEW r \in 1..appended'  PROVE r \in taken' \/ \E i \in Linked : r \in LinesOf(i)'
      <4>1. r = appended + 1 \/ r \in 1..appended
        BY <2>2, <3>1
      <4>2. CASE r = appended + 1
        BY <2>1, <4>2
      <4>3. CASE r \in 1..appended
        <5>1. r \in taken \/ \E i \in Linked : r \in LinesOf(i)
          BY <1>1, <4>3 DEF Lines
        <5> QED
          BY <2>1, <2>2, <2>4, <5>1
      <4> QED
        BY <4>1, <4>2, <4>3
    <3> QED
      BY <3>1
  <2> QED
    BY <2>1, <2>3, <2>7, <2>8, <2>9 DEF Lines
<1>3. CASE OpenNext
  <2>1. PICK n \in Name, i \in Inode \ (Linked \cup {appFd, fd}) :
           /\ link[n] = NoInode
           /\ link' = [link EXCEPT ![n] = i]
           /\ content' = [content EXCEPT ![i] = <<>>]
           /\ older' = older \cup (Linked \X {i})
           /\ Linked' = Linked \cup {i}
           /\ used' = used \cup {i}
           /\ appFd' = i
    BY <1>1, <1>3, Created
  <2>2. appended' = appended /\ taken' = taken
    BY <1>3 DEF OpenNext, caller
  <2>3. Files'
    <3>1. older' \subseteq Linked' \X Linked'
      BY <1>1, <2>1 DEF Files
    <3>2. ASSUME NEW j \in Linked', NEW k \in Linked', <<j, k>> \in older', <<k, j>> \in older'
          PROVE  FALSE
      <4>1. <<j, k>> \in older \/ (j \in Linked /\ k = i)
        BY <2>1, <3>2
      <4>2. <<k, j>> \in older \/ (k \in Linked /\ j = i)
        BY <2>1, <3>2
      <4>3. <<j, k>> \in older \/ <<k, j>> \in older => j \in Linked /\ k \in Linked
        BY <1>1 DEF Files
      <4>4. <<j, k>> \in older /\ <<k, j>> \in older
        BY <2>1, <4>1, <4>2, <4>3
      <4> QED
        BY <1>1, <4>3, <4>4 DEF Files
    <3>3. appFd' \in Linked' /\ \A j \in Linked' \ {appFd'} : <<j, appFd'>> \in older'
      BY <2>1
    <3>4. \A m \in Name : link'[m] = IF m = n THEN i ELSE link[m]
      BY <2>1 DEF TypeOK
    <3>5. \A m \in Name : link[m] # i
      BY <2>1 DEF Linked
    <3>6. \A m, o \in Name : link'[m] = link'[o] /\ link'[m] # NoInode => m = o
      BY <1>1, <3>4, <3>5 DEF Files
    <3>7. Linked' \subseteq used'
      BY <1>1, <2>1 DEF Files
    <3> QED
      BY <3>1, <3>2, <3>3, <3>6, <3>7 DEF Files
  <2>4. \A j \in Inode : LinesOf(j)' = IF j = i THEN {} ELSE LinesOf(j)
    <3>1. content'[i] = <<>> /\ \A j \in Inode : j # i => content'[j] = content[j]
      BY <2>1 DEF TypeOK
    <3>2. DOMAIN <<>> = {}
      OBVIOUS
    <3> QED
      BY <3>1, <3>2 DEF LinesOf, Range
  <2>5. \A j \in Linked : j # i /\ j \in Inode
    BY <2>1, LinkedTyped
  <2> QED
    BY <1>1, <2>1, <2>2, <2>3, <2>4, <2>5 DEF Lines
<1>4. CASE Rename
  <2>1. PICK n \in Name \ {Active} :
           /\ link[Active] = fd /\ fd # NoInode
           /\ link[n] # NoInode => link[n] # fd /\ LinesOf(link[n]) \subseteq taken
           /\ link' = [link EXCEPT ![n] = fd, ![Active] = NoInode]
           /\ older' = Without(link[n])
           /\ Linked' = Linked \ {link[n]}
           /\ appFd' = NoInode
    BY <1>1, <1>4, Moved
  <2>2. content' = content /\ appended' = appended /\ taken' = taken /\ used' = used
    BY <1>4 DEF Rename, caller
  <2>3. Files'
    <3>1. older' \subseteq older /\ older' \subseteq Linked' \X Linked'
      BY <1>1, <2>1 DEF Files, Without
    <3>2. \A j, k \in Linked' : ~(<<j, k>> \in older' /\ <<k, j>> \in older')
      BY <1>1, <2>1, <3>1 DEF Files
    <3>3. \A m \in Name : link'[m] = IF m = Active THEN NoInode ELSE IF m = n THEN fd ELSE link[m]
      BY <2>1, DirAssumption DEF TypeOK
    <3>4. \A m, o \in Name : link'[m] = link'[o] /\ link'[m] # NoInode => m = o
      BY <1>1, <2>1, <3>3, DirAssumption DEF Files
    <3> QED
      BY <1>1, <2>1, <2>2, <3>1, <3>2, <3>4 DEF Files
  <2>4. \A j \in Linked : LinesOf(j)' = LinesOf(j)
    BY <2>2 DEF LinesOf
  <2>5. \A r \in 1..appended : r \in taken \/ \E i \in Linked' : r \in LinesOf(i)
    BY <1>1, <2>1, LinkedTyped DEF Lines
  <2> QED
    BY <1>1, <2>1, <2>2, <2>3, <2>4, <2>5 DEF Lines
<1>5. CASE ~Application
  <2>1. SameFiles /\ taken \subseteq taken'
    BY <1>5, InputLeavesFiles
  <2>2. Linked' = Linked /\ \A j \in Linked : LinesOf(j)' = LinesOf(j)
    BY <2>1 DEF SameFiles, files, Linked, LinesOf
  <2>3. Files'
    BY <1>1, <2>1, <2>2 DEF Files, SameFiles, files
  <2> QED
    BY <1>1, <2>1, <2>2, <2>3 DEF Lines, SameFiles, files
<1> QED
  BY <1>1, <1>2, <1>3, <1>4, <1>5 DEF Application

\* Without a rename, lines go behind all others (Write, OpenNext).
LEMMA SortedKept ==
    ASSUME TypeOK, [Next]_vars, Untouched', Orderly => Files /\ Lines, Untouched => Sorted
    PROVE  Sorted'
<1> USE NoneAssumption
<1>1. Files /\ Lines /\ Sorted /\ ~Truncate /\ ~Unlink /\ ~Rename
  BY Permitted DEF Orderly
<1>2. \A i \in Linked : \A r \in LinesOf(i) : r \in Nat /\ r <= appended
  BY <1>1, LinkedTyped, LinesByPlace DEF Lines
<1>3. CASE Write
  <2>1. /\ appFd \in Linked /\ appFd' = appFd /\ appFd # NoInode
        /\ link' = link /\ Linked' = Linked /\ older' = older
        /\ \A i \in Inode : i # appFd => content'[i] = content[i] /\ LinesOf(i)' = LinesOf(i)
        /\ Len(content'[appFd]) = Len(content[appFd]) + 1
        /\ \A k \in 1..Len(content[appFd]) : content'[appFd][k] = content[appFd][k]
        /\ content'[appFd][Len(content[appFd]) + 1] = appended + 1
        /\ LinesOf(appFd)' = LinesOf(appFd) \cup {appended + 1}
    BY <1>1, <1>3, Written, LinkedTyped
  <2>2. appended \in Nat /\ \A i \in Linked : i \in Inode
    BY LinkedTyped, DirAssumption DEF TypeOK
  <2>3. \A i \in Linked : \A k, l \in 1..Len(content'[i]) : k < l => content'[i][k] < content'[i][l]
    <3>1. ASSUME NEW k \in 1..Len(content'[appFd]), NEW l \in 1..Len(content'[appFd]), k < l
          PROVE  content'[appFd][k] < content'[appFd][l]
      <4> DEFINE n == Len(content[appFd])
      <4>1. n \in Nat /\ LinesOf(appFd) = {content[appFd][m] : m \in 1..n}
        BY <2>1, <2>2, LinesByPlace
      <4>2. k \in 1..n /\ (l \in 1..n \/ l = n + 1)
        BY <2>1, <3>1, <4>1
      <4>3. CASE l \in 1..n
        BY <1>1, <2>1, <3>1, <4>2, <4>3 DEF Sorted
      <4>4. CASE l = n + 1
        <5>1. content[appFd][k] \in LinesOf(appFd)
          BY <4>1, <4>2
        <5>2. content[appFd][k] \in Nat /\ content[appFd][k] <= appended
          BY <1>2, <2>1, <5>1
        <5> QED
          BY <2>1, <2>2, <4>2, <4>4, <5>2
      <4> QED
        BY <4>2, <4>3, <4>4
    <3>2. \A i \in Linked : i # appFd => content'[i] = content[i]
      BY <2>1, <2>2
    <3> QED
      BY <1>1, <3>1, <3>2 DEF Sorted
  <2>4. ASSUME NEW i \in Linked, NEW j \in Linked, <<i, j>> \in older,
               NEW r \in LinesOf(i)', NEW t \in LinesOf(j)'
        PROVE  r < t
    <3>1. i # j /\ i # appFd
      BY <1>1, <2>1, <2>4 DEF Files
    <3>2. r \in LinesOf(i) /\ r \in Nat /\ r <= appended
      BY <1>2, <2>1, <2>2, <3>1
    <3>3. t \in LinesOf(j) \/ t = appended + 1
      <4>1. j # appFd => LinesOf(j)' = LinesOf(j)
        BY <2>1, <2>2
      <4>2. j = appFd => LinesOf(j)' = LinesOf(appFd)'
        BY <2>1
      <4> QED
        BY <2>1, <2>4, <4>1, <4>2
    <3>4. t \in LinesOf(j) => r < t
      BY <1>1, <2>4, <3>2 DEF Sorted
    <3> QED
      BY <2>2, <3>2, <3>3, <3>4
  <2> QED
    BY <1>1, <2>1, <2>3, <2>4 DEF Sorted
<1>4. CASE OpenNext
  <2>1. PICK i \in Inode \ (Linked \cup {appFd, fd}) :
           /\ content' = [content EXCEPT ![i] = <<>>]
           /\ older' = older \cup (Linked \X {i})
           /\ Linked' = Linked \cup {i}
    BY <1>1, <1>4, Created
  <2>2. /\ content'[i] = <<>> /\ LinesOf(i)' = {}
        /\ \A j \in Linked : content'[j] = content[j] /\ LinesOf(j)' = LinesOf(j)
    <3>1. content'[i] = <<>> /\ \A j \in Linked : content'[j] = content[j]
      BY <2>1, LinkedTyped DEF TypeOK
    <3>2. DOMAIN <<>> = {}
      OBVIOUS
    <3> QED
      BY <3>1, <3>2 DEF LinesOf, Range
  <2>3. older \subseteq Linked \X Linked /\ i \notin Linked
    BY <1>1, <2>1 DEF Files
  <2>4. \A j, k \in Linked' : j # k => <<j, k>> \in older' \/ <<k, j>> \in older'
    BY <1>1, <2>1 DEF Sorted
  <2>5. ASSUME NEW j \in Linked', NEW k \in Linked', NEW l \in Linked',
               <<j, k>> \in older', <<k, l>> \in older'
        PROVE  <<j, l>> \in older'
    <3>1. j \in Linked /\ k \in Linked /\ (l = i \/ l \in Linked)
      BY <2>1, <2>3, <2>5
    <3>2. l \in Linked => <<j, k>> \in older /\ <<k, l>> \in older
      BY <2>1, <2>3, <2>5, <3>1
    <3> QED
      BY <1>1, <2>1, <3>1, <3>2 DEF Sorted
  <2>6. \A j \in Linked' : \A k, l \in 1..Len(content'[j]) : k < l => content'[j][k] < content'[j][l]
    BY <1>1, <2>1, <2>2 DEF Sorted
  <2>7. \A j, k \in Linked' :
            <<j, k>> \in older' => \A r \in LinesOf(j)', t \in LinesOf(k)' : r < t
    BY <1>1, <2>1, <2>2, <2>3 DEF Sorted
  <2> QED
    BY <2>4, <2>5, <2>6, <2>7 DEF Sorted
<1>5. CASE ~Application
  <2>1. SameFiles
    BY <1>5, InputLeavesFiles
  <2>2. Linked' = Linked /\ older' = older /\ content' = content
        /\ \A j \in Linked : LinesOf(j)' = LinesOf(j)
    BY <2>1 DEF SameFiles, files, Linked, LinesOf
  <2> QED
    BY <1>1, <2>2 DEF Sorted
<1> QED
  BY <1>1, <1>3, <1>4, <1>5 DEF Application

-----------------------------------------------------------------------------
(* What the reader knows of the files.                                     *)

\* What readLine has available comes next in the file; if it is nothing, this is the end.
LEMMA AvailableIsNext ==
    ASSUME TypeOK, fd \in Inode, Buffered, offset <= Len(content[fd])
    PROVE  /\ Available \in Seq(Record)
           /\ \A k \in 1..Len(Available) :
                  /\ offset + k <= Len(content[fd])
                  /\ Available[k] = content[fd][offset + k]
           /\ Available = <<>> => offset = Len(content[fd])
<1> USE DEF TypeOK
<1>1. CASE buffer # <<>>
  BY <1>1 DEF Available, Buffered
<1>2. CASE buffer = <<>>
  <2> DEFINE f == content[fd]
  <2>1. f \in Seq(Record) /\ Len(f) \in Nat /\ offset \in Nat /\ offset <= Len(f)
    BY DirAssumption
  <2>2. Available = SubSeq(f, offset + 1, Len(f))
    BY <1>2 DEF Available
  <2>3. \A k \in offset + 1..Len(f) : f[k] \in Record
    BY <2>1
  <2> HIDE DEF f
  <2>4. offset + 1 \in Int /\ Len(f) \in Int
    BY <2>1
  <2>5. /\ Available \in Seq(Record)
        /\ Len(Available) = IF offset + 1 <= Len(f) THEN Len(f) - offset ELSE 0
        /\ \A k \in 1..Len(f) - offset : Available[k] = f[offset + k]
    BY <2>1, <2>2, <2>3, <2>4, SubSeqProperties
  <2>6. Available = <<>> => offset = Len(f)
    BY <2>1, <2>5
  <2>7. \A k \in 1..Len(Available) : offset + k <= Len(f) /\ Available[k] = f[offset + k]
    BY <2>1, <2>5
  <2> QED
    BY <2>5, <2>6, <2>7 DEF f
<1> QED
  BY <1>1, <1>2

\* An agent in its first life was in it before, and has not been closed.
LEMMA WatchedBefore ==
    ASSUME TypeOK, [Next]_vars
    PROVE  /\ FirstLife' => FirstLife /\ ~Close /\ ~Crash /\ ~NewDirInput
           /\ Watched' => Watched /\ Orderly
<1>1. restarts \in Nat
  BY DirAssumption DEF TypeOK
<1>2. FirstLife' => ~Close /\ ~Crash /\ ~NewDirInput
  BY <1>1 DEF FirstLife, Close, Crash, NewDirInput
<1>3. /\ restarts' = restarts \/ NewDirInput
      /\ pc \in {"closed", "down"} => pc' = pc \/ Crash \/ NewDirInput
  BY DEF Next, vars, Application, Input, Write, OpenNext, Rename, Truncate, Unlink, ReadBatch, Return,
         OpenFile, DetectRotation, ReadLine, ReadEOF, AdvanceFile, Commit, Close, Crash, NewDirInput
<1>4. FirstLife' => FirstLife
  BY <1>2, <1>3 DEF FirstLife
<1>5. Untouched' => Untouched
  BY Permitted
<1> QED
  BY <1>2, <1>4, <1>5 DEF Watched, Orderly, Polite

\* The reader's file is linked; as long as none is renamed, the current name leads to it.
LEMMA AtTyped ==
    ASSUME RInv, Watched
    PROVE  /\ fd # NoInode => At = fd /\ fd \in Linked /\ fd \in Inode
           /\ currentFile = NoName /\ fd = NoInode => At = NoInode
           /\ At # NoInode => At \in Linked /\ At \in Inode
           /\ Polite /\ FirstLife /\ fd = NoInode => currentFile = NoName
           /\ Untouched /\ currentFile # NoName =>
                  At = link[currentFile] /\ link[currentFile] # NoInode
<1>1. Reader
  BY DEF RInv
<1>2. fd # NoInode => At = fd
  BY DEF At
<1>3. At # NoInode => At \in Linked /\ At \in Inode
  BY <1>1, LinkedTyped DEF Reader
<1>4. currentFile = NoName /\ fd = NoInode => At = NoInode
  BY DEF At, InodeOf
<1>5. Polite /\ FirstLife /\ fd = NoInode => currentFile = NoName
  BY DEF RInv, Renamed
<1>6. Untouched /\ currentFile # NoName => At = link[currentFile] /\ link[currentFile] # NoInode
  BY DEF RInv, Places, At, InodeOf
<1> QED
  BY <1>2, <1>3, <1>4, <1>5, <1>6

\* The application does not move the reader.
LEMMA AtStays ==
    ASSUME RInv, [Next]_vars, Watched', Application
    PROVE  /\ At' = At
           /\ UNCHANGED <<pc, reader, disk, restarts, caller>>
<1> USE NoneAssumption
<1>1. Watched /\ Orderly /\ Files /\ TypeOK /\ ~Truncate /\ ~Unlink
  BY Permitted, WatchedBefore DEF RInv, IInv, Watched, Orderly
<1>2. UNCHANGED <<pc, reader, disk, restarts, caller>>
  BY DEF Application, Write, OpenNext, Rename, Truncate, Unlink
<1>3. fd' = fd /\ currentFile' = currentFile
  BY <1>2 DEF reader
<1>4. CASE fd # NoInode
  BY <1>2, <1>3, <1>4 DEF At
<1>5. CASE fd = NoInode /\ currentFile = NoName
  BY <1>2, <1>3, <1>5 DEF At, InodeOf
<1>6. CASE fd = NoInode /\ currentFile # NoName
  <2>1. Untouched' /\ Untouched /\ ~Rename
    <3>1. FirstLife' => FirstLife
      BY <1>1, WatchedBefore
    <3>2. ~(Polite /\ FirstLife)
      BY <1>1, <1>6, AtTyped
    <3>3. Polite' <=> Polite
      BY DEF Polite
    <3>4. Untouched'
      BY <3>1, <3>2, <3>3 DEF Watched, FirstLife
    <3> QED
      BY <1>1, <3>4, Permitted
  <2>2. currentFile \in Name /\ link[currentFile] # NoInode
    BY <1>1, <1>6, <2>1, AtTyped DEF TypeOK
  <2>3. link'[currentFile] = link[currentFile]
    <3>1. CASE Write
      BY <3>1 DEF Write
    <3>2. CASE OpenNext
      <4>1. PICK n \in Name, i \in Inode : link[n] = NoInode /\ link' = [link EXCEPT ![n] = i]
        BY <1>1, <3>2, Created
      <4> QED
        BY <1>1, <2>2, <4>1 DEF TypeOK
    <3> QED
      BY <1>1, <2>1, <3>1, <3>2 DEF Application
  <2> QED
    BY <1>2, <1>3, <1>6, <2>3 DEF At, InodeOf
<1> QED
  BY <1>2, <1>4, <1>5, <1>6

\* What is written to a file the reader has left is late.
LEMMA LateBehind ==
    ASSUME RInv, Watched, Orderly, Write, appFd \in doneInodes, appFd # At
    PROVE  appended + 1 \in late'
<1> USE NoneAssumption
<1>1. Files /\ TypeOK /\ appFd # NoInode /\ appFd \in Linked
  BY DEF RInv, IInv, Files, Write
<1>2. link[Active] # appFd
  <2>1. CASE Untouched
    <3>1. Position(At, offset, doneInodes)
      BY <2>1 DEF RInv, Places
    <3>2. At # NoInode /\ At \in Linked /\ <<appFd, At>> \in older
      BY <3>1 DEF Position
    <3>3. <<At, appFd>> \in older
      BY <1>1, <3>2 DEF Files
    <3> QED
      BY <1>1, <3>2, <3>3 DEF Files
  <2>2. CASE Polite /\ FirstLife
    <3>1. link[Active] = appFd => fd = appFd
      BY <2>2 DEF RInv, Renamed
    <3> QED
      BY <1>1, <3>1 DEF At
  <2> QED
    BY <2>1, <2>2 DEF Watched
<1>3. BehindReader(appFd)
  BY <1>2 DEF BehindReader
<1> QED
  BY <1>3 DEF Write

\* The application writes ahead of the reader, or its lines are late.
LEMMA ApplicationAhead ==
    ASSUME RInv, [Next]_vars, Watched', Application
    PROVE  Reader' /\ Buffered' /\ Whereabouts'
<1> USE NoneAssumption
<1>1. /\ Watched /\ Orderly /\ Files /\ TypeOK /\ ~Truncate /\ ~Unlink /\ (Rename => Polite)
      /\ Reader /\ Buffered /\ Whereabouts
  BY Permitted, WatchedBefore DEF RInv, IInv, Watched, Orderly
<1>2. At' = At /\ UNCHANGED <<pc, reader, disk, restarts, caller>>
  BY AtStays
<1>3. /\ fd' = fd /\ currentFile' = currentFile /\ offset' = offset /\ buffer' = buffer
      /\ doneInodes' = doneInodes /\ taken' = taken /\ hand' = hand /\ pc' = pc
  BY <1>2 DEF reader, caller
<1>4. /\ fd # NoInode => At = fd /\ fd \in Linked /\ fd \in Inode
      /\ At # NoInode => At \in Linked /\ At \in Inode
  BY <1>1, AtTyped
\* What an application must not break.
<1>5. ASSUME /\ late \subseteq late'
             /\ At # NoInode => At \in Linked'
             /\ \A i \in Linked \cap Linked' :
                    /\ Len(content'[i]) \in Nat /\ Len(content[i]) \in Nat
                    /\ Len(content[i]) <= Len(content'[i])
                    /\ \A k \in 1..Len(content[i]) : content'[i][k] = content[i][k]
             /\ pc = "advance" /\ fd # NoInode =>
                    \A k \in 1..Len(content'[fd]) :
                        k \in 1..Len(content[fd]) \/ content'[fd][k] \in late'
             /\ \A j \in (doneInodes \cap Linked') \ {At} :
                    j \in Linked => LinesOf(j)' \subseteq LinesOf(j) \cup late'
             /\ \A j \in Linked' \ Linked : LinesOf(j)' = {}
      PROVE  Reader' /\ Buffered' /\ Whereabouts'
  <2>1. offset \in Nat /\ Len(buffer) \in Nat
    BY <1>1, DirAssumption DEF TypeOK
  <2>2. At # NoInode =>
           /\ At \in Linked'
           /\ offset <= Len(content'[At])
           /\ \A k \in 1..offset : content'[At][k] \in taken \cup hand
    BY <1>1, <1>4, <1>5, <2>1 DEF Reader
  <2>3. \A j \in (doneInodes \cap Linked') \ {At} : LinesOf(j)' \subseteq taken \cup hand \cup late'
    BY <1>1, <1>5 DEF Reader, Excused
  <2>4. Reader'
    BY <1>2, <1>3, <2>2, <2>3 DEF Reader, Excused
  <2>5. Buffered'
    <3>1. ASSUME NEW k \in 1..Len(buffer)
          PROVE  /\ fd # NoInode
                 /\ offset + k <= Len(content'[fd])
                 /\ buffer[k] = content'[fd][offset + k]
      <4>1. fd # NoInode /\ offset + k <= Len(content[fd]) /\ buffer[k] = content[fd][offset + k]
        BY <1>1 DEF Buffered
      <4>2. fd \in Linked \cap Linked'
        BY <1>4, <1>5, <4>1
      <4>3. offset + k \in 1..Len(content[fd])
        BY <1>5, <2>1, <4>1, <4>2
      <4> QED
        BY <1>5, <2>1, <4>1, <4>2, <4>3
    <3> QED
      BY <1>3, <3>1 DEF Buffered
  <2>6. ASSUME pc = "advance", fd # NoInode, NEW k \in offset + 1..Len(content'[fd])
        PROVE  content'[fd][k] \in late'
    <3>1. fd \in Linked \cap Linked'
      BY <1>4, <1>5, <2>6
    <3>2. k \in 1..Len(content'[fd])
      BY <1>5, <2>1, <2>6, <3>1
    <3>3. k \in 1..Len(content[fd]) => k \in offset + 1..Len(content[fd])
      BY <1>5, <2>1, <2>6, <3>1
    <3>4. k \in 1..Len(content[fd]) => content[fd][k] \in late /\ content'[fd][k] = content[fd][k]
      BY <1>1, <1>5, <2>6, <3>1, <3>3 DEF Whereabouts
    <3> QED
      BY <1>5, <2>6, <3>2, <3>4
  <2>7. Whereabouts'
    BY <1>1, <1>3, <2>6 DEF Whereabouts
  <2> QED
    BY <2>4, <2>5, <2>7
<1>6. \A i \in Linked : i \in Inode /\ Len(content[i]) \in Nat
  BY <1>1, LinkedTyped, LinesByPlace
<1>7. CASE Write
  <2>1. /\ appFd \in Linked /\ appFd' = appFd
        /\ Linked' = Linked
        /\ \A i \in Inode : i # appFd => content'[i] = content[i] /\ LinesOf(i)' = LinesOf(i)
        /\ Len(content'[appFd]) = Len(content[appFd]) + 1
        /\ \A k \in 1..Len(content[appFd]) : content'[appFd][k] = content[appFd][k]
        /\ content'[appFd][Len(content[appFd]) + 1] = appended + 1
        /\ LinesOf(appFd)' = LinesOf(appFd) \cup {appended + 1}
    BY <1>1, <1>7, Written
  <2>2. late \subseteq late' /\ (BehindReader(appFd) => appended + 1 \in late')
    BY <1>7 DEF Write
  <2>3. \A i \in Linked :
            /\ Len(content'[i]) \in Nat
            /\ Len(content[i]) <= Len(content'[i])
            /\ \A k \in 1..Len(content[i]) : content'[i][k] = content[i][k]
    BY <1>6, <2>1
  <2>4. ASSUME pc = "advance", fd # NoInode, NEW k \in 1..Len(content'[fd])
        PROVE  k \in 1..Len(content[fd]) \/ content'[fd][k] \in late'
    <3>1. fd \in Linked /\ fd \in Inode /\ Len(content[fd]) \in Nat
      BY <1>4, <1>6, <2>4
    <3>2. CASE fd = appFd
      <4>1. appended + 1 \in late'
        BY <2>2, <2>4, <3>2 DEF BehindReader
      <4>2. k \in 1..Len(content[fd]) \/ k = Len(content[fd]) + 1
        BY <2>1, <2>4, <3>1, <3>2
      <4> QED
        BY <2>1, <3>2, <4>1, <4>2
    <3>3. CASE fd # appFd
      BY <2>1, <2>4, <3>1, <3>3
    <3> QED
      BY <3>2, <3>3
  <2>5. ASSUME NEW j \in (doneInodes \cap Linked) \ {At}
        PROVE  LinesOf(j)' \subseteq LinesOf(j) \cup late'
    <3>1. CASE j = appFd
      <4>1. appended + 1 \in late'
        BY <1>1, <1>7, <2>5, <3>1, LateBehind
      <4>2. LinesOf(j)' = LinesOf(appFd)'
        BY <2>1, <3>1
      <4> QED
        BY <2>1, <3>1, <4>1, <4>2
    <3>2. CASE j # appFd
      BY <1>6, <2>1, <2>5, <3>2
    <3> QED
      BY <3>1, <3>2
  <2> QED
    BY <1>4, <1>5, <1>6, <2>1, <2>2, <2>3, <2>4, <2>5
<1>8. CASE OpenNext
  <2>1. PICK i \in Inode \ (Linked \cup {appFd, fd}) :
           /\ content' = [content EXCEPT ![i] = <<>>]
           /\ Linked' = Linked \cup {i}
    BY <1>1, <1>8, Created
  <2>2. late' = late
    BY <1>8 DEF OpenNext
  <2>3. LinesOf(i)' = {} /\ \A j \in Linked : content'[j] = content[j] /\ LinesOf(j)' = LinesOf(j)
    <3>1. content'[i] = <<>> /\ \A j \in Linked : content'[j] = content[j]
      BY <1>1, <2>1, LinkedTyped DEF TypeOK
    <3>2. DOMAIN <<>> = {}
      OBVIOUS
    <3> QED
      BY <3>1, <3>2 DEF LinesOf, Range
  <2> QED
    BY <1>4, <1>5, <1>6, <2>1, <2>2, <2>3
<1>9. CASE Rename
  <2>1. PICK n \in Name :
           /\ fd # NoInode /\ (link[n] # NoInode => link[n] # fd)
           /\ Linked' = Linked \ {link[n]}
    BY <1>1, <1>9, Moved
  <2>2. content' = content /\ late' = late /\ \A j \in Linked : LinesOf(j)' = LinesOf(j)
    BY <1>9 DEF Rename, LinesOf
  <2> QED
    BY <1>4, <1>5, <1>6, <2>1, <2>2
<1> QED
  BY <1>1, <1>7, <1>8, <1>9 DEF Application

\* The file that is opened is where the reader is.
LEMMA OpenedAt ==
    ASSUME TypeOK, NEW i \in Linked, NEW at, Opened(i, at)
    PROVE  /\ At' = i /\ fd' = i /\ offset' = at /\ buffer' = <<>> /\ i # NoInode
           /\ currentFile' \in Name /\ currentFile' # NoName
           /\ link[currentFile'] = i
BY OpenedTyped, LinkedHasName, LinkedTyped, NoneAssumption DEF At, Opened

\* A reader that finds its file rotated has read what was not late.
LEMMA RotatedIsRead ==
    ASSUME RInv, Watched, fd # NoInode, Rotated
    PROVE  Polite /\ FirstLife /\ link[currentFile] # fd /\ LinesOf(fd) \subseteq taken
<1>1. At = fd /\ fd \in Linked /\ fd \in Inode
  BY AtTyped
<1>2. offset <= Len(content[fd])
  BY <1>1, LinkedTyped DEF RInv, Reader
<1>3. offset \in Nat /\ Len(content[fd]) \in Nat
  BY <1>1, LinesByPlace, DirAssumption DEF RInv, IInv, TypeOK
<1>4. link[currentFile] # fd
  BY <1>2, <1>3 DEF Rotated
<1>5. ~Untouched
  BY <1>4 DEF RInv, Places
<1>6. Polite /\ FirstLife
  BY <1>5 DEF Watched
<1> QED
  BY <1>4, <1>6 DEF RInv, Renamed

\* The Input and its Runner leave no record behind (every action of theirs).
LEMMA InputAhead ==
    ASSUME RInv, [Next]_vars, Watched', ~Application
    PROVE  Reader' /\ Buffered' /\ Whereabouts'
<1> USE NoneAssumption
<1>1. /\ Watched /\ Orderly /\ Files /\ Lines /\ TypeOK
      /\ Reader /\ Buffered /\ Whereabouts /\ HasFile
  BY WatchedBefore DEF RInv, IInv, Watched, Orderly
<1>2. /\ SameFiles /\ taken \subseteq taken'
      /\ Linked' = Linked /\ content' = content
      /\ \A j \in Linked : LinesOf(j)' = LinesOf(j)
  BY InputLeavesFiles DEF SameFiles, files, Linked, LinesOf
<1>3. /\ fd # NoInode => At = fd /\ fd \in Linked /\ fd \in Inode
      /\ currentFile = NoName /\ fd = NoInode => At = NoInode
      /\ At # NoInode => At \in Linked /\ At \in Inode
  BY <1>1, AtTyped
<1>4. offset \in Nat /\ \A i \in Linked : i # NoInode /\ Len(content[i]) \in Nat
  BY <1>1, LinkedTyped, LinesByPlace, DirAssumption DEF TypeOK
<1>5. CASE UNCHANGED reader /\ UNCHANGED caller /\ late' = late
           /\ (pc' = "advance" => pc = "advance" \/ ReadEOF)
           /\ (pc' \in {"closed", "down"} => pc' = pc)
  <2>1. At' = At
    BY <1>2, <1>5 DEF At, InodeOf, SameFiles, files, reader
  <2>2. Reader' /\ Buffered'
    BY <1>1, <1>2, <1>5, <2>1 DEF Reader, Buffered, Excused, reader, caller
  <2>3. ASSUME ReadEOF
        PROVE  fd # NoInode /\ \A k \in offset + 1..Len(content[fd]) : content[fd][k] \in late
    <3>1. fd # NoInode
      BY <1>1, <2>3 DEF ReadEOF, HasFile
    <3>2. offset <= Len(content[fd])
      BY <1>1, <1>3, <3>1 DEF Reader
    <3>3. offset = Len(content[fd])
      BY <1>1, <1>3, <2>3, <3>1, <3>2, AvailableIsNext DEF ReadEOF
    <3> QED
      BY <1>4, <3>1, <3>3
  <2>4. Whereabouts'
    BY <1>1, <1>2, <1>5, <2>3 DEF Whereabouts, reader
  <2> QED
    BY <2>2, <2>4
<1>6. CASE ReadBatch \/ Return \/ ReadEOF \/ UNCHANGED vars
  BY <1>5, <1>6 DEF ReadBatch, Return, ReadEOF, vars, caller
<1>7. CASE OpenFile
  <2>1. fd = NoInode /\ UNCHANGED <<doneInodes, caller, late>>
    BY <1>7 DEF OpenFile
  <2>2. taken' = taken /\ hand' = hand
    BY <2>1 DEF caller
  <2>3. ASSUME NEW i \in Linked, NEW at \in {0, offset}, Opened(i, at), pc' = "check",
               At = NoInode \/ At = i, At = NoInode => at = 0
        PROVE  Reader' /\ Buffered' /\ Whereabouts'
    <3>1. At' = i /\ fd' = i /\ offset' = at /\ buffer' = <<>> /\ i # NoInode /\ currentFile' # NoName
      BY <1>1, <2>3, OpenedAt
    <3>2. at <= Len(content[i]) /\ \A k \in 1..at : content[i][k] \in taken \cup hand
      BY <1>1, <1>4, <2>3 DEF Reader
    <3>3. \A j \in (doneInodes \cap Linked) \ {i} : LinesOf(j) \subseteq Excused
      BY <1>1, <1>4, <2>3 DEF Reader
    <3>4. Reader'
      BY <1>2, <2>1, <2>2, <2>3, <3>1, <3>2, <3>3 DEF Reader, Excused
    <3>5. Buffered' /\ Whereabouts'
      BY <2>3, <3>1, EmptySeq DEF Buffered, Whereabouts
    <3> QED
      BY <3>4, <3>5
  <2>4. CASE /\ currentFile # NoName /\ link[currentFile] # NoInode
             /\ Opened(link[currentFile], offset) /\ pc' = "check"
    <3>1. link[currentFile] \in Linked /\ At = link[currentFile]
      BY <1>1, <2>1, <2>4 DEF Linked, At, InodeOf, TypeOK
    <3> QED
      BY <2>3, <2>4, <3>1, <1>4
  <2>5. CASE currentFile = NoName /\ (\E i \in Oldest(Linked) : Opened(i, 0)) /\ pc' = "check"
    <3>1. PICK i \in Linked : Opened(i, 0)
      BY <2>5 DEF Oldest
    <3> QED
      BY <1>3, <2>1, <2>3, <2>5, <3>1
  <2>6. CASE /\ IF currentFile = NoName THEN Linked = {} ELSE link[currentFile] = NoInode
             /\ currentFile' = NoName /\ pc' = "advance" /\ UNCHANGED <<fd, offset, buffer>>
    <3>1. At = NoInode /\ At' = NoInode
      BY <2>1, <2>6 DEF At, InodeOf
    <3>2. Reader'
      BY <1>1, <1>2, <1>4, <2>1, <2>2, <3>1 DEF Reader, Excused
    <3>3. Buffered' /\ Whereabouts'
      BY <1>1, <1>2, <2>1, <2>6 DEF Buffered, Whereabouts
    <3> QED
      BY <3>2, <3>3
  <2> QED
    BY <1>7, <2>4, <2>5, <2>6 DEF OpenFile
<1>8. CASE DetectRotation
  <2>1. fd # NoInode /\ UNCHANGED <<caller, late>>
    BY <1>1, <1>8 DEF DetectRotation, HasFile
  <2>2. CASE Rotated
    <3>1. /\ doneInodes' = doneInodes \cup {fd} /\ currentFile' = NoName /\ fd' = NoInode
          /\ buffer' = <<>> /\ pc' = "advance"
      BY <1>8, <2>2 DEF DetectRotation
    <3>2. At' = NoInode /\ LinesOf(fd) \subseteq taken /\ At = fd
      BY <1>1, <1>3, <2>1, <2>2, <3>1, RotatedIsRead DEF At, InodeOf
    <3>3. \A j \in (doneInodes' \cap Linked) : LinesOf(j) \subseteq Excused
      BY <1>1, <3>1, <3>2 DEF Reader, Excused
    <3>4. Reader'
      BY <1>2, <2>1, <3>2, <3>3 DEF Reader, Excused, caller
    <3>5. Buffered' /\ Whereabouts'
      BY <3>1, EmptySeq DEF Buffered, Whereabouts
    <3> QED
      BY <3>4, <3>5
  <2>3. CASE ~Rotated
    BY <1>5, <1>8, <2>1, <2>3 DEF DetectRotation
  <2> QED
    BY <2>2, <2>3
<1>9. CASE ReadLine
  <2>1. fd # NoInode /\ At = fd /\ fd \in Inode /\ fd \in Linked
    BY <1>1, <1>3, <1>9 DEF ReadLine, HasFile
  <2>2. offset <= Len(content[fd])
    BY <1>1, <2>1 DEF Reader
  <2>3. /\ Available \in Seq(Record)
        /\ \A k \in 1..Len(Available) :
               /\ offset + k <= Len(content[fd])
               /\ Available[k] = content[fd][offset + k]
    BY <1>1, <2>1, <2>2, AvailableIsNext
  <2>4. Available # <<>> /\ Len(Available) \in Nat \ {0}
    BY <1>9, <2>3, EmptySeq DEF ReadLine
  <2>5. /\ Head(Available) = content[fd][offset + 1]
        /\ Len(buffer') = Len(Available) - 1
        /\ \A k \in 1..Len(buffer') : buffer'[k] = Available[k + 1]
    BY <1>9, <2>3, <2>4, HeadTailProperties DEF ReadLine
  <2>6. /\ offset' = offset + 1 /\ hand' = hand \cup {content[fd][offset + 1]}
        /\ fd' = fd /\ currentFile' = currentFile /\ doneInodes' = doneInodes
        /\ taken' = taken /\ late' = late /\ pc' = "line"
    BY <1>9, <2>5 DEF ReadLine
  <2>7. At' = At
    BY <2>1, <2>6 DEF At
  <2>8. offset' <= Len(content[fd]) /\ \A k \in 1..offset' : content[fd][k] \in taken \cup hand'
    <3>1. offset + 1 <= Len(content[fd])
      BY <2>3, <2>4
    <3>2. \A k \in 1..offset' : k \in 1..offset \/ k = offset + 1
      BY <1>4, <2>6
    <3>3. \A k \in 1..offset : content[fd][k] \in taken \cup hand
      BY <1>1, <2>1 DEF Reader
    <3> QED
      BY <2>6, <3>1, <3>2, <3>3
  <2>9. Reader'
    BY <1>1, <1>2, <2>1, <2>6, <2>7, <2>8 DEF Reader, Excused
  <2>10. Buffered'
    <3>1. ASSUME NEW k \in 1..Len(buffer')
          PROVE  /\ offset' + k <= Len(content[fd])
                 /\ buffer'[k] = content[fd][offset' + k]
      <4>1. k + 1 \in 1..Len(Available)
        BY <2>4, <2>5, <3>1
      <4>2. offset + (k + 1) = offset' + k
        BY <1>4, <2>4, <2>5, <2>6, <3>1
      <4> QED
        BY <2>3, <2>5, <3>1, <4>1, <4>2
    <3> QED
      BY <1>2, <2>1, <2>6, <3>1 DEF Buffered
  <2>11. Whereabouts'
    BY <1>1, <2>1, <2>6 DEF Whereabouts
  <2> QED
    BY <2>9, <2>10, <2>11
<1>10. CASE AdvanceFile
  <2>1. UNCHANGED caller /\ pc = "advance"
    BY <1>10 DEF AdvanceFile
  <2>2. CASE Candidates = {}
    <3>1. pc' = "out" /\ late' = late \ CurrentLines /\ UNCHANGED reader
      BY <1>10, <2>2 DEF AdvanceFile
    <3>2. At' = At
      BY <1>2, <3>1 DEF At, InodeOf, SameFiles, files, reader
    <3>3. ASSUME NEW j \in (doneInodes \cap Linked) \ {At}
          PROVE  LinesOf(j) \subseteq taken \cup hand \cup late'
      <4>1. LinesOf(j) \subseteq taken \cup hand \cup late
        BY <1>1, <3>3 DEF Reader, Excused
      <4>2. LinesOf(j) \cap CurrentLines = {}
        BY <1>1, <1>3, <3>3 DEF CurrentLines, Lines
      <4> QED
        BY <3>1, <4>1, <4>2
    <3>4. Reader'
      BY <1>1, <1>2, <2>1, <3>1, <3>2, <3>3 DEF Reader, Excused, reader, caller
    <3>5. Buffered' /\ Whereabouts'
      BY <1>1, <1>2, <3>1 DEF Buffered, Whereabouts, reader
    <3> QED
      BY <3>4, <3>5
  <2>3. CASE Candidates # {}
    <3>1. /\ doneInodes' = doneInodes \cup ({fd} \ {NoInode})
          /\ pc' = "line" /\ late' = late
      BY <1>10, <2>3 DEF AdvanceFile
    <3>2. PICK i \in Linked : Opened(i, 0)
      BY <1>10, <2>3 DEF AdvanceFile, Oldest, Candidates
    <3>3. At' = i /\ fd' = i /\ offset' = 0 /\ buffer' = <<>> /\ i # NoInode /\ currentFile' # NoName
      BY <1>1, <3>2, OpenedAt
    <3>4. fd # NoInode => LinesOf(fd) \subseteq Excused
      <4>1. ASSUME fd # NoInode, NEW k \in 1..Len(content[fd])
            PROVE  content[fd][k] \in Excused
        <5>1. CASE k <= offset
          <6>1. k \in 1..offset
            BY <1>3, <1>4, <4>1, <5>1
          <6> QED
            BY <1>1, <1>3, <4>1, <6>1 DEF Reader, Excused
        <5>2. CASE ~(k <= offset)
          <6>1. k \in offset + 1..Len(content[fd])
            BY <1>3, <1>4, <4>1, <5>2
          <6> QED
            BY <1>1, <2>1, <4>1, <6>1 DEF Whereabouts, Excused
        <5> QED
          BY <5>1, <5>2
      <4> QED
        BY <1>1, <1>3, <4>1, LinesByPlace
    <3>5. At # NoInode => At = fd
      BY <1>1, <1>3, <2>1 DEF Whereabouts
    <3>6. \A j \in (doneInodes' \cap Linked) : LinesOf(j) \subseteq Excused
      BY <1>1, <1>4, <3>1, <3>4, <3>5 DEF Reader
    <3>7. Reader'
      BY <1>2, <1>4, <2>1, <3>1, <3>2, <3>3, <3>6 DEF Reader, Excused, caller
    <3>8. Buffered' /\ Whereabouts'
      BY <3>1, <3>3, EmptySeq DEF Buffered, Whereabouts
    <3> QED
      BY <3>7, <3>8
  <2> QED
    BY <2>2, <2>3
<1>11. CASE Commit \/ Close
  <2>1. /\ doneInodes' = doneInodes \cap Linked /\ taken' = taken \cup hand /\ hand' = {}
        /\ currentFile' = currentFile /\ offset' = offset /\ late' = late
    BY <1>11 DEF Commit, Close, CommitState
  <2>2. /\ At' = At
        /\ \/ fd' = fd /\ buffer' = buffer /\ pc' = "out"
           \/ fd' = NoInode /\ buffer' = <<>> /\ pc' = "closed"
    <3>1. CASE Commit
      <4>1. fd' = fd /\ buffer' = buffer /\ pc' = "out" /\ currentFile' = currentFile
        BY <3>1 DEF Commit
      <4>2. link' = link
        BY <1>2 DEF SameFiles, files
      <4> QED
        BY <4>1, <4>2 DEF At, InodeOf
    <3>2. CASE Close
      <4>1. Untouched
        <5>1. ~FirstLife'
          BY <1>1, <3>2, WatchedBefore
        <5> QED
          BY <5>1, <1>1, Permitted DEF Watched, Polite
      <4>2. currentFile' = currentFile /\ fd' = NoInode /\ buffer' = <<>> /\ pc' = "closed"
        BY <3>2 DEF Close
      <4>3. link' = link
        BY <1>2 DEF SameFiles, files
      <4>4. fd # NoInode => currentFile # NoName
        BY <1>1 DEF Whereabouts
      <4>5. At' = InodeOf(currentFile)
        BY <4>2, <4>3 DEF At, InodeOf
      <4>6. At = InodeOf(currentFile)
        BY <1>1, <4>1, <4>4, AtTyped DEF At, InodeOf
      <4> QED
        BY <4>2, <4>5, <4>6
    <3> QED
      BY <1>11, <3>1, <3>2
  <2>3. Reader'
    BY <1>1, <1>2, <2>1, <2>2 DEF Reader, Excused
  <2>4. Buffered'
    BY <1>1, <1>2, <2>1, <2>2, EmptySeq DEF Buffered
  <2>5. Whereabouts'
    BY <1>1, <2>1, <2>2 DEF Whereabouts
  <2> QED
    BY <2>3, <2>4, <2>5
<1>12. CASE Crash
  <2>1. /\ doneInodes' = {} /\ buffer' = <<>> /\ fd' = NoInode /\ currentFile' = NoName /\ pc' = "down"
    BY <1>12 DEF Crash
  <2>2. At' = NoInode
    BY <2>1 DEF At, InodeOf
  <2> QED
    BY <2>1, <2>2, EmptySeq DEF Reader, Buffered, Whereabouts
<1>13. CASE NewDirInput
  <2>1. /\ currentFile' = disk.file /\ offset' = disk.offset /\ doneInodes' = disk.done
        /\ fd' = fd /\ buffer' = buffer /\ pc = "down" /\ pc' = "out"
        /\ taken' = taken /\ hand' = hand /\ late' = late
    BY <1>13 DEF NewDirInput, caller
  <2>2. fd = NoInode /\ buffer = <<>>
    BY <1>1, <2>1 DEF Whereabouts, RInv, IInv, IsDown
  <2>3. Untouched
    <3>1. ~FirstLife'
      BY <1>1, <1>13, WatchedBefore
    <3> QED
      BY <3>1, <1>1, Permitted DEF Watched, Polite
  <2>4. Places
    BY <2>3 DEF RInv
  <2>5. At' = Saved
    BY <1>2, <2>1, <2>2 DEF At, InodeOf, Saved, SameFiles, files
  <2>6. Reader'
    BY <1>2, <2>1, <2>4, <2>5 DEF Places, Position, Reader, Excused
  <2>7. Buffered' /\ Whereabouts'
    BY <2>1, <2>2, EmptySeq DEF Buffered, Whereabouts
  <2> QED
    BY <2>6, <2>7
<1> QED
  BY <1>6, <1>7, <1>8, <1>9, <1>10, <1>11, <1>12, <1>13 DEF Next, Input

\* In its first life the reader leaves the active file only for a newer one, or when it has
\* been renamed.
LEMMA RenamedKept ==
    ASSUME RInv, [Next]_vars, Polite, FirstLife'
    PROVE  Renamed'
<1> USE NoneAssumption, DirAssumption
<1>1. /\ FirstLife /\ Renamed /\ Watched /\ Orderly /\ Files /\ TypeOK /\ Reader /\ Whereabouts
      /\ ~Close /\ ~Crash /\ ~NewDirInput /\ ~Truncate /\ ~Unlink /\ HasFile
  <2>1. FirstLife /\ ~Close /\ ~Crash /\ ~NewDirInput
    BY WatchedBefore DEF RInv, IInv
  <2>2. ~Truncate /\ ~Unlink
    BY DEF Polite, Truncate, Unlink, MayHandle
  <2> QED
    BY <2>1, <2>2 DEF RInv, IInv, Watched, Orderly
<1>2. Watched'
  BY DEF Watched, Polite
<1>3. /\ fd # NoInode => At = fd /\ fd \in Linked /\ fd \in Inode
      /\ fd # NoInode => currentFile \in Name
      /\ fd = NoInode => currentFile = NoName
  BY <1>1, AtTyped DEF TypeOK, Whereabouts, Renamed
<1>4. ASSUME Application
      PROVE  fd' = fd /\ currentFile' = currentFile /\ doneInodes' = doneInodes /\ taken' = taken
  BY <1>2, <1>4, AtStays DEF reader, caller
<1>5. CASE Write
  <2>1. /\ appFd \in Linked /\ appFd' = appFd /\ link' = link /\ Linked' = Linked
        /\ \A i \in Inode : i # appFd => LinesOf(i)' = LinesOf(i)
    BY <1>1, <1>5, Written
  <2>2. used' = used
    BY <1>5 DEF Write
  <2>3. fd # NoInode /\ link[currentFile] # fd => LinesOf(fd)' = LinesOf(fd)
    <3>1. ASSUME fd # NoInode, fd # appFd  PROVE LinesOf(fd)' = LinesOf(fd)
      <4>1. fd' = fd /\ content'[fd] = content[fd]
        BY <1>1, <1>3, <1>4, <1>5, <3>1, Written DEF Application
      <4> QED
        BY <4>1 DEF LinesOf
    <3> QED
      BY <1>1, <3>1 DEF Renamed
  <2> QED
    BY <1>1, <1>4, <1>5, <2>1, <2>2, <2>3 DEF Renamed, Application
<1>6. CASE OpenNext
  <2>1. PICK n \in Name, i \in Inode \ (Linked \cup {appFd, fd}) :
           /\ ReuseInodes \/ i \notin used
           /\ link[n] = NoInode
           /\ link' = [link EXCEPT ![n] = i]
           /\ content' = [content EXCEPT ![i] = <<>>]
           /\ Linked' = Linked \cup {i}
           /\ used' = used \cup {i}
           /\ appFd' = i
    BY <1>1, <1>6, Created
  <2>2. i \notin doneInodes /\ i # fd
    BY <1>1, <2>1 DEF Polite, Renamed
  <2>3. /\ fd' = fd /\ currentFile' = currentFile /\ doneInodes' = doneInodes /\ taken' = taken
    BY <1>4, <1>6 DEF Application
  <2>4. fd # NoInode => LinesOf(fd)' = LinesOf(fd)
    BY <1>1, <1>3, <2>1, <2>3 DEF LinesOf, TypeOK
  <2>5. fd # NoInode /\ link'[currentFile] # fd => link[currentFile] # fd
    BY <1>1, <1>3, <2>1 DEF TypeOK
  <2>6. fd' # NoInode /\ link'[currentFile'] # fd' =>
            currentFile' = Active /\ LinesOf(fd)' \subseteq taken' /\ appFd' # fd'
    BY <1>1, <2>1, <2>2, <2>3, <2>4, <2>5 DEF Renamed
  <2> QED
    BY <1>1, <2>1, <2>2, <2>3, <2>6 DEF Renamed
<1>7. CASE Rename
  <2>1. PICK n \in Name \ {Active} :
           /\ link[Active] = fd /\ fd # NoInode /\ LinesOf(fd) \subseteq taken
           /\ link' = [link EXCEPT ![n] = fd, ![Active] = NoInode]
           /\ appFd' = NoInode
    BY <1>1, <1>7, Moved
  <2>2. content' = content /\ used' = used
    BY <1>7 DEF Rename
  <2>3. /\ fd' = fd /\ currentFile' = currentFile /\ doneInodes' = doneInodes /\ taken' = taken
    BY <1>4, <1>7 DEF Application
  <2>4. LinesOf(fd)' = LinesOf(fd)
    BY <2>2, <2>3 DEF LinesOf
  <2>5. currentFile = Active
    BY <1>1, <1>3, <2>1 DEF Renamed, Files
  <2>6. doneInodes \subseteq Inode
    BY <1>1 DEF TypeOK
  <2> QED
    BY <1>1, <2>1, <2>2, <2>3, <2>4, <2>5, <2>6 DEF Renamed
<1>8. ASSUME ~Application
      PROVE  /\ taken \subseteq taken' /\ Linked' = Linked /\ link' = link
             /\ appFd' = appFd /\ used' = used
             /\ \A j \in Linked : LinesOf(j)' = LinesOf(j)
  BY <1>8, InputLeavesFiles DEF SameFiles, files, Linked, LinesOf
<1>9. CASE /\ ~Application /\ UNCHANGED <<currentFile, fd>>
           /\ doneInodes' \in {doneInodes, doneInodes \cap Linked}
  <2>1. LinesOf(fd)' = LinesOf(fd)
    BY <1>9, InputLeavesFiles DEF SameFiles, files, LinesOf
  <2>2. /\ taken \subseteq taken' /\ Linked' = Linked /\ link' = link /\ appFd' = appFd /\ used' = used
    BY <1>8, <1>9
  <2> QED
    BY <1>1, <1>9, <2>1, <2>2 DEF Renamed
<1>10. CASE ~Application /\ OpenFile
  <2>1. fd = NoInode /\ currentFile = NoName /\ doneInodes' = doneInodes
    BY <1>1, <1>10 DEF OpenFile, Renamed
  <2>2. CASE \E i \in Oldest(Linked) : Opened(i, 0)
    <3>1. PICK i \in Linked : Opened(i, 0) /\ \A j \in Linked \ {i} : <<i, j>> \in older
      BY <2>2 DEF Oldest
    <3>2. fd' = i /\ link[currentFile'] = i
      BY <1>1, <3>1, OpenedAt
    <3>3. i = appFd => Linked \ {i} = {}
      BY <1>1, <3>1, LinkedTyped DEF Files
    <3>4. ~(appFd \in doneInodes /\ link[Active] = appFd)
      BY <1>1, <2>1 DEF Renamed, TypeOK
    <3>5. /\ taken \subseteq taken' /\ Linked' = Linked /\ link' = link
          /\ appFd' = appFd /\ used' = used
      BY <1>8, <1>10
    <3>6. currentFile' # NoName /\ fd' # NoInode
      BY <1>1, <3>1, OpenedAt
    <3> QED
      BY <1>1, <2>1, <3>2, <3>3, <3>4, <3>5, <3>6 DEF Renamed
  <2>3. CASE UNCHANGED fd /\ currentFile' = NoName
    BY <1>1, <1>9, <1>10, <2>1, <2>3
  <2> QED
    BY <1>10, <2>1, <2>2, <2>3 DEF OpenFile
<1>11. CASE ~Application /\ DetectRotation
  <2>1. CASE Rotated
    <3>1. fd # NoInode
      BY <1>1, <1>11 DEF DetectRotation, HasFile
    <3>2. doneInodes' = doneInodes \cup {fd} /\ fd' = NoInode /\ currentFile' = NoName
      BY <1>11, <2>1 DEF DetectRotation
    <3>3. link[currentFile] # fd
      BY <1>1, <2>1, <3>1, RotatedIsRead
    <3>4. appFd # fd
      BY <1>1, <3>1, <3>3 DEF Renamed
    <3>5. appFd \in doneInodes' /\ link[Active] = appFd => FALSE
      <4>1. SUFFICES ASSUME appFd \in doneInodes, link[Active] = appFd  PROVE FALSE
        BY <3>2, <3>4
      <4> QED
        BY <1>1, <3>4, <4>1 DEF Renamed
    <3> QED
      BY <1>1, <1>3, <1>8, <1>11, <3>1, <3>2, <3>5 DEF Renamed, Files
  <2>2. CASE ~Rotated
    BY <1>9, <1>11, <2>2 DEF DetectRotation, reader
  <2> QED
    BY <2>1, <2>2
<1>12. CASE ~Application /\ AdvanceFile
  <2>1. CASE Candidates = {}
    BY <1>9, <1>12, <2>1 DEF AdvanceFile, reader
  <2>2. CASE Candidates # {}
    <3>1. doneInodes' = doneInodes \cup ({fd} \ {NoInode})
      BY <1>12, <2>2 DEF AdvanceFile
    <3>2. PICK i \in Candidates : Opened(i, 0) /\ \A j \in Candidates \ {i} : <<i, j>> \in older
      BY <1>12, <2>2 DEF AdvanceFile, Oldest
    <3>3. i \in Linked /\ i \notin doneInodes /\ (currentFile = NoName \/ link[currentFile] # i)
      BY <3>2 DEF Candidates
    <3>4. fd' = i /\ link[currentFile'] = i /\ currentFile' # NoName /\ i # NoInode
      BY <1>1, <3>2, <3>3, OpenedAt
    <3>5. doneInodes' \subseteq used'
      BY <1>1, <1>3, <1>8, <1>12, <3>1 DEF Renamed, Files
    <3>6. i = appFd /\ i = link[Active] => Linked \ {i} \subseteq doneInodes'
      <4>1. SUFFICES ASSUME i = appFd, i = link[Active], NEW j \in Linked, j # i, j \notin doneInodes'
                     PROVE  FALSE
        OBVIOUS
      <4>2. <<j, i>> \in older /\ ~(<<i, j>> \in older)
        BY <1>1, <3>3, <4>1, LinkedTyped DEF Files
      <4>3. j \notin Candidates
        BY <3>2, <4>1, <4>2
      <4>4. j # fd /\ currentFile # NoName /\ link[currentFile] = j
        BY <1>1, <3>1, <4>1, <4>3, LinkedTyped DEF Candidates
      <4>5. currentFile = Active
        BY <1>1, <1>3, <4>4 DEF Renamed
      <4> QED
        BY <4>1, <4>4, <4>5
    <3>7. appFd \in doneInodes' /\ link[Active] = appFd => i = appFd
      <4>1. SUFFICES ASSUME appFd \in doneInodes', link[Active] = appFd, i # appFd  PROVE FALSE
        OBVIOUS
      <4>2. fd = appFd
        BY <1>1, <3>1, <4>1 DEF Renamed
      <4>3. fd # NoInode
        BY <1>1, <3>1, <4>1, <4>2 DEF TypeOK
      <4>4. Linked \ {fd} \subseteq doneInodes
        BY <1>1, <4>1, <4>2, <4>3 DEF Renamed
      <4> QED
        BY <3>3, <4>1, <4>2, <4>4
    <3> QED
      BY <1>8, <1>12, <3>4, <3>5, <3>6, <3>7 DEF Renamed
  <2> QED
    BY <2>1, <2>2
<1>13. CASE ~Application /\ (ReadBatch \/ Return \/ ReadEOF \/ ReadLine \/ Commit \/ UNCHANGED vars)
  BY <1>9, <1>13 DEF ReadBatch, Return, ReadEOF, ReadLine, Commit, CommitState, vars, reader
<1> QED
  BY <1>1, <1>5, <1>6, <1>7, <1>10, <1>11, <1>12, <1>13 DEF Next, Input, Application

-----------------------------------------------------------------------------
(* Places, while no file is renamed, cut or removed.                       *)

\* A place stays what it was when the application goes on writing.
LEMMA PlaceStays ==
    ASSUME TypeOK, Files, Write \/ OpenNext,
           NEW i \in Linked, NEW at \in Nat, NEW done, Position(i, at, done)
    PROVE  /\ i \in Linked'
           /\ at <= Len(content'[i])
           /\ \A k \in 1..at : content'[i][k] = content[i][k]
           /\ done = {j \in Linked' : <<j, i>> \in older'}
           /\ \A j \in done : LinesOf(j)' = LinesOf(j)
<1> USE NoneAssumption
<1>1. /\ at <= Len(content[i]) /\ Len(content[i]) \in Nat /\ i \in Inode /\ i # NoInode
      /\ done = {j \in Linked : <<j, i>> \in older}
  BY LinkedTyped, LinesByPlace DEF Position
<1>2. CASE Write
  <2>1. /\ appFd \in Linked /\ Linked' = Linked /\ older' = older
        /\ \A j \in Inode : j # appFd => content'[j] = content[j] /\ LinesOf(j)' = LinesOf(j)
        /\ Len(content'[appFd]) = Len(content[appFd]) + 1
        /\ \A k \in 1..Len(content[appFd]) : content'[appFd][k] = content[appFd][k]
    BY <1>2, Written
  <2>2. at <= Len(content'[i]) /\ \A k \in 1..at : content'[i][k] = content[i][k]
    BY <1>1, <2>1
  <2>3. appFd \notin done
    BY <1>1, <2>1, LinkedTyped DEF Files
  <2>4. \A j \in done : j \in Inode /\ j # appFd
    BY <1>1, <2>3, LinkedTyped
  <2> QED
    BY <1>1, <2>1, <2>2, <2>4
<1>3. CASE OpenNext
  <2>1. PICK n \in Inode \ (Linked \cup {appFd, fd}) :
           /\ content' = [content EXCEPT ![n] = <<>>]
           /\ older' = older \cup (Linked \X {n})
           /\ Linked' = Linked \cup {n}
    BY <1>3, Created
  <2>2. \A j \in Linked : content'[j] = content[j] /\ LinesOf(j)' = LinesOf(j)
    <3>1. \A j \in Linked : content'[j] = content[j]
      BY <2>1, LinkedTyped DEF TypeOK
    <3> QED
      BY <3>1 DEF LinesOf
  <2>3. \A j \in Linked' : <<j, i>> \in older' <=> j \in Linked /\ <<j, i>> \in older
    BY <2>1 DEF Files
  <2> QED
    BY <1>1, <2>1, <2>2, <2>3
<1> QED
  BY <1>2, <1>3

\* What a place has passed does not hold the file it is in; the state on disk has passed no
\* more than the reader.
LEMMA SavedBehind ==
    ASSUME RInv, Untouched, pc # "down"
    PROVE  At \notin doneInodes /\ disk.done \subseteq doneInodes
<1>1. Files /\ Sorted /\ Places
  BY DEF RInv, Orderly
<1>2. At \notin doneInodes
  BY <1>1 DEF Files, Places, Position
<1>3. CASE Saved = NoInode
  BY <1>1, <1>2, <1>3 DEF Places, Position
<1>4. CASE Saved \in doneInodes
  <2>1. /\ Saved \in Linked /\ At \in Linked /\ <<Saved, At>> \in older
        /\ doneInodes = {j \in Linked : <<j, At>> \in older}
    BY <1>1, <1>4, LinkedTyped DEF Places, Position
  <2>2. disk.done = {j \in Linked : <<j, Saved>> \in older}
    BY <1>1, <2>1, LinkedTyped DEF Places, Position
  <2> QED
    BY <1>1, <1>2, <2>1, <2>2 DEF Sorted
<1>5. CASE Saved = At /\ Saved # NoInode
  BY <1>1, <1>2, <1>5 DEF Places, Position
<1> QED
  BY <1>1, <1>2, <1>3, <1>4, <1>5 DEF Places

\* The oldest of the files behind a place is the next place.
LEMMA NextPlace ==
    ASSUME RInv, Untouched, NEW S \in SUBSET Linked, NEW i \in Oldest(S),
           S = Linked \ (doneInodes \cup {At})
    PROVE  Position(i, 0, doneInodes \cup ({At} \ {NoInode}))
<1>1. Files /\ Sorted /\ Places /\ TypeOK
  BY DEF RInv, IInv, Orderly
<1>2. i \in Linked /\ i \in S /\ \A j \in S \ {i} : <<i, j>> \in older
  BY DEF Oldest
<1>3. \A j \in Linked \ {i} : ~(<<j, i>> \in older) <=> <<i, j>> \in older
  BY <1>1, <1>2 DEF Files, Sorted
<1>4. ~(<<i, i>> \in older)
  BY <1>1, <1>2 DEF Files
<1>5. {j \in Linked : <<j, i>> \in older} = doneInodes \cup ({At} \ {NoInode})
  <2>1. CASE At = NoInode
    <3>1. doneInodes = {} /\ S = Linked
      BY <1>1, <2>1, LinkedTyped DEF Places, Position
    <3> QED
      BY <1>2, <1>3, <1>4, <2>1, <3>1
  <2>2. CASE At # NoInode
    <3>1. At \in Linked /\ doneInodes = {j \in Linked : <<j, At>> \in older}
      BY <1>1, <2>2 DEF Places, Position
    <3>2. i # At /\ <<At, i>> \in older
      BY <1>1, <1>2, <3>1 DEF Sorted
    <3>3. \A j \in doneInodes : <<j, i>> \in older
      BY <1>1, <1>2, <3>1, <3>2 DEF Sorted
    <3>4. \A j \in S : ~(<<j, i>> \in older)
      BY <1>2, <1>3, <1>4
    <3> QED
      BY <2>2, <3>1, <3>2, <3>3, <3>4
  <2> QED
    BY <2>1, <2>2
<1>6. 0 <= Len(content[i]) /\ i # NoInode
  BY <1>1, <1>2, LinkedTyped, LinesByPlace
<1> QED
  BY <1>2, <1>5, <1>6 DEF Position

\* The reader and the state on disk keep their places (every action of the Input, the Runner
\* and an application that only writes and goes on to new names).
LEMMA PlacesKept ==
    ASSUME RInv, [Next]_vars, Untouched'
    PROVE  Places'
<1> USE NoneAssumption
<1>1. /\ Untouched /\ Watched /\ Files /\ Lines /\ Sorted /\ Places /\ TypeOK /\ HasFile
      /\ Reader /\ Buffered /\ Whereabouts /\ ~Truncate /\ ~Unlink /\ ~Rename
  BY Permitted DEF RInv, IInv, Watched, Orderly
<1>2. Watched'
  BY DEF Watched
<1>3. offset \in Nat /\ disk.offset \in Nat
  BY <1>1, DirAssumption DEF TypeOK, State
<1>4. /\ fd # NoInode => At = fd /\ fd \in Linked /\ fd \in Inode
      /\ At = InodeOf(currentFile)
      /\ At # NoInode => At \in Linked /\ At \in Inode
  BY <1>1, AtTyped DEF InodeOf, Places, At, Whereabouts
<1>5. CASE Application
  <2>1. /\ At' = At /\ fd' = fd /\ currentFile' = currentFile /\ offset' = offset
        /\ doneInodes' = doneInodes /\ disk' = disk /\ taken' = taken /\ pc' = pc
    BY <1>2, <1>5, AtStays DEF reader, caller
  <2>2. Write \/ OpenNext
    BY <1>1, <1>5 DEF Application
  <2>3. \A n \in Name : link[n] # NoInode => link'[n] = link[n]
    <3>1. CASE Write
      BY <3>1 DEF Write
    <3>2. CASE OpenNext
      <4>1. PICK n \in Name, i \in Inode : link[n] = NoInode /\ link' = [link EXCEPT ![n] = i]
        BY <1>1, <3>2, Created
      <4> QED
        BY <1>1, <4>1 DEF TypeOK
    <3> QED
      BY <2>2, <3>1, <3>2
  <2>4. late \subseteq late'
    BY <2>2 DEF Write, OpenNext
  <2>5. /\ disk.file # NoName => disk.file \in Name /\ link[disk.file] # NoInode
        /\ currentFile # NoName => currentFile \in Name /\ link[currentFile] # NoInode
    BY <1>1 DEF Places, Saved, InodeOf, TypeOK, State
  <2>6. Saved' = Saved
    BY <2>1, <2>3, <2>5 DEF Saved, InodeOf
  <2>7. Position(At, offset, doneInodes)'
    <3>1. CASE At = NoInode
      BY <1>1, <2>1, <3>1 DEF Places, Position
    <3>2. CASE At # NoInode
      <4>1. Position(At, offset, doneInodes)
        BY <1>1 DEF Places
      <4>2. /\ At \in Linked' /\ offset <= Len(content'[At])
            /\ doneInodes = {j \in Linked' : <<j, At>> \in older'}
        BY <1>1, <1>3, <1>4, <2>2, <3>2, <4>1, PlaceStays
      <4> QED
        BY <2>1, <3>2, <4>2 DEF Position
    <3> QED
      BY <3>1, <3>2
  <2>8. /\ Position(Saved, disk.offset, disk.done)'
        /\ Saved # NoInode => \A k \in 1..disk.offset : content'[Saved][k] \in taken'
        /\ \A j \in disk.done : LinesOf(j)' \subseteq taken' \cup late'
    <3>1. CASE Saved = NoInode
      BY <1>1, <2>1, <2>6, <3>1 DEF Places, Position
    <3>2. CASE Saved # NoInode
      <4>1. Position(Saved, disk.offset, disk.done) /\ Saved \in Linked
        BY <1>1, <3>2 DEF Places, Position
      <4>2. /\ Saved \in Linked' /\ disk.offset <= Len(content'[Saved])
            /\ \A k \in 1..disk.offset : content'[Saved][k] = content[Saved][k]
            /\ disk.done = {j \in Linked' : <<j, Saved>> \in older'}
            /\ \A j \in disk.done : LinesOf(j)' = LinesOf(j)
        BY <1>1, <1>3, <2>2, <4>1, PlaceStays
      <4>3. Position(Saved, disk.offset, disk.done)'
        BY <2>1, <2>6, <3>2, <4>2 DEF Position
      <4>4. \A k \in 1..disk.offset : content'[Saved][k] \in taken'
        BY <1>1, <2>1, <3>2, <4>2 DEF Places
      <4>5. \A j \in disk.done : LinesOf(j)' \subseteq taken' \cup late'
        BY <1>1, <2>1, <2>4, <4>2 DEF Places
      <4> QED
        BY <4>3, <4>4, <4>5
    <3> QED
      BY <3>1, <3>2
  <2>9. /\ currentFile' # NoName => link'[currentFile'] # NoInode
        /\ fd' # NoInode => link'[currentFile'] = fd'
    BY <1>1, <2>1, <2>3, <2>5 DEF Places, Whereabouts
  <2> QED
    BY <1>1, <2>1, <2>6, <2>7, <2>8, <2>9 DEF Places
\* The Input and the Runner: a place is what it was as long as its numbers are.
<1>6. ASSUME ~Application
      PROVE  /\ link' = link /\ content' = content /\ older' = older /\ Linked' = Linked
             /\ taken \subseteq taken' /\ \A j \in Linked : LinesOf(j)' = LinesOf(j)
  BY <1>6, InputLeavesFiles DEF SameFiles, files, Linked, LinesOf
\* A state on disk that was not written is still that of a place behind the reader.
<1>7. ASSUME ~Application, disk' = disk, late' = late \/ (late' = late \ CurrentLines /\ pc = "advance")
      PROVE  /\ Saved' = Saved
             /\ Position(Saved, disk.offset, disk.done)'
             /\ disk.file # NoName => Saved' # NoInode
             /\ Saved # NoInode => \A k \in 1..disk.offset : content'[Saved][k] \in taken'
             /\ \A j \in disk.done : LinesOf(j)' \subseteq taken' \cup late'
  <2>1. Saved' = Saved
    BY <1>6, <1>7 DEF Saved, InodeOf
  <2>2. Position(Saved, disk.offset, disk.done)'
    BY <1>1, <1>6, <1>7, <2>1 DEF Places, Position
  <2>3. Saved # NoInode => \A k \in 1..disk.offset : content'[Saved][k] \in taken'
    BY <1>1, <1>6, <1>7 DEF Places
  <2>4. disk.done \subseteq Linked
    BY <1>1 DEF Places, Position
  <2>5. ASSUME NEW j \in disk.done  PROVE LinesOf(j)' \subseteq taken' \cup late'
    <3>1. LinesOf(j)' = LinesOf(j) /\ LinesOf(j) \subseteq taken \cup late /\ taken \subseteq taken'
      BY <1>1, <1>6, <1>7, <2>4, <2>5 DEF Places
    <3>2. late' = late \ CurrentLines /\ pc = "advance" => LinesOf(j) \cap CurrentLines = {}
      <4>1. SUFFICES ASSUME pc = "advance"  PROVE LinesOf(j) \cap CurrentLines = {}
        OBVIOUS
      <4>2. fd # NoInode => j # fd /\ j \in Linked /\ fd \in Linked
        BY <1>1, <1>4, <2>4, <2>5, <4>1, SavedBehind
      <4> QED
        BY <1>1, <4>2 DEF CurrentLines, Lines
    <3> QED
      BY <1>7, <3>1, <3>2
  <2>6. disk.file # NoName => Saved' # NoInode
    BY <1>1, <2>1 DEF Places
  <2> QED
    BY <2>1, <2>2, <2>3, <2>5, <2>6
<1>8. CASE /\ ~Application /\ disk' = disk /\ UNCHANGED reader /\ (pc = "down" => pc' = "down")
           /\ late' = late \/ (late' = late \ CurrentLines /\ pc = "advance")
  <2>1. At' = At
    BY <1>6, <1>8 DEF At, InodeOf, reader
  <2>2. Position(At, offset, doneInodes)'
    BY <1>1, <1>6, <1>8, <2>1 DEF Places, Position, reader
  <2>3. /\ currentFile' # NoName => link'[currentFile'] # NoInode
        /\ fd' # NoInode => link'[currentFile'] = fd'
    BY <1>1, <1>6, <1>8 DEF Places, reader
  <2>4. pc' # "down" =>
           \/ Saved = NoInode
           \/ Saved \in doneInodes
           \/ Saved = At /\ disk.offset <= offset
    BY <1>1, <1>8 DEF Places
  <2> QED
    BY <1>7, <1>8, <2>1, <2>2, <2>3, <2>4 DEF Places, reader
<1>9. CASE ~Application /\ (ReadBatch \/ Return \/ ReadEOF \/ UNCHANGED vars)
  BY <1>8, <1>9 DEF ReadBatch, Return, ReadEOF, vars
\* The reader opens the next place.
<1>10. ASSUME ~Application, disk' = disk, late' = late, pc # "down",
              NEW i \in Oldest(Linked \ (doneInodes \cup {At})), Opened(i, 0),
              doneInodes' = doneInodes \cup ({At} \ {NoInode})
       PROVE  Places'
  <2>1. Position(i, 0, doneInodes \cup ({At} \ {NoInode}))
    BY <1>1, NextPlace
  <2>2. i \in Linked
    BY DEF Oldest
  <2>3. At' = i /\ fd' = i /\ offset' = 0 /\ i # NoInode /\ link[currentFile'] = i
    BY <1>1, <1>10, <2>2, OpenedAt
  <2>4. Position(At, offset, doneInodes)'
    BY <1>6, <1>10, <2>1, <2>3 DEF Position
  <2>5. Saved = NoInode \/ Saved \in doneInodes'
    BY <1>1, <1>10 DEF Places
  <2> QED
    BY <1>6, <1>7, <1>10, <2>3, <2>4, <2>5 DEF Places
<1>11. CASE ~Application /\ OpenFile
  <2>1. fd = NoInode /\ pc = "line" /\ disk' = disk /\ late' = late /\ doneInodes' = doneInodes
    BY <1>11 DEF OpenFile
  <2>2. CASE /\ currentFile # NoName /\ link[currentFile] # NoInode
             /\ Opened(link[currentFile], offset) /\ pc' = "check"
    <3>1. At = link[currentFile] /\ At \in Linked
      BY <1>1, <1>4, <2>1, <2>2 DEF InodeOf
    <3>2. At' = At /\ fd' = At /\ offset' = offset /\ link[currentFile'] = At /\ At # NoInode
      BY <1>1, <2>2, <3>1, OpenedAt
    <3>3. Position(At, offset, doneInodes)'
      BY <1>1, <1>6, <1>11, <2>1, <3>2 DEF Places, Position
    <3>4. \/ Saved = NoInode
          \/ Saved \in doneInodes
          \/ Saved = At /\ disk.offset <= offset
      BY <1>1, <2>1 DEF Places
    <3> QED
      BY <1>6, <1>7, <1>11, <2>1, <3>2, <3>3, <3>4 DEF Places
  <2>3. CASE currentFile = NoName /\ (\E i \in Oldest(Linked) : Opened(i, 0)) /\ pc' = "check"
    <3>1. PICK i \in Oldest(Linked) : Opened(i, 0)
      BY <2>3
    <3>2. At = NoInode /\ doneInodes = {}
      BY <1>1, <1>4, <2>3 DEF InodeOf, Places, Position
    <3>3. Linked \ (doneInodes \cup {At}) = Linked /\ doneInodes \cup ({At} \ {NoInode}) = doneInodes
      BY <3>2, LinkedTyped
    <3> QED
      BY <1>10, <1>11, <2>1, <3>1, <3>3
  <2>4. CASE /\ IF currentFile = NoName THEN Linked = {} ELSE link[currentFile] = NoInode
             /\ currentFile' = NoName /\ UNCHANGED <<fd, offset, buffer>>
    <3>1. currentFile = NoName
      BY <1>1, <2>4 DEF Places
    <3> QED
      BY <1>8, <1>11, <2>1, <2>4, <3>1 DEF reader
  <2> QED
    BY <1>11, <2>2, <2>3, <2>4 DEF OpenFile
<1>12. CASE ~Application /\ DetectRotation
  <2>1. fd # NoInode
    BY <1>1, <1>12 DEF DetectRotation, HasFile
  <2>2. ~Rotated
    BY <1>1, <2>1, RotatedIsRead DEF Places
  <2> QED
    BY <1>8, <1>12, <2>2 DEF DetectRotation
<1>13. CASE ~Application /\ ReadLine
  <2>1. fd # NoInode /\ At = fd /\ fd \in Inode
    BY <1>1, <1>4, <1>13 DEF ReadLine, HasFile
  <2>2. offset <= Len(content[fd]) /\ Len(content[fd]) \in Nat
    BY <1>1, <2>1, LinesByPlace DEF Reader
  <2>3. Available # <<>>
    BY <1>13 DEF ReadLine
  <2>4. offset + 1 <= Len(content[fd])
    <3>1. /\ Available \in Seq(Record)
          /\ \A k \in 1..Len(Available) : offset + k <= Len(content[fd])
      BY <1>1, <2>1, <2>2, AvailableIsNext
    <3>2. Len(Available) \in Nat \ {0}
      BY <2>3, <3>1, EmptySeq
    <3> QED
      BY <3>1, <3>2
  <2>5. /\ offset' = offset + 1 /\ fd' = fd /\ currentFile' = currentFile
        /\ doneInodes' = doneInodes /\ disk' = disk /\ late' = late /\ pc = "read"
    BY <1>13 DEF ReadLine
  <2>6. At' = At
    BY <2>1, <2>5 DEF At
  <2>7. Position(At, offset, doneInodes)'
    BY <1>1, <1>6, <1>13, <2>1, <2>4, <2>5, <2>6 DEF Places, Position
  <2>8. \/ Saved = NoInode
        \/ Saved \in doneInodes
        \/ Saved = At /\ disk.offset <= offset + 1
    BY <1>1, <1>3, <2>5 DEF Places
  <2> QED
    BY <1>1, <1>6, <1>7, <1>13, <2>5, <2>6, <2>7, <2>8 DEF Places
<1>14. CASE ~Application /\ AdvanceFile
  <2>1. disk' = disk /\ pc = "advance"
    BY <1>14 DEF AdvanceFile
  <2>2. CASE Candidates = {}
    BY <1>8, <1>14, <2>1, <2>2 DEF AdvanceFile
  <2>3. CASE Candidates # {}
    <3>1. /\ doneInodes' = doneInodes \cup ({fd} \ {NoInode})
          /\ late' = late
      BY <1>14, <2>3 DEF AdvanceFile
    <3>2. PICK i \in Oldest(Candidates) : Opened(i, 0)
      BY <1>14, <2>3 DEF AdvanceFile
    <3>3. At = fd
      BY <1>1, <1>4, <2>1 DEF Whereabouts, InodeOf
    <3>4. Candidates = Linked \ (doneInodes \cup {At})
      BY <1>4, LinkedTyped DEF Candidates, InodeOf
    <3> QED
      BY <1>10, <1>14, <2>1, <3>1, <3>2, <3>3, <3>4
  <2> QED
    BY <2>2, <2>3
<1>15. CASE ~Application /\ (Commit \/ Close)
  <2>1. /\ currentFile' = currentFile /\ offset' = offset /\ late' = late
        /\ doneInodes' = doneInodes \cap Linked /\ taken' = taken \cup hand /\ pc = "out"
        /\ fd' = fd \/ fd' = NoInode
        /\ disk' = [file |-> currentFile, offset |-> offset, done |-> doneInodes'] \/ disk' = disk
    BY <1>15 DEF Commit, Close, CommitState
  <2>2. doneInodes' = doneInodes
    BY <1>1, <2>1 DEF Places, Position
  <2>3. At' = At /\ InodeOf(currentFile) = At
    BY <1>4, <1>6, <1>15, <2>1 DEF At, InodeOf
  <2>4. Position(At, offset, doneInodes)'
    BY <1>1, <1>6, <1>15, <2>1, <2>2, <2>3 DEF Places, Position
  <2>5. /\ currentFile' # NoName => link'[currentFile'] # NoInode
        /\ fd' # NoInode => link'[currentFile'] = fd'
    BY <1>1, <1>6, <1>15, <2>1 DEF Places
  <2>6. CASE disk' = disk
    BY <1>1, <1>7, <1>15, <2>1, <2>2, <2>3, <2>4, <2>5, <2>6 DEF Places
  <2>7. CASE disk' = [file |-> currentFile, offset |-> offset, done |-> doneInodes']
    <3>1. disk'.file = currentFile /\ disk'.offset = offset /\ disk'.done = doneInodes
      BY <2>2, <2>7
    <3>2. Saved' = At
      BY <1>4, <1>6, <1>15, <3>1 DEF Saved, InodeOf
    <3>3. Position(Saved, disk.offset, disk.done)'
      BY <2>1, <2>2, <2>3, <2>4, <3>1, <3>2 DEF Position
    <3>4. At # NoInode => \A k \in 1..offset : content'[At][k] \in taken'
      BY <1>1, <1>6, <1>15, <2>1 DEF Reader
    <3>5. \A j \in doneInodes : LinesOf(j)' \subseteq taken' \cup late'
      <4>1. At \notin doneInodes /\ doneInodes \subseteq Linked
        BY <1>1, <2>1, SavedBehind DEF Places, Position
      <4>2. \A j \in doneInodes : LinesOf(j) \subseteq Excused
        BY <1>1, <4>1 DEF Reader
      <4> QED
        BY <1>6, <1>15, <2>1, <4>1, <4>2 DEF Excused
    <3>6. currentFile # NoName => Saved' # NoInode
      BY <1>1, <1>4, <3>2 DEF Places, InodeOf
    <3> QED
      BY <1>3, <2>1, <2>2, <2>3, <2>4, <2>5, <3>1, <3>2, <3>3, <3>4, <3>5, <3>6 DEF Places
  <2> QED
    BY <2>1, <2>6, <2>7
<1>16. CASE ~Application /\ Crash
  <2>1. /\ doneInodes' = {} /\ offset' = 0 /\ fd' = NoInode /\ currentFile' = NoName /\ pc' = "down"
        /\ disk' = disk /\ late' = late
    BY <1>16 DEF Crash
  <2>2. At' = NoInode
    BY <2>1 DEF At, InodeOf
  <2>3. Position(At, offset, doneInodes)'
    BY <2>1, <2>2 DEF Position
  <2> QED
    BY <1>7, <1>16, <2>1, <2>3 DEF Places
<1>17. CASE ~Application /\ NewDirInput
  <2>1. /\ currentFile' = disk.file /\ offset' = disk.offset /\ doneInodes' = disk.done
        /\ fd' = fd /\ disk' = disk /\ late' = late /\ pc = "down"
    BY <1>17 DEF NewDirInput
  <2>2. fd' = NoInode
    BY <1>1, <2>1 DEF Whereabouts
  <2>3. At' = Saved
    BY <1>6, <1>17, <2>1, <2>2 DEF At, InodeOf, Saved
  <2>4. Saved' = Saved /\ Position(Saved, disk.offset, disk.done)'
    BY <1>7, <1>17, <2>1
  <2>5. Position(At, offset, doneInodes)'
    BY <2>1, <2>3, <2>4 DEF Position
  <2>6. currentFile' # NoName => link'[currentFile'] # NoInode
    BY <1>1, <1>6, <1>17, <2>1 DEF Places, Saved, InodeOf
  <2> QED
    BY <1>3, <1>7, <1>17, <2>1, <2>2, <2>3, <2>4, <2>5, <2>6 DEF Places
<1> QED
  BY <1>5, <1>9, <1>11, <1>12, <1>13, <1>14, <1>15, <1>16, <1>17 DEF Next, Input

-----------------------------------------------------------------------------

\* What is known of the files, the reader and the state on disk stays true (every action of
\* the Input, the application and the Runner).
THEOREM ReadingInvariant == Spec => []RInv
<1> USE NoneAssumption
<1>1. Init => IInv
  BY EmptySeq, DirAssumption DEF Init, IInv, TypeOK, Lengths, HasFile, IsDown, State
<1>2. Init => RInv
  <2> SUFFICES ASSUME Init  PROVE RInv
    OBVIOUS
  <2>1. Linked = {} /\ 1..appended = {} /\ 1..Len(buffer) = {}
    BY EmptySeq DEF Init, Linked
  <2>2. At = NoInode /\ Saved = NoInode
    BY DEF Init, At, Saved, InodeOf
  <2>3. Files /\ Lines /\ Sorted
    BY <2>1 DEF Init, Files, Lines, Sorted
  <2>4. Reader /\ Buffered /\ Whereabouts
    BY <2>1, <2>2 DEF Init, Reader, Buffered, Whereabouts
  <2>5. Renamed /\ Places
    BY <2>1, <2>2 DEF Init, Renamed, Places, Position
  <2> QED
    BY <1>1, <2>3, <2>4, <2>5 DEF RInv
<1>3. RInv /\ [Next]_vars /\ IInv' => RInv'
  <2> SUFFICES ASSUME RInv, [Next]_vars, IInv'  PROVE RInv'
    OBVIOUS
  <2>1. TypeOK
    BY DEF RInv, IInv
  <2>2. (Orderly => Files /\ Lines)'
    BY <2>1, FilesKept DEF RInv
  <2>3. (Watched => Reader /\ Buffered /\ Whereabouts)'
    BY ApplicationAhead, InputAhead
  <2>4. (Polite /\ FirstLife => Renamed)'
    BY RenamedKept DEF Polite
  <2>5. (Untouched => Sorted /\ Places)'
    BY <2>1, SortedKept, PlacesKept DEF RInv
  <2> QED
    BY <2>2, <2>3, <2>4, <2>5 DEF RInv
<1> QED
  BY <1>2, <1>3, Invariant, PTL DEF Spec

\* A line behind a place, or in a file that was not passed, is still ahead.
LEMMA AheadOfPlace ==
    ASSUME TypeOK, NEW i, NEW at \in Nat, NEW done, NEW j \in Linked, NEW k \in 1..Len(content[j]),
           j = i => k > at, j # i => j \notin done
    PROVE  content[j][k] \in StillAhead(i, at, done)
<1>1. j \in Inode /\ Len(content[j]) \in Nat /\ content[j] \in Seq(Record)
  BY LinkedTyped, LinesByPlace DEF TypeOK
<1>2. CASE j = i
  <2> DEFINE f == content[j]
             g == SubSeq(f, at + 1, Len(f))
  <2>1. \A m \in at + 1..Len(f) : f[m] \in Record
    BY <1>1
  <2>2. at + 1 <= Len(f) /\ Len(f) \in Nat /\ f \in Seq(Record)
    BY <1>1, <1>2
  <2> HIDE DEF f
  <2>3. /\ g \in Seq(Record)
        /\ Len(g) = Len(f) - at
        /\ \A m \in 1..Len(f) - at : g[m] = f[at + m]
    BY <2>1, <2>2, SubSeqProperties
  <2>4. k - at \in 1..Len(g) /\ at + (k - at) = k
    BY <1>2, <2>2, <2>3 DEF f
  <2>5. f[k] = g[k - at] /\ k - at \in DOMAIN g
    BY <2>3, <2>4
  <2>6. f[k] \in Range(g)
    BY <2>5 DEF Range
  <2> QED
    BY <1>2, <2>6 DEF StillAhead, f
<1>3. CASE j # i
  <2>1. content[j][k] \in LinesOf(j)
    BY <1>1, LinesByPlace
  <2> QED
    BY <1>3, <2>1 DEF StillAhead
<1> QED
  BY <1>2, <1>3

\* Nothing is left behind the reader.
LEMMA NoneBehind ==
    ASSUME RInv, Watched
    PROVE  AllAhead
<1>1. TypeOK /\ Reader /\ Lines /\ offset \in Nat
  BY DirAssumption DEF RInv, IInv, TypeOK, Watched, Orderly
<1>2. ASSUME NEW r \in 1..appended
      PROVE  r \in Excused \cup StillAhead(At, offset, doneInodes)
  <2>1. CASE r \in taken
    BY <2>1 DEF Excused
  <2>2. CASE \E j \in Linked : r \in LinesOf(j)
    <3>1. PICK j \in Linked : r \in LinesOf(j)
      BY <2>2
    <3>2. PICK k \in 1..Len(content[j]) : r = content[j][k]
      BY <1>1, <3>1, LinkedTyped, LinesByPlace
    <3>3. Len(content[j]) \in Nat /\ j # NoInode
      BY <1>1, LinkedTyped, LinesByPlace
    <3>4. CASE j = At
      <4>1. k \in 1..offset => r \in Excused
        BY <1>1, <3>2, <3>3, <3>4 DEF Reader, Excused
      <4>2. k \notin 1..offset => r \in StillAhead(At, offset, doneInodes)
        BY <1>1, <3>2, <3>3, <3>4, AheadOfPlace
      <4> QED
        BY <4>1, <4>2
    <3>5. CASE j # At /\ j \in doneInodes
      BY <1>1, <3>1, <3>5 DEF Reader
    <3>6. CASE j # At /\ j \notin doneInodes
      BY <1>1, <3>2, <3>6, AheadOfPlace
    <3> QED
      BY <3>4, <3>5, <3>6
  <2> QED
    BY <1>1, <2>1, <2>2 DEF Lines
<1> QED
  BY <1>2 DEF AllAhead, At

\* As long as no file is renamed, cut or removed, every record is read or lies ahead of the
\* reader, across all restarts (the marks in doneInodes, dir.go:106, 149, 257).
THEOREM UntouchedIsRead == Spec => [](Untouched => AllAhead)
<1>1. RInv => (Untouched => AllAhead)
  BY NoneBehind DEF Watched
<1> QED
  BY <1>1, ReadingInvariant, PTL

\* A polite application may also rename, any number of times, while the agent is up for the
\* first time (DetectRotation and AdvanceFile against Rename and OpenNext).
THEOREM NoneSkipped ==
    ASSUME Polite
    PROVE  Spec => []NothingSkipped
<1>1. RInv => NothingSkipped
  <2> SUFFICES ASSUME RInv, Untouched \/ restarts = 0, pc \notin {"closed", "down"}
               PROVE  AllAhead
    BY DEF NothingSkipped, AllAhead
  <2>1. Watched
    BY DEF Watched, FirstLife
  <2> QED
    BY <2>1, NoneBehind
<1> QED
  BY <1>1, ReadingInvariant, PTL

\* Whatever the state on disk has passed is taken or late (commitState and loadState).
THEOREM StateCovers == Spec => []StateCoversOnlyTaken
<1>1. RInv => StateCoversOnlyTaken
  <2> SUFFICES ASSUME RInv, Untouched, NEW r \in 1..appended
               PROVE  r \in taken \cup late \cup StillAhead(Saved, disk.offset, disk.done)
    BY DEF StateCoversOnlyTaken, Saved
  <2>1. TypeOK /\ Lines /\ Places /\ disk.offset \in Nat
    BY DirAssumption DEF RInv, IInv, TypeOK, State, Orderly
  <2>2. CASE r \in taken
    BY <2>2
  <2>3. CASE \E j \in Linked : r \in LinesOf(j)
    <3>1. PICK j \in Linked : r \in LinesOf(j)
      BY <2>3
    <3>2. PICK k \in 1..Len(content[j]) : r = content[j][k]
      BY <2>1, <3>1, LinkedTyped, LinesByPlace
    <3>3. Len(content[j]) \in Nat /\ j # NoInode
      BY <2>1, LinkedTyped, LinesByPlace
    <3>4. CASE j = Saved
      <4>1. k \in 1..disk.offset => r \in taken
        BY <2>1, <3>2, <3>3, <3>4 DEF Places
      <4>2. k \notin 1..disk.offset => r \in StillAhead(Saved, disk.offset, disk.done)
        BY <2>1, <3>2, <3>3, <3>4, AheadOfPlace
      <4> QED
        BY <4>1, <4>2
    <3>5. CASE j # Saved /\ j \in disk.done
      BY <2>1, <3>1, <3>5 DEF Places
    <3>6. CASE j # Saved /\ j \notin disk.done
      BY <2>1, <3>2, <3>6, AheadOfPlace
    <3> QED
      BY <3>4, <3>5, <3>6
  <2> QED
    BY <2>1, <2>2, <2>3 DEF Lines
<1> QED
  BY <1>1, ReadingInvariant, PTL

\* What joins the batch is the line at the offset of the open file.
LEMMA ReadsAtOffset ==
    ASSUME RInv, Watched, [Next]_vars, NEW r \in hand' \ hand
    PROVE  /\ pc = "read" /\ At = fd /\ fd \in Linked
           /\ offset + 1 \in 1..Len(content[fd]) /\ r = content[fd][offset + 1]
<1>1. TypeOK /\ HasFile /\ Reader /\ Buffered /\ offset \in Nat
  BY DirAssumption DEF RInv, IInv, TypeOK
<1>2. ReadLine
  BY DEF Next, vars, caller, Application, Input, Write, OpenNext, Rename, Truncate, Unlink, ReadBatch, Return,
         OpenFile, DetectRotation, ReadEOF, AdvanceFile, Commit, Close, Crash, NewDirInput
<1>3. pc = "read" /\ fd # NoInode /\ Available # <<>> /\ r = Head(Available)
  BY <1>1, <1>2 DEF ReadLine, HasFile
<1>4. At = fd /\ fd \in Linked /\ fd \in Inode /\ offset <= Len(content[fd]) /\ Len(content[fd]) \in Nat
  BY <1>1, <1>3, AtTyped, LinesByPlace DEF Reader
<1>5. /\ Available \in Seq(Record)
      /\ \A k \in 1..Len(Available) :
             offset + k <= Len(content[fd]) /\ Available[k] = content[fd][offset + k]
  BY <1>1, <1>4, AvailableIsNext
<1>6. Len(Available) \in Nat \ {0} /\ Head(Available) = Available[1]
  BY <1>3, <1>5, EmptySeq, HeadTailProperties
<1> QED
  BY <1>1, <1>3, <1>4, <1>5, <1>6

\* Records are read in the order they were written (listFiles, dir.go:354, and readLine).
THEOREM InOrder == Spec => ReadsInOrder
<1>1. RInv /\ [Next]_vars => [Untouched => \A r \in hand' \ hand : 1..(r - 1) \subseteq Excused]_vars
  <2> SUFFICES ASSUME RInv, [Next]_vars, Untouched, NEW r \in hand' \ hand, NEW q \in 1..(r - 1)
               PROVE  q \in Excused
    OBVIOUS
  <2>1. /\ TypeOK /\ Files /\ Lines /\ Sorted /\ Places /\ Reader /\ Watched
        /\ offset \in Nat /\ appended \in Nat
    BY DirAssumption DEF RInv, IInv, TypeOK, Orderly, Watched
  <2>2. /\ At = fd /\ fd \in Linked
        /\ offset + 1 \in 1..Len(content[fd]) /\ r = content[fd][offset + 1]
    BY <2>1, ReadsAtOffset
  <2>3. r \in LinesOf(fd) /\ r \in Nat /\ r <= appended
    BY <2>1, <2>2, LinkedTyped, LinesByPlace DEF Lines
  <2>4. q \in 1..appended /\ q < r
    BY <2>1, <2>3
  <2>5. CASE q \in taken
    BY <2>5 DEF Excused
  <2>6. CASE \E j \in Linked : q \in LinesOf(j)
    <3>1. PICK j \in Linked : q \in LinesOf(j)
      BY <2>6
    <3>2. CASE j = fd
      <4>1. PICK k \in 1..Len(content[fd]) : q = content[fd][k]
        BY <2>1, <2>2, <3>1, <3>2, LinkedTyped, LinesByPlace
      <4>2. Len(content[fd]) \in Nat
        BY <2>1, <2>2, LinkedTyped, LinesByPlace
      <4>3. k <= offset
        <5>1. SUFFICES ASSUME k > offset  PROVE FALSE
          BY <2>1, <4>2
        <5>2. k = offset + 1 \/ offset + 1 < k
          BY <2>1, <4>2, <5>1
        <5>3. k = offset + 1 => q = r
          BY <2>2, <4>1
        <5>4. offset + 1 < k => r < q
          BY <2>1, <2>2, <4>1 DEF Sorted
        <5> QED
          BY <2>3, <2>4, <5>2, <5>3, <5>4
      <4>4. k \in 1..offset
        BY <2>1, <4>2, <4>3
      <4> QED
        BY <2>1, <2>2, <4>1, <4>4, LinkedTyped DEF Reader, Excused
    <3>3. CASE j # fd
      <4>1. ~(<<fd, j>> \in older)
        <5>1. <<fd, j>> \in older => r < q
          BY <2>1, <2>2, <2>3, <3>1 DEF Sorted
        <5> QED
          BY <2>3, <2>4, <5>1
      <4>2. <<j, fd>> \in older
        BY <2>1, <2>2, <3>3, <4>1 DEF Sorted
      <4>3. j \in doneInodes
        BY <2>1, <2>2, <4>2, LinkedTyped DEF Places, Position
      <4> QED
        BY <2>1, <2>2, <3>1, <3>3, <4>3 DEF Reader
    <3> QED
      BY <3>2, <3>3
  <2> QED
    BY <2>1, <2>4, <2>5, <2>6 DEF Lines
<1> QED
  BY <1>1, ReadingInvariant, PTL DEF Spec, ReadsInOrder

\* What the state on disk has passed is not read again (openFile's seek and the doneInodes
\* that were loaded).
THEOREM NoReread == Spec => NoRereadBehindState
<1>1. RInv /\ [Next]_vars =>
        [Untouched =>
            hand' \ hand \subseteq StillAhead(InodeOf(disk.file), disk.offset, disk.done)]_vars
  <2> SUFFICES ASSUME RInv, [Next]_vars, Untouched, NEW r \in hand' \ hand
               PROVE  r \in StillAhead(Saved, disk.offset, disk.done)
    BY DEF Saved
  <2>1. TypeOK /\ Places /\ Watched /\ offset \in Nat /\ disk.offset \in Nat
    BY DirAssumption DEF RInv, IInv, TypeOK, State, Watched
  <2>2. /\ pc = "read" /\ At = fd /\ fd \in Linked
        /\ offset + 1 \in 1..Len(content[fd]) /\ r = content[fd][offset + 1]
    BY <2>1, ReadsAtOffset
  <2>3. fd \notin doneInodes /\ fd \notin disk.done
    BY <2>1, <2>2, SavedBehind
  <2>4. fd = Saved => disk.offset <= offset
    BY <2>1, <2>2, <2>3, LinkedTyped DEF Places
  <2> QED
    BY <2>1, <2>2, <2>3, <2>4, AheadOfPlace
<1> QED
  BY <1>1, ReadingInvariant, PTL DEF Spec, NoRereadBehindState

=============================================================================
