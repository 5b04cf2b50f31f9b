--------------------------- MODULE DirInputProofs ---------------------------
(***************************************************************************)
(* Proofs about DirInput, for every set of names and inodes, all habits of *)
(* the application and all bounds.                                         *)
(***************************************************************************)
EXTENDS DirInput, SequenceTheorems, TLAPS

\* No file, and no position of the reader, is beyond what was written.
Lengths ==
    /\ \A i \in Inode : Len(content[i]) <= appended
    /\ offset + Len(buffer) <= appended
    /\ disk.offset <= appended

\* readLine reads from a file.
HasFile == pc \in {"check", "read"} => fd # NoInode

\* A reader that is down has nothing in its buffer and a life left.
IsDown == pc = "down" => buffer = <<>> /\ restarts < MaxRestarts

IInv == TypeOK /\ Lengths /\ HasFile /\ IsDown

-----------------------------------------------------------------------------

\* An inode that is linked has a name.
LEMMA LinkedHasName ==
    ASSUME NEW i \in Linked
    PROVE  NameOf(i) \in Name /\ link[NameOf(i)] = i
BY DEF Linked, NameOf

\* The lines of a file are records.
LEMMA LinesAreRecords ==
    ASSUME TypeOK, NEW i \in Inode
    PROVE  LinesOf(i) \subseteq Record
BY DEF TypeOK, LinesOf, Range

\* The orders of modification times are orders of inodes.
LEMMA OrdersTyped ==
    ASSUME TypeOK, NEW i
    PROVE  /\ Without(i) \subseteq Inode \X Inode
           /\ i \in Inode => Touched(i) \subseteq Inode \X Inode
BY DEF TypeOK, Without, Touched, Linked

\* What the reader has available are records, and they fit behind its offset.
LEMMA AvailableTyped ==
    ASSUME TypeOK, Lengths, fd \in Inode, Available # <<>>
    PROVE  /\ Available \in Seq(Record)
           /\ Len(Available) > 0
           /\ offset + Len(Available) <= appended
<1> USE DEF TypeOK
<1>1. CASE buffer # <<>>
  BY <1>1 DEF Available, Lengths
<1>2. CASE buffer = <<>>
  <2> DEFINE s == content[fd]
  <2>1. s \in Seq(Record) /\ Len(s) <= appended /\ Len(s) \in Nat
    BY DEF Lengths
  <2>2. Available = SubSeq(s, offset + 1, Len(s))
    BY <1>2 DEF Available
  <2>3. \A k \in offset + 1 .. Len(s) : s[k] \in Record
    BY <2>1
  <2> HIDE DEF s
  <2>4. offset + 1 \in Int /\ Len(s) \in Int /\ offset \in Nat
    BY <2>1
  <2>5. /\ Available \in Seq(Record)
        /\ Len(Available) = IF offset + 1 <= Len(s) THEN Len(s) - offset ELSE 0
    BY <2>1, <2>2, <2>3, <2>4, SubSeqProperties
  <2>6. Len(Available) # 0
    BY <2>5, EmptySeq
  <2> QED
    BY <2>1, <2>4, <2>5, <2>6
<1> QED
  BY <1>1, <1>2

\* An opened file is an inode under its name, with nothing in the buffer.
LEMMA OpenedTyped ==
    ASSUME NEW i \in Linked, NEW at, Opened(i, at)
    PROVE  /\ currentFile' \in Name
           /\ fd' = i /\ fd' \in Inode
           /\ offset' = at
           /\ buffer' = <<>>
BY LinkedHasName DEF Opened, Linked

-----------------------------------------------------------------------------

\* Every position stays within what was written (every action of the Input, the
\* application and the Runner).
THEOREM Invariant == Spec => []IInv
<1> USE DirAssumption DEF IInv
<1>1. Init => IInv
  BY EmptySeq, NoneAssumption DEF Init, TypeOK, Lengths, HasFile, IsDown, State
<1>2. IInv /\ [Next]_vars => IInv'
  <2> SUFFICES ASSUME IInv, [Next]_vars
               PROVE  IInv'
    OBVIOUS
  <2> USE NoneAssumption DEF TypeOK
  <2>1. CASE Write
    <3> USE <2>1 DEF Write
    <3>1. appended + 1 \in Record /\ appFd \in Inode
      BY DEF Record
    <3>2. /\ Append(content[appFd], appended + 1) \in Seq(Record)
          /\ Len(Append(content[appFd], appended + 1)) = Len(content[appFd]) + 1
      BY <3>1
    <3>3. content' \in [Inode -> Seq(Record)]
      BY <3>1, <3>2
    <3>4. older' \subseteq Inode \X Inode
      BY <3>1, OrdersTyped
    <3>5. TypeOK'
      BY <3>1, <3>3, <3>4 DEF reader, caller
    <3>6. \A i \in Inode : Len(content'[i]) <= appended'
      BY <3>1, <3>2 DEF Lengths
    <3>7. offset' + Len(buffer') <= appended' /\ disk'.offset <= appended'
      BY DEF Lengths, State, reader
    <3>8. HasFile' /\ IsDown'
      BY DEF HasFile, IsDown, reader
    <3> QED
      BY <3>5, <3>6, <3>7, <3>8 DEF Lengths
  <2>2. CASE OpenNext
    <3>1. PICK n \in Name : CreateFile(n)
      BY <2>2 DEF OpenNext
    <3>2. PICK i \in Inode :
             /\ link' = [link EXCEPT ![n] = i]
             /\ content' = [content EXCEPT ![i] = <<>>]
             /\ older' = Touched(i)
             /\ used' = used \cup {i}
             /\ appFd' = i
      BY <3>1 DEF CreateFile
    <3>3. content' \in [Inode -> Seq(Record)] /\ older' \subseteq Inode \X Inode
      BY <3>2, OrdersTyped, EmptySeq
    <3>4. TypeOK'
      BY <2>2, <3>2, <3>3 DEF OpenNext, reader, caller
    <3>5. Lengths' /\ HasFile' /\ IsDown'
      BY <2>2, <3>2, EmptySeq DEF OpenNext, Lengths, HasFile, IsDown, reader
    <3> QED
      BY <3>4, <3>5
  <2>3. CASE Rename
    <3>1. PICK n \in Name :
             /\ link' = [link EXCEPT ![n] = link[Active], ![Active] = NoInode]
             /\ older' = Without(link[n])
      BY <2>3 DEF Rename
    <3>2. older' \subseteq Inode \X Inode /\ link' \in [Name -> Inode \cup {NoInode}]
      BY <3>1, OrdersTyped
    <3>3. handled' \in 0..MaxHandled
      BY <2>3 DEF Rename, MayHandle
    <3> QED
      BY <2>3, <3>2, <3>3 DEF Rename, Lengths, HasFile, IsDown, reader, caller
  <2>4. CASE Truncate
    <3>1. appFd \in Inode
      BY <2>4 DEF Truncate, Linked
    <3>2. content' \in [Inode -> Seq(Record)] /\ older' \subseteq Inode \X Inode
      BY <2>4, <3>1, OrdersTyped, EmptySeq DEF Truncate
    <3>3. handled' \in 0..MaxHandled
      BY <2>4 DEF Truncate, MayHandle
    <3>4. TypeOK'
      BY <2>4, <3>2, <3>3 DEF Truncate, reader, caller
    <3>5. Lengths' /\ HasFile' /\ IsDown'
      BY <2>4, <3>1, EmptySeq DEF Truncate, Lengths, HasFile, IsDown, reader
    <3> QED
      BY <3>4, <3>5
  <2>5. CASE Unlink
    <3>1. PICK n \in Name :
             /\ link' = [link EXCEPT ![n] = NoInode]
             /\ older' = Without(link[n])
      BY <2>5 DEF Unlink
    <3>2. older' \subseteq Inode \X Inode /\ link' \in [Name -> Inode \cup {NoInode}]
      BY <3>1, OrdersTyped
    <3>3. handled' \in 0..MaxHandled
      BY <2>5 DEF Unlink, MayHandle
    <3> QED
      BY <2>5, <3>2, <3>3 DEF Unlink, Lengths, HasFile, IsDown, app, reader, caller
  <2>6. CASE ReadBatch \/ Return \/ ReadEOF
    BY <2>6 DEF ReadBatch, Return, ReadEOF, Lengths, HasFile, IsDown, files, app, reader, caller
  <2>7. CASE OpenFile
    <3> USE <2>7 DEF OpenFile
    <3>1. CASE currentFile # NoName /\ link[currentFile] # NoInode /\ Opened(link[currentFile], offset) /\ pc' = "check"
      <4>1. link[currentFile] \in Linked
        BY <3>1 DEF Linked
      <4>2. currentFile' \in Name /\ fd' \in Inode /\ offset' = offset /\ buffer' = <<>>
        BY <3>1, <4>1, OpenedTyped
      <4> QED
        BY <3>1, <4>2, EmptySeq DEF Lengths, HasFile, IsDown, files, app, caller
    <3>2. CASE (\E i \in Oldest(Linked) : Opened(i, 0)) /\ pc' = "check"
      <4>1. PICK i \in Linked : Opened(i, 0)
        BY <3>2 DEF Oldest
      <4>2. currentFile' \in Name /\ fd' \in Inode /\ offset' = 0 /\ buffer' = <<>>
        BY <4>1, OpenedTyped
      <4> QED
        BY <3>2, <4>2, EmptySeq DEF Lengths, HasFile, IsDown, files, app, caller
    <3>3. CASE currentFile' = NoName /\ pc' = "advance" /\ UNCHANGED <<fd, offset, buffer>>
      BY <3>3 DEF Lengths, HasFile, IsDown, files, app, caller
    <3> QED
      BY <3>1, <3>2, <3>3
  <2>8. CASE DetectRotation
    <3>1. CASE Rotated
      <4>1. fd \in Inode
        BY <2>8 DEF DetectRotation, HasFile
      <4> QED
        BY <2>8, <3>1, <4>1, EmptySeq DEF DetectRotation, Lengths, HasFile, IsDown, files, app, caller
    <3>2. CASE ~Rotated
      BY <2>8, <3>2 DEF DetectRotation, Lengths, HasFile, IsDown, files, app, reader, caller
    <3> QED
      BY <3>1, <3>2
  <2>9. CASE ReadLine
    <3> USE <2>9 DEF ReadLine
    <3>1. fd \in Inode
      BY DEF HasFile
    <3>2. /\ Available \in Seq(Record)
          /\ Len(Available) > 0
          /\ offset + Len(Available) <= appended
      BY <3>1, AvailableTyped
    <3>3. /\ Head(Available) \in Record
          /\ buffer' \in Seq(Record)
          /\ Len(buffer') = Len(Available) - 1
      BY <3>2, HeadTailProperties
    <3>4. Len(Available) \in Nat /\ offset \in Nat /\ appended \in Nat
      BY <3>2
    <3>5. offset' \in 0..MaxRecords /\ offset' + Len(buffer') <= appended'
      BY <3>2, <3>3, <3>4 DEF app
    <3> HIDE DEF TypeOK
    <3>6. TypeOK'
      BY <3>3, <3>5 DEF TypeOK, files, app
    <3>7. Lengths' /\ HasFile' /\ IsDown'
      BY <3>5 DEF Lengths, HasFile, IsDown, files, app
    <3> QED
      BY <3>6, <3>7
  <2>10. CASE AdvanceFile
    <3>1. CASE Candidates = {}
      BY <2>10, <3>1 DEF AdvanceFile, Lengths, HasFile, IsDown, files, app, reader, caller
    <3>2. CASE Candidates # {}
      <4>1. PICK i \in Linked : Opened(i, 0)
        BY <2>10, <3>2 DEF AdvanceFile, Oldest, Candidates
      <4>2. currentFile' \in Name /\ fd' \in Inode /\ offset' = 0 /\ buffer' = <<>>
        BY <4>1, OpenedTyped
      <4>3. doneInodes' \subseteq Inode /\ pc' = "line" /\ UNCHANGED <<files, app, disk, restarts, caller, late>>
        BY <2>10, <3>2 DEF AdvanceFile
      <4> QED
        BY <4>2, <4>3, EmptySeq DEF Lengths, HasFile, IsDown, files, app, caller
    <3> QED
      BY <3>1, <3>2
  <2>11. CASE Commit \/ Close
    <3>1. CommitState
      BY <2>11 DEF Commit, Close
    <3>2. doneInodes' \subseteq Inode
      BY <3>1 DEF CommitState
    <3>3. disk' \in State /\ disk'.offset <= appended
      BY <3>1, <3>2 DEF CommitState, State, Lengths
    <3>4. CASE Commit
      BY <3>2, <3>3, <3>4 DEF Commit, Lengths, HasFile, IsDown, files, app
    <3>5. CASE Close
      BY <3>2, <3>3, <3>5, EmptySeq DEF Close, Lengths, HasFile, IsDown, files, app
    <3> QED
      BY <2>11, <3>4, <3>5
  <2>12. CASE Crash
    BY <2>12, EmptySeq DEF Crash, Lengths, HasFile, IsDown, files, app
  <2>13. CASE NewDirInput
    BY <2>13 DEF NewDirInput, Lengths, HasFile, IsDown, State, files, app, caller
  <2>14. CASE UNCHANGED vars
    BY <2>14 DEF vars, Lengths, HasFile, IsDown, files, app, reader, caller
  <2> QED
    BY <2>1, <2>2, <2>3, <2>4, <2>5, <2>6, <2>7, <2>8, <2>9, <2>10, <2>11, <2>12, <2>13, <2>14
       DEF Next, Application, Input
<1> QED
  BY <1>1, <1>2, PTL DEF Spec

\* The state starts, and stays, of its type (every variable of the Input, the file
\* system and the Runner).
THEOREM TypeCorrect == Spec => []TypeOK
<1>1. IInv => TypeOK
  BY DEF IInv
<1> QED
  BY <1>1, Invariant, PTL

=============================================================================
