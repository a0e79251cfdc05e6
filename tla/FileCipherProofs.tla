-------------------------- MODULE FileCipherProofs --------------------------
(***************************************************************************)
(* Proofs about FileCipher for any calls, paths and lengths.  When calls   *)
(* keep apart on each path, what is published is whole and appears in one  *)
(* step; nothing is left under a temporary name even when they do not.     *)
(*                                                                         *)
(* None of this is inductive by itself.  What has to be carried along is   *)
(* who owns each inode: a path's temporary and output names refer to       *)
(* inodes of that path only, never both to one, a call that has not        *)
(* created its file yet has its inode unused, and a call that writes is    *)
(* the only one on its path and writes what the temporary name refers to.  *)
(***************************************************************************)
EXTENDS FileCipher, SequenceTheorems, TLAPS

(* The inodes that names of the path p may refer to.                       *)
InodesOf(p) == {Old(p), Stale(p)} \union {New(c) : c \in {d \in Calls : OutputOf[d] = p}}

Unused(c) == pc[c] \in {"idle", "native"}

WriterInv(c) ==
    /\ fd[c] = tmp[OutputOf[c]]
    /\ fd[c] # NoFile
    /\ data[fd[c]] = [k \in 1..wrote[c] |-> <<c, k>>]
    /\ pc[c] = "ok" => wrote[c] = Blocks[c]

NamesInv ==
    /\ \A p \in Outputs : tmp[p] = NoFile \/ tmp[p] \in InodesOf(p)
    /\ \A p \in Outputs : final[p] = NoFile \/ final[p] \in InodesOf(p)
    /\ \A p \in Outputs : tmp[p] # NoFile => tmp[p] # final[p]
    /\ \A c \in Calls : Unused(c) =>
         /\ tmp[OutputOf[c]] # New(c)
         /\ final[OutputOf[c]] # New(c)
         /\ wrote[c] = 0

ApartInv ==
    \A c, d \in Calls :
        OutputOf[c] = OutputOf[d] /\ pc[c] \in Active /\ pc[d] \in Active => c = d

WritersInv == \A c \in Calls : pc[c] \in {"writing", "ok"} => WriterInv(c)

Inv == NamesInv /\ ApartInv /\ WritersInv /\ PublishedWhole

-----------------------------------------------------------------------------
(* Inodes are told apart by what they are and whose they are.              *)
LEMMA InodesDiffer ==
    /\ \A p \in Outputs : InodesOf(p) \subseteq Inodes
    /\ \A p, q \in Outputs : \A i \in InodesOf(p) : i \in InodesOf(q) => p = q
    /\ \A c, d \in Calls : New(c) = New(d) => c = d
    /\ \A c \in Calls : New(c) \in InodesOf(OutputOf[c])
  BY CallsWrite, SMTT(30) DEF InodesOf, Inodes, Old, Stale, New

(* Writing block n + 1 after n blocks appends it.                          *)
LEMMA NextBlock ==
    ASSUME NEW c \in Calls, NEW n \in Nat
    PROVE  WriteAt([k \in 1..n |-> <<c, k>>], n + 1, <<c, n + 1>>)
             = [k \in 1..(n + 1) |-> <<c, k>>]
<1> DEFINE file == [k \in 1..n |-> <<c, k>>]
<1>1. file \in Seq(Calls \X Nat)
  BY DEF file
<1>2. Len(file) = n
  <2>1. DOMAIN file = 1..n
    OBVIOUS
  <2>2. DOMAIN file = 1..Len(file) /\ Len(file) \in Nat
    BY <1>1, LenProperties
  <2> QED  BY <2>1, <2>2
<1> HIDE DEF file
<1>3. \A i \in 1..n : file[i] = <<c, i>>
  BY DEF file
<1> QED
  BY <1>2, <1>3 DEF WriteAt, file

-----------------------------------------------------------------------------
LEMMA TypeInit == Init => TypeOK
  BY CallsWrite DEF Init, TypeOK

LEMMA TypeStep == TypeOK /\ [Next]_vars => TypeOK'
<1> SUFFICES ASSUME TypeOK, [Next]_vars PROVE TypeOK'
  OBVIOUS
<1> USE DEF TypeOK, Goto, Active, Returned
<1>1. CASE UNCHANGED vars
  BY <1>1 DEF vars
<1>2. ASSUME NEW c \in Calls, Refuse(c) \/ Begin(c) PROVE TypeOK'
  BY <1>2 DEF Refuse, Begin
<1>3. ASSUME NEW c \in Calls, Create(c) PROVE TypeOK'
  <2>1. OutputOf[c] \in Outputs /\ New(c) \in Inodes
    BY CallsWrite DEF Inodes
  <2> QED  BY <1>3, <2>1 DEF Create, Truncated
<1>4. ASSUME NEW c \in Calls, Write(c) PROVE TypeOK'
  <2>1. Blocks[c] \in Nat
    BY CallsWrite
  <2> QED  BY <1>4, <2>1 DEF Write, MoreToWrite
<1>5. ASSUME NEW c \in Calls, NativeOk(c) \/ Exists(c) \/ Fault(c) PROVE TypeOK'
  BY <1>5 DEF NativeOk, Exists, Fault, NativeFails, OnErrorCode, RenameFails, DeleteFails, Crash
<1>6. ASSUME NEW c \in Calls, Rename(c) \/ Delete(c) PROVE TypeOK'
  <2>1. OutputOf[c] \in Outputs
    BY CallsWrite
  <2> QED  BY <1>6, <2>1 DEF Rename, Delete, Deleted
<1> QED
  BY <1>1, <1>2, <1>3, <1>4, <1>5, <1>6 DEF Next, Progress

-----------------------------------------------------------------------------
LEMMA InvInit == Init => Inv
<1> SUFFICES ASSUME Init PROVE Inv
  OBVIOUS
<1>1. \A p \in Outputs : Old(p) \in Inodes
  BY DEF Inodes
<1>2. \A p \in Outputs : data[Old(p)] = OldContents(p)
  BY <1>1 DEF Init, Old
<1>3. PublishedWhole
  BY <1>2 DEF PublishedWhole, Contents, Init
<1>4. \A p \in Outputs : Old(p) # Stale(p)
  BY DEF Old, Stale
<1>5. \A c \in Calls : \A p \in Outputs : New(c) # Old(p) /\ New(c) # Stale(p) /\ New(c) # NoFile
  BY DEF Old, Stale, New, NoFile
<1>6. NamesInv
  BY <1>4, <1>5, CallsWrite DEF NamesInv, Init, InodesOf, Unused
<1>7. ApartInv /\ WritersInv
  BY DEF ApartInv, WritersInv, Init, Active
<1> QED  BY <1>3, <1>6, <1>7 DEF Inv

(* A step of c that leaves the file system alone and does not make c a     *)
(* writer, an owner of a new inode, or (unless it is alone) active.        *)
LEMMA QuietStep ==
    ASSUME TypeOK, Inv, NEW c \in Calls, NEW place,
           Goto(c, place), UNCHANGED <<tmp, final, data, fd, wrote>>,
           pc[c] # "done",
           place \in {"writing", "ok"} => pc[c] = "writing" /\ wrote[c] = Blocks[c],
           place \in {"idle", "native"} => Unused(c),
           \/ place \notin Active
           \/ pc[c] \in Active
           \/ \A d \in Calls : OutputOf[d] = OutputOf[c] => pc[d] \notin Active
    PROVE  Inv'
<1>1. /\ pc' = [pc EXCEPT ![c] = place]
      /\ pc \in [Calls -> {"idle", "crashed"} \union Active \union Returned]
  BY DEF Goto, TypeOK
<1>2. NamesInv'
  BY <1>1 DEF Inv, NamesInv, Unused
<1>3. ApartInv'
  BY <1>1 DEF Inv, ApartInv
<1>4. WritersInv'
  BY <1>1 DEF Inv, WritersInv, WriterInv
<1>5. PublishedWhole'
  <2>1. \A p : Contents(p)' = Contents(p)
    BY DEF Contents
  <2> QED  BY <1>1, <2>1, Zenon DEF Inv, PublishedWhole
<1> QED  BY <1>2, <1>3, <1>4, <1>5 DEF Inv

(* What is published stays whole while no path's contents change.          *)
LEMMA StillWhole ==
    ASSUME PublishedWhole,
           \A p \in Outputs : Contents(p)' = Contents(p),
           \A d \in Calls : pc[d] = "done" => pc'[d] = "done"
    PROVE  PublishedWhole'
<1> SUFFICES ASSUME NEW p \in Outputs
             PROVE  \/ Contents(p)' \in {<< >>, << OldContents(p) >>}
                    \/ \E d \in Calls : /\ OutputOf[d] = p
                                        /\ pc'[d] = "done"
                                        /\ Contents(p)' = << Whole(d) >>
  BY Zenon DEF PublishedWhole, Contents, OldContents, Whole
<1>1. Contents(p)' = Contents(p)
  OBVIOUS
<1>2. CASE Contents(p) \in {<< >>, << OldContents(p) >>}
  BY <1>1, <1>2
<1>3. CASE \E d \in Calls : OutputOf[d] = p /\ pc[d] = "done" /\ Contents(p) = << Whole(d) >>
  <2>1. PICK d \in Calls : OutputOf[d] = p /\ pc[d] = "done" /\ Contents(p) = << Whole(d) >>
    BY <1>3
  <2> QED  BY <1>1, <2>1
<1> QED  BY <1>2, <1>3 DEF PublishedWhole

(* A step that writes only to an inode no output name refers to, of a call *)
(* that is not done, publishes nothing and spoils nothing published.       *)
LEMMA OutputsUntouched ==
    ASSUME TypeOK, PublishedWhole, NEW c \in Calls, pc[c] # "done",
           \A d \in Calls \ {c} : pc'[d] = pc[d],
           final' = final, NEW inode \in Inodes,
           \A i \in Inodes \ {inode} : data'[i] = data[i],
           \A p \in Outputs : final[p] # inode
    PROVE  PublishedWhole' /\ \A p \in Outputs : Contents(p)' = Contents(p)
<1>1. \A p \in Outputs : Contents(p)' = Contents(p)
  BY DEF Contents, TypeOK
<1>2. \A d \in Calls : pc[d] = "done" => pc'[d] = "done"
  OBVIOUS
<1> QED  BY <1>1, <1>2, StillWhole

LEMMA CreateStep ==
    ASSUME TypeOK, Inv, NEW c \in Calls, Create(c)
    PROVE  Inv' /\ \A q \in Outputs : Contents(q)' = Contents(q)
<1> DEFINE p == OutputOf[c]
           inode == IF tmp[p] = NoFile THEN New(c) ELSE tmp[p]
<1>1. /\ pc[c] = "native"
      /\ tmp' = [tmp EXCEPT ![p] = inode]
      /\ data' = [data EXCEPT ![inode] = << >>]
      /\ fd' = [fd EXCEPT ![c] = inode]
      /\ pc' = [pc EXCEPT ![c] = "writing"]
      /\ final' = final /\ wrote' = wrote
  BY DEF Create, Truncated, Goto
<1>2. p \in Outputs
  BY CallsWrite
<1>3. inode \in InodesOf(p) /\ inode \in Inodes
  BY <1>2, InodesDiffer DEF Inv, NamesInv
<1>4. inode # NoFile /\ final[p] # inode
  BY <1>1, <1>2, <1>3, NamesDiffer DEF Inv, NamesInv, Unused
<1> HIDE DEF inode, p
<1>5. \A q \in Outputs : final[q] # inode
  <2> SUFFICES ASSUME NEW q \in Outputs, q # p PROVE final[q] # inode
    BY <1>4
  <2> QED  BY <1>2, <1>3, <1>4, InodesDiffer DEF Inv, NamesInv
<1>6. PublishedWhole' /\ \A q \in Outputs : Contents(q)' = Contents(q)
  <2>1. \A i \in Inodes \ {inode} : data'[i] = data[i]
    BY <1>1, <1>3 DEF TypeOK
  <2>2. \A d \in Calls \ {c} : pc'[d] = pc[d]
    BY <1>1 DEF TypeOK
  <2> QED  BY <1>1, <1>3, <1>5, <2>1, <2>2, OutputsUntouched DEF Inv
<1>7. NamesInv'
  <2>1. \A d \in Calls : Unused(d)' => d # c /\ Unused(d)
    BY <1>1 DEF Unused, TypeOK
  <2>2. \A d \in Calls : Unused(d)' /\ OutputOf[d] = p => inode # New(d)
    BY <1>1, <2>1, InodesDiffer DEF Inv, NamesInv, inode, p
  <2> QED  BY <1>1, <1>2, <1>3, <1>4, <2>1, <2>2 DEF Inv, NamesInv, TypeOK
<1>8. ApartInv'
  BY <1>1 DEF Inv, ApartInv, TypeOK, Active
<1>9. WritersInv'
  <2> SUFFICES ASSUME NEW d \in Calls, pc'[d] \in {"writing", "ok"} PROVE WriterInv(d)'
    BY DEF WritersInv
  <2>1. CASE d = c
    <3>1. /\ fd'[c] = inode /\ tmp'[p] = inode /\ data'[inode] = << >>
          /\ wrote'[c] = 0 /\ pc'[c] = "writing"
      BY <1>1, <1>2, <1>3 DEF TypeOK, Inv, NamesInv, Unused
    <3>2. [k \in 1..0 |-> <<c, k>>] = << >>
      OBVIOUS
    <3> QED  BY <1>4, <2>1, <3>1, <3>2 DEF WriterInv, p
  <2>2. CASE d # c
    <3>1. pc[d] \in {"writing", "ok"} /\ WriterInv(d) /\ pc'[d] = pc[d]
      BY <1>1, <2>2 DEF TypeOK, Inv, WritersInv
    <3>2. OutputOf[d] # p /\ OutputOf[d] \in Outputs
      BY <1>1, <2>2, <3>1, CallsWrite DEF Inv, ApartInv, Active, p
    <3>3. fd[d] # inode /\ fd[d] \in Inodes
      BY <1>2, <1>3, <3>1, <3>2, InodesDiffer DEF Inv, NamesInv, WriterInv
    <3> QED  BY <1>1, <2>2, <3>1, <3>2, <3>3 DEF WriterInv, TypeOK
  <2> QED  BY <2>1, <2>2
<1> QED  BY <1>6, <1>7, <1>8, <1>9 DEF Inv

LEMMA WriteStep ==
    ASSUME TypeOK, Inv, NEW c \in Calls, Write(c)
    PROVE  Inv' /\ \A q \in Outputs : Contents(q)' = Contents(q)
<1> DEFINE p == OutputOf[c]
<1>1. /\ pc[c] = "writing"
      /\ wrote' = [wrote EXCEPT ![c] = wrote[c] + 1]
      /\ data' = [data EXCEPT ![fd[c]] = WriteAt(data[fd[c]], wrote'[c], <<c, wrote'[c]>>)]
      /\ tmp' = tmp /\ final' = final /\ pc' = pc /\ fd' = fd
  BY DEF Write
<1>2. p \in Outputs /\ WriterInv(c)
  BY <1>1, CallsWrite DEF Inv, WritersInv
<1>3. fd[c] \in InodesOf(p) /\ fd[c] \in Inodes /\ tmp[p] = fd[c]
  BY <1>2, InodesDiffer DEF Inv, NamesInv, WriterInv
<1> HIDE DEF p
<1>4. \A q \in Outputs : final[q] # fd[c]
  <2> SUFFICES ASSUME NEW q \in Outputs, final[q] = fd[c] PROVE q = p
    BY <1>2, <1>3 DEF Inv, NamesInv, WriterInv
  <2>1. final[q] \in InodesOf(q)
    BY <1>2 DEF Inv, NamesInv, WriterInv
  <2> QED  BY <1>2, <1>3, <2>1, InodesDiffer
<1>5. PublishedWhole' /\ \A q \in Outputs : Contents(q)' = Contents(q)
  <2>1. \A i \in Inodes \ {fd[c]} : data'[i] = data[i]
    BY <1>1, <1>3 DEF TypeOK
  <2> QED  BY <1>1, <1>3, <1>4, <2>1, OutputsUntouched DEF Inv
<1>6. \A d \in Calls \ {c} : wrote'[d] = wrote[d]
  BY <1>1 DEF TypeOK
<1>7. NamesInv'
  BY <1>1, <1>6 DEF Inv, NamesInv, Unused
<1>8. ApartInv'
  BY <1>1 DEF Inv, ApartInv
<1>9. WritersInv'
  <2> SUFFICES ASSUME NEW d \in Calls, pc[d] \in {"writing", "ok"} PROVE WriterInv(d)'
    BY <1>1 DEF WritersInv
  <2>0. WriterInv(d)
    BY DEF Inv, WritersInv
  <2>1. CASE d = c
    <3>1. wrote[c] \in Nat /\ wrote'[c] = wrote[c] + 1
      BY <1>1, CallsWrite DEF TypeOK
    <3>2. data'[fd[c]] = [k \in 1..(wrote[c] + 1) |-> <<c, k>>]
      <4>1. data'[fd[c]] = WriteAt([k \in 1..wrote[c] |-> <<c, k>>],
                                   wrote[c] + 1, <<c, wrote[c] + 1>>)
        BY <1>1, <1>2, <1>3, <3>1 DEF TypeOK, WriterInv
      <4> QED  BY <3>1, <4>1, NextBlock
    <3>3. data'[fd[c]] = [k \in 1..wrote'[c] |-> <<c, k>>]
      BY <3>1, <3>2
    <3>4. WriterInv(c)'
      BY <1>1, <1>2, <3>3 DEF WriterInv
    <3> QED  BY <2>1, <3>4
  <2>2. CASE d # c
    <3>1. OutputOf[d] # p /\ OutputOf[d] \in Outputs
      BY <1>1, <2>2, CallsWrite DEF Inv, ApartInv, Active, p
    <3>2. fd[d] # fd[c]
      BY <1>2, <1>3, <2>0, <3>1, InodesDiffer DEF Inv, NamesInv, WriterInv
    <3>3. data'[fd[d]] = data[fd[d]]
      BY <1>1, <3>2 DEF TypeOK
    <3> QED  BY <1>1, <1>6, <2>0, <2>2, <3>3 DEF WriterInv
  <2> QED  BY <2>1, <2>2
<1> QED  BY <1>5, <1>7, <1>8, <1>9 DEF Inv


(* The temporary name of a path that no writer is at goes away.            *)
LEMMA DeleteStep ==
    ASSUME TypeOK, Inv, NEW c \in Calls, Delete(c)
    PROVE  Inv'
<1> DEFINE p == OutputOf[c]
<1>1. /\ pc[c] = "deleting"
      /\ tmp' = [tmp EXCEPT ![p] = NoFile]
      /\ pc' = [pc EXCEPT ![c] = "threw"]
      /\ final' = final /\ data' = data /\ fd' = fd /\ wrote' = wrote
  BY DEF Delete, Deleted, Goto
<1>2. p \in Outputs
  BY CallsWrite
<1> HIDE DEF p
<1>3. PublishedWhole'
  <2>1. \A q \in Outputs : Contents(q)' = Contents(q)
    BY <1>1 DEF Contents
  <2>2. \A d \in Calls : pc[d] = "done" => pc'[d] = "done"
    BY <1>1 DEF TypeOK
  <2> QED  BY <2>1, <2>2, StillWhole DEF Inv
<1>4. NamesInv'
  <2>1. \A d \in Calls : New(d) # NoFile
    BY NamesDiffer DEF Inodes
  <2> QED  BY <1>1, <1>2, <2>1 DEF Inv, NamesInv, Unused, TypeOK
<1>5. ApartInv'
  BY <1>1 DEF Inv, ApartInv, TypeOK, Active
<1>6. WritersInv'
  <2> SUFFICES ASSUME NEW d \in Calls, pc'[d] \in {"writing", "ok"} PROVE WriterInv(d)'
    BY DEF WritersInv
  <2>1. d # c /\ pc'[d] = pc[d] /\ WriterInv(d)
    BY <1>1 DEF TypeOK, Inv, WritersInv
  <2>2. OutputOf[d] # p /\ OutputOf[d] \in Outputs
    BY <1>1, <2>1, CallsWrite DEF Inv, ApartInv, Active, p
  <2> QED  BY <1>1, <2>1, <2>2 DEF WriterInv, TypeOK
<1> QED  BY <1>3, <1>4, <1>5, <1>6 DEF Inv

(* A rename publishes what the only writer on the path has finished.       *)
LEMMA RenamePublishes ==
    ASSUME TypeOK, Inv, NEW c \in Calls, Rename(c), tmp[OutputOf[c]] # NoFile
    PROVE  /\ pc'[c] = "done"
           /\ Contents(OutputOf[c])' = << Whole(c) >>
           /\ \A p \in Outputs \ {OutputOf[c]} : Contents(p)' = Contents(p)
<1> DEFINE p == OutputOf[c]
<1>1. /\ pc[c] = "ok"
      /\ final' = [final EXCEPT ![p] = tmp[p]]
      /\ pc' = [pc EXCEPT ![c] = "done"]
      /\ data' = data
  BY DEF Rename, Goto
<1>2. p \in Outputs
  BY CallsWrite
<1>3. data[tmp[p]] = Whole(c)
  <2>1. WriterInv(c)
    BY <1>1 DEF Inv, WritersInv
  <2> QED  BY <1>1, <2>1 DEF WriterInv, Whole
<1>4. final'[p] = tmp[p]
  BY <1>1, <1>2 DEF TypeOK
<1>5. Contents(p)' = << Whole(c) >>
  BY <1>1, <1>3, <1>4 DEF Contents
<1>6. \A q \in Outputs \ {p} : Contents(q)' = Contents(q)
  BY <1>1 DEF Contents, TypeOK
<1> QED  BY <1>1, <1>5, <1>6 DEF TypeOK

LEMMA RenameStep ==
    ASSUME TypeOK, Inv, NEW c \in Calls, Rename(c), tmp[OutputOf[c]] # NoFile
    PROVE  Inv'
<1> DEFINE p == OutputOf[c]
<1>1. /\ pc[c] = "ok"
      /\ final' = [final EXCEPT ![p] = tmp[p]]
      /\ tmp' = [tmp EXCEPT ![p] = NoFile]
      /\ pc' = [pc EXCEPT ![c] = "done"]
      /\ data' = data /\ fd' = fd /\ wrote' = wrote
  BY DEF Rename, Goto
<1>2. p \in Outputs
  BY CallsWrite
<1>3. \A d \in Calls \ {c} : pc'[d] = pc[d]
  BY <1>1 DEF TypeOK
<1>4. PublishedWhole'
  <2> SUFFICES ASSUME NEW q \in Outputs
               PROVE  \/ Contents(q)' \in {<< >>, << OldContents(q) >>}
                      \/ \E d \in Calls : /\ OutputOf[d] = q
                                          /\ pc'[d] = "done"
                                          /\ Contents(q)' = << Whole(d) >>
    BY Zenon DEF PublishedWhole, Contents, OldContents, Whole
  <2>1. CASE q = p
    BY <2>1, RenamePublishes
  <2>2. CASE q # p
    <3>1. Contents(q)' = Contents(q)
      BY <2>2, RenamePublishes
    <3>2. \A d \in Calls : pc[d] = "done" => pc'[d] = "done"
      BY <1>1, <1>3
    <3>3. \/ Contents(q) \in {<< >>, << OldContents(q) >>}
          \/ \E d \in Calls : /\ OutputOf[d] = q
                              /\ pc[d] = "done"
                              /\ Contents(q) = << Whole(d) >>
      BY DEF Inv, PublishedWhole
    <3> QED  BY <3>1, <3>2, <3>3
  <2> QED  BY <2>1, <2>2
<1> HIDE DEF p
<1>5. NamesInv'
  <2>1. \A d \in Calls : New(d) # NoFile
    BY NamesDiffer DEF Inodes
  <2>2. \A d \in Calls : Unused(d)' => Unused(d) /\ d # c
    BY <1>1 DEF Unused, TypeOK
  <2> QED  BY <1>1, <1>2, <2>1, <2>2 DEF Inv, NamesInv, TypeOK
<1>6. ApartInv'
  BY <1>1 DEF Inv, ApartInv, TypeOK, Active
<1>7. WritersInv'
  <2> SUFFICES ASSUME NEW d \in Calls, pc'[d] \in {"writing", "ok"} PROVE WriterInv(d)'
    BY DEF WritersInv
  <2>1. d # c /\ pc'[d] = pc[d] /\ WriterInv(d)
    BY <1>1 DEF TypeOK, Inv, WritersInv
  <2>2. OutputOf[d] # p /\ OutputOf[d] \in Outputs
    BY <1>1, <2>1, CallsWrite DEF Inv, ApartInv, Active, p
  <2> QED  BY <1>1, <2>1, <2>2 DEF WriterInv, TypeOK
<1> QED  BY <1>4, <1>5, <1>6, <1>7 DEF Inv

LEMMA InvStep ==
    ASSUME Overlap = FALSE, TypeOK, Inv, [Next]_vars
    PROVE  Inv'
<1>1. CASE UNCHANGED vars
  <2>1. UNCHANGED <<tmp, final, data, fd, wrote, pc>>
    BY <1>1 DEF vars
  <2>2. \A q \in Outputs : Contents(q)' = Contents(q)
    BY <2>1 DEF Contents
  <2>3. \A d \in Calls : pc[d] = "done" => pc'[d] = "done"
    BY <2>1
  <2>4. PublishedWhole'
    BY <2>2, <2>3, StillWhole DEF Inv
  <2>5. NamesInv' /\ ApartInv'
    BY <2>1 DEF Inv, NamesInv, ApartInv, Unused
  <2>6. WritersInv'
    BY <2>1 DEF Inv, WritersInv, WriterInv
  <2> QED  BY <2>4, <2>5, <2>6 DEF Inv
<1> SUFFICES ASSUME NEW c \in Calls, Refuse(c) \/ Begin(c) \/ Progress(c) \/ Fault(c)
             PROVE  Inv'
  BY <1>1 DEF Next
<1>2. CASE Refuse(c)
  BY <1>2, QuietStep DEF Refuse, Active
<1>3. CASE Begin(c)
  BY <1>3, QuietStep DEF Begin, Unused
<1>4. CASE Create(c)
  BY <1>4, CreateStep
<1>5. CASE Write(c)
  BY <1>5, WriteStep
<1>6. CASE NativeOk(c)
  BY <1>6, QuietStep DEF NativeOk, AllWritten, Active
<1>7. CASE Rename(c)
  <2>1. CASE tmp[OutputOf[c]] = NoFile
    BY <1>7, <2>1, QuietStep DEF Rename, Active
  <2> QED  BY <1>7, <2>1, RenameStep
<1>8. CASE Exists(c)
  BY <1>8, QuietStep DEF Exists, Active
<1>9. CASE Delete(c)
  BY <1>9, DeleteStep
<1>10. CASE Fault(c)
  <2>1. CASE NativeFails(c)
    BY <2>1, QuietStep DEF NativeFails, OnErrorCode, Active
  <2>2. CASE RenameFails(c)
    BY <2>2, QuietStep DEF RenameFails, Active
  <2>3. CASE DeleteFails(c)
    BY <2>3, QuietStep DEF DeleteFails, Active
  <2>4. CASE Crash(c)
    BY <2>4, QuietStep DEF Crash, Active
  <2> QED  BY <1>10, <2>1, <2>2, <2>3, <2>4 DEF Fault
<1> QED  BY <1>2, <1>3, <1>4, <1>5, <1>6, <1>7, <1>8, <1>9, <1>10 DEF Progress


-----------------------------------------------------------------------------
(* Type correctness, overlap or not.                                       *)
THEOREM TypeCorrect == Spec => []TypeOK
  BY TypeInit, TypeStep, PTL DEF Spec

LEMMA InvHolds == Overlap = FALSE => (Spec => []Inv)
<1> SUFFICES ASSUME Overlap = FALSE PROVE Spec => []Inv
  OBVIOUS
<1>1. Init => Inv
  BY InvInit
<1>2. TypeOK /\ Inv /\ [Next]_vars => Inv'
  BY InvStep
<1> QED  BY <1>1, <1>2, TypeCorrect, PTL DEF Spec

(* With calls that keep apart on each path, a path always holds the file   *)
(* that was there first or the whole output of a call that succeeded,      *)
(* whatever fails and whoever dies.                                        *)
THEOREM PublishesWhole == Overlap = FALSE => (Spec => []PublishedWhole)
<1> SUFFICES ASSUME Overlap = FALSE PROVE Spec => []PublishedWhole
  OBVIOUS
<1>1. Inv => PublishedWhole
  BY DEF Inv
<1> QED  BY <1>1, InvHolds, PTL

(* With calls that keep apart, a path changes in one step, the rename of a *)
(* call for it that succeeds, from the old file to the whole of the new.   *)
THEOREM PublishesAtomically == Overlap = FALSE => (Spec => PublishedAtomically)
<1> SUFFICES ASSUME Overlap = FALSE PROVE Spec => PublishedAtomically
  OBVIOUS
<1> DEFINE Changes(p) ==
      Contents(p)' # Contents(p) =>
        \E c \in Calls : /\ OutputOf[c] = p
                         /\ pc[c] = "ok" /\ pc'[c] = "done"
                         /\ Contents(p)' = << Whole(c) >>
<1>1. ASSUME TypeOK, Inv, [Next]_vars, NEW p \in Outputs
      PROVE  Changes(p)
  <2>1. CASE UNCHANGED vars
    BY <2>1 DEF vars, Contents
  <2> SUFFICES ASSUME NEW c \in Calls, Refuse(c) \/ Begin(c) \/ Progress(c) \/ Fault(c)
               PROVE  Changes(p)
    BY <1>1, <2>1 DEF Next
  <2>2. CASE Create(c) \/ Write(c)
    BY <1>1, <2>2, CreateStep, WriteStep
  <2>3. CASE Rename(c)
    <3>1. CASE tmp[OutputOf[c]] = NoFile
      BY <2>3, <3>1 DEF Rename, Contents
    <3>2. CASE tmp[OutputOf[c]] # NoFile
      <4>1. pc[c] = "ok"
        BY <2>3 DEF Rename
      <4> QED  BY <1>1, <2>3, <3>2, <4>1, RenamePublishes
    <3> QED  BY <3>1, <3>2
  <2>4. CASE Refuse(c) \/ Begin(c) \/ NativeOk(c) \/ Exists(c) \/ Delete(c) \/ Fault(c)
    BY <2>4 DEF Refuse, Begin, NativeOk, Exists, Delete, Fault, NativeFails, RenameFails,
                DeleteFails, Crash, Contents
  <2> QED  BY <2>2, <2>3, <2>4 DEF Progress
<1>2. TypeOK /\ Inv /\ [Next]_vars => [\A p \in Outputs : Changes(p)]_vars
  BY <1>1
<1> QED  BY <1>2, TypeCorrect, InvHolds, PTL DEF Spec, PublishedAtomically

(* A call that returns leaves nothing under the temporary name unless the  *)
(* clean-up failed, also among calls that overlap.                         *)
THEOREM CleansUp == Spec => NoLitter
<1> DEFINE Clean(c) ==
      pc[c] # pc'[c] /\ pc'[c] \in {"done", "threw"} => tmp'[OutputOf[c]] = NoFile
<1>1. ASSUME TypeOK, [Next]_vars, NEW c \in Calls
      PROVE  Clean(c)
  <2>1. CASE UNCHANGED vars
    BY <2>1 DEF vars
  <2> SUFFICES ASSUME NEW d \in Calls, Refuse(d) \/ Begin(d) \/ Progress(d) \/ Fault(d)
               PROVE  Clean(c)
    BY <1>1, <2>1 DEF Next
  <2>2. OutputOf[d] \in Outputs
    BY CallsWrite
  <2>3. CASE Rename(d) \/ Exists(d) \/ Delete(d)
    BY <1>1, <2>2, <2>3 DEF TypeOK, Rename, Exists, Delete, Deleted, Goto
  <2>4. CASE Refuse(d) \/ Begin(d) \/ Create(d) \/ Write(d) \/ NativeOk(d) \/ Fault(d)
    BY <1>1, <2>4 DEF TypeOK, Refuse, Begin, Create, Write, NativeOk, Fault, NativeFails,
       OnErrorCode, RenameFails, DeleteFails, Crash, Goto
  <2> QED  BY <2>3, <2>4 DEF Progress
<1>2. TypeOK /\ [Next]_vars => [\A c \in Calls : Clean(c)]_vars
  BY <1>1
<1> QED  BY <1>2, TypeCorrect, PTL DEF Spec, NoLitter
=============================================================================
