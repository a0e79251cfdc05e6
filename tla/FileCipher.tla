----------------------------- MODULE FileCipher -----------------------------
(***************************************************************************)
(* PqForgeFileCipher._run: the native call writes <output>.pqforge-tmp,    *)
(* which is then renamed to the output, or deleted when the call or the    *)
(* rename fails.  Calls come from several isolates or processes; a process *)
(* may die at any time and leave its temporary file behind.                *)
(*                                                                         *)
(* A directory entry names an inode: File::create truncates the inode an   *)
(* existing entry names, a rename moves the inode to the other name, and a *)
(* file that is being written keeps its inode whatever happens to the      *)
(* entries.  A call writes its output as Blocks[c] blocks <<c, k>>; what   *)
(* the blocks are (FileSeal, FileOpen) does not matter here.               *)
(***************************************************************************)
EXTENDS Integers, Sequences

CONSTANTS Calls,            \* the calls of _run
          Outputs,          \* the output paths
          OutputOf,         \* the path each call writes
          Blocks,           \* blocks each call writes when it succeeds
          Overlap           \* whether two calls may write one path at once

Old(p)   == <<"old", p>>    \* inode of an output that is there already
Stale(p) == <<"stale", p>>  \* inode of a temporary file left by a dead run
New(c)   == <<"new", c>>    \* inode that call c creates
Inodes == {Old(p) : p \in Outputs} \union {Stale(p) : p \in Outputs}
            \union {New(c) : c \in Calls}

NoFile == <<"none">>

ASSUME CallsWrite ==
    /\ OutputOf \in [Calls -> Outputs]
    /\ Blocks \in [Calls -> Nat]
    /\ Overlap \in BOOLEAN
ASSUME NamesDiffer == NoFile \notin Inodes

VARIABLES tmp,              \* inode of <path>.pqforge-tmp, or NoFile
          final,            \* inode of <path>, or NoFile
          data,             \* contents of each inode
          pc,               \* where each call is
          fd,               \* the inode each call writes
          wrote             \* blocks each call has written

vars == <<tmp, final, data, pc, fd, wrote>>

Returned == {"refused", "done", "threw", "threwLeaving"}
Active   == {"native", "writing", "ok", "failed", "deleting"}

OldContents(p) == << <<"old", p>> >>
Whole(c) == [k \in 1..Blocks[c] |-> <<c, k>>]
Hole == <<"hole">>

WriteAt(file, k, block) ==
    [i \in 1..(IF k > Len(file) THEN k ELSE Len(file)) |->
        IF i = k THEN block ELSE IF i <= Len(file) THEN file[i] ELSE Hole]

Init ==
    /\ tmp \in {t \in [Outputs -> Inodes \union {NoFile}] :
                  \A p \in Outputs : t[p] \in {NoFile, Stale(p)}}
    /\ final \in {f \in [Outputs -> Inodes \union {NoFile}] :
                    \A p \in Outputs : f[p] \in {NoFile, Old(p)}}
    /\ data = [i \in Inodes |-> IF i[1] = "old" THEN OldContents(i[2])
                                ELSE IF i[1] = "stale" THEN << <<"stale", i[2]>> >>
                                ELSE << >>]
    /\ pc = [c \in Calls |-> "idle"]
    /\ fd = [c \in Calls |-> NoFile]
    /\ wrote = [c \in Calls |-> 0]

Goto(c, place) == pc' = [pc EXCEPT ![c] = place]

-----------------------------------------------------------------------------
(* A chunkSize that is not positive is refused before anything is touched. *)
Refuse(c) ==
    /\ pc[c] = "idle"
    /\ Goto(c, "refused")
    /\ UNCHANGED <<tmp, final, data, fd, wrote>>

(* The native call is made; callers that care keep two calls for one path  *)
(* apart.                                                                  *)
Begin(c) ==
    /\ pc[c] = "idle"
    /\ Overlap \/ \A d \in Calls : OutputOf[d] = OutputOf[c] => pc[d] \notin Active
    /\ Goto(c, "native")
    /\ UNCHANGED <<tmp, final, data, fd, wrote>>

(* mutant: the output is opened without truncating it                      *)
Appending(inode) == data

Truncated(inode) == [data EXCEPT ![inode] = << >>]

(* File::create on the temporary path.                                     *)
Create(c) ==
    LET p == OutputOf[c]
        inode == IF tmp[p] = NoFile THEN New(c) ELSE tmp[p]
    IN
    /\ pc[c] = "native"
    /\ tmp' = [tmp EXCEPT ![p] = inode]
    /\ data' = Truncated(inode)
    /\ fd' = [fd EXCEPT ![c] = inode]
    /\ Goto(c, "writing")
    /\ UNCHANGED <<final, wrote>>

(* mutant: the frame loop goes on after the last block                     *)
MoreToWriteOver(c) == wrote[c] <= Blocks[c]

MoreToWrite(c) == wrote[c] < Blocks[c]

Write(c) ==
    /\ pc[c] = "writing"
    /\ MoreToWrite(c)
    /\ wrote' = [wrote EXCEPT ![c] = @ + 1]
    /\ data' = [data EXCEPT ![fd[c]] = WriteAt(@, wrote'[c], <<c, wrote'[c]>>)]
    /\ UNCHANGED <<tmp, final, pc, fd>>

(* mutant: an output of no blocks is never finished                        *)
AllWrittenNonEmpty(c) == wrote[c] = Blocks[c] /\ wrote[c] > 0

AllWritten(c) == wrote[c] = Blocks[c]

NativeOk(c) ==
    /\ pc[c] = "writing"
    /\ AllWritten(c)
    /\ Goto(c, "ok")
    /\ UNCHANGED <<tmp, final, data, fd, wrote>>

(* mutant: the code the native call returned is not looked at              *)
OnErrorCodeIgnored == "ok"

OnErrorCode == "failed"

(* The call returns an error: before it creates its output, or after any   *)
(* part of it is written.                                                  *)
NativeFails(c) ==
    /\ pc[c] \in {"native", "writing"}
    /\ Goto(c, OnErrorCode)
    /\ UNCHANGED <<tmp, final, data, fd, wrote>>

-----------------------------------------------------------------------------
(* await File(tmpPath).rename(outputPath); a missing source is an error.   *)
Rename(c) ==
    LET p == OutputOf[c] IN
    /\ pc[c] = "ok"
    /\ IF tmp[p] = NoFile
         THEN Goto(c, "failed") /\ UNCHANGED <<tmp, final>>
         ELSE /\ final' = [final EXCEPT ![p] = tmp[p]]
              /\ tmp' = [tmp EXCEPT ![p] = NoFile]
              /\ Goto(c, "done")
    /\ UNCHANGED <<data, fd, wrote>>

RenameFails(c) ==
    /\ pc[c] = "ok"
    /\ Goto(c, "failed")
    /\ UNCHANGED <<tmp, final, data, fd, wrote>>

(* _deleteQuiet: await exists(), then await delete(); then the error is    *)
(* thrown.                                                                 *)
Exists(c) ==
    /\ pc[c] = "failed"
    /\ Goto(c, IF tmp[OutputOf[c]] = NoFile THEN "threw" ELSE "deleting")
    /\ UNCHANGED <<tmp, final, data, fd, wrote>>

(* mutant: the temporary file is left where it is                          *)
NotDeleted(p) == tmp

Deleted(p) == [tmp EXCEPT ![p] = NoFile]

Delete(c) ==
    /\ pc[c] = "deleting"
    /\ tmp' = Deleted(OutputOf[c])
    /\ Goto(c, "threw")
    /\ UNCHANGED <<final, data, fd, wrote>>

(* exists() or delete() throws: swallowed, the file stays.                 *)
DeleteFails(c) ==
    /\ pc[c] \in {"failed", "deleting"}
    /\ Goto(c, "threwLeaving")
    /\ UNCHANGED <<tmp, final, data, fd, wrote>>

(* The process of the call dies.                                           *)
Crash(c) ==
    /\ pc[c] \in Active
    /\ Goto(c, "crashed")
    /\ UNCHANGED <<tmp, final, data, fd, wrote>>

Progress(c) ==
    \/ Create(c)
    \/ Write(c)
    \/ NativeOk(c)
    \/ Rename(c)
    \/ Exists(c)
    \/ Delete(c)

Fault(c) == NativeFails(c) \/ RenameFails(c) \/ DeleteFails(c) \/ Crash(c)

Next == \E c \in Calls : Refuse(c) \/ Begin(c) \/ Progress(c) \/ Fault(c)

(* A call that was made keeps running: the native call is synchronous and  *)
(* the event loop resumes _run when the file operation it awaits is done.  *)
Spec == Init /\ [][Next]_vars /\ \A c \in Calls : WF_vars(Progress(c))

-----------------------------------------------------------------------------
(* What a reader of the path finds: no file, or one with these contents.   *)
Contents(p) == IF final[p] = NoFile THEN << >> ELSE << data[final[p]] >>

(* Type correctness.                                                       *)
TypeOK ==
    /\ tmp \in [Outputs -> Inodes \union {NoFile}]
    /\ final \in [Outputs -> Inodes \union {NoFile}]
    /\ DOMAIN data = Inodes
    /\ pc \in [Calls -> {"idle", "crashed"} \union Active \union Returned]
    /\ fd \in [Calls -> Inodes \union {NoFile}]
    /\ wrote \in [Calls -> Nat] /\ \A c \in Calls : wrote[c] <= Blocks[c]

(* What a path holds is always the file that was there before any call, or *)
(* the whole output of a call that succeeded: never a part of an output,   *)
(* the leavings of a run that died, or the work of a call that failed.     *)
PublishedWhole ==
    \A p \in Outputs :
        \/ Contents(p) \in {<< >>, << OldContents(p) >>}
        \/ \E c \in Calls : /\ OutputOf[c] = p
                            /\ pc[c] = "done"
                            /\ Contents(p) = << Whole(c) >>

(* A path changes only in the step in which a call for it completes, and   *)
(* then it changes to that call's whole output: a reader sees the old file *)
(* or the new one.                                                         *)
PublishedAtomically ==
    [][\A p \in Outputs : Contents(p)' # Contents(p) =>
          \E c \in Calls : /\ OutputOf[c] = p
                           /\ pc[c] = "ok" /\ pc'[c] = "done"
                           /\ Contents(p)' = << Whole(c) >>]_vars

(* A call that returns, with success or with an error, leaves nothing      *)
(* under the temporary name, unless the clean-up itself failed: none of    *)
(* the plaintext a failed open had written, and none of what an earlier    *)
(* call that died, or could not clean up, had left there.                  *)
NoLitter ==
    [][\A c \in Calls :
          pc[c] # pc'[c] /\ pc'[c] \in {"done", "threw"} =>
              tmp'[OutputOf[c]] = NoFile]_vars

(* Every call that was made returns, unless its process dies.              *)
CallReturns ==
    \A c \in Calls : pc[c] = "native" ~> pc[c] \in Returned \union {"crashed"}
=============================================================================
