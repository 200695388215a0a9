-------------------------------- MODULE Files ---------------------------------
(***************************************************************************)
(* config.atomicWrite and its users on the token file: EnsureToken (init,  *)
(* reset-link) and ReadToken (the service).  service.writePrivateJSON,     *)
(* which writes the two state files, has the same steps.                   *)
(*                                                                         *)
(* Every system call is a step.  Two names lead to inodes: the file itself *)
(* and its ".tmp", which is the same for every process; an open file stays *)
(* with its inode whatever becomes of the name.  All tokens have the same  *)
(* length and are written in one call.                                     *)
(***************************************************************************)
EXTENDS Integers

CONSTANTS
  Process,  \* bound: the processes that use the file, each once
  Old,      \* the token of an earlier installation, and its inode
  None,     \* no such file
  Torn,     \* content that is refused: empty, or cut short of 32 characters
  Cut       \* content cut short after them, which passes for a token

ASSUME FilesAssumption ==
  /\ Old \notin Process /\ None \notin Process \cup {Old}
  /\ Torn \notin Process \cup {Old, None}
  /\ Cut \notin Process \cup {Old, None, Torn}
  /\ {"invalid", "lost", "full"} \cap (Process \cup {Old, None, Cut}) = {}

VARIABLES
  path,       \* the inode of state/access-token
  tmp,        \* the inode of state/access-token.tmp
  data,       \* the content of each inode
  op,         \* what each process does
  at,         \* where it is
  fd,         \* the inode it has open
  result,     \* what its call has returned
  overlapped  \* two processes have been in atomicWrite at once

vars == <<path, tmp, data, op, at, fd, result, overlapped>>

-----------------------------------------------------------------------------

\* A process generates one token and creates at most one file: both are named
\* after it.
Token == Process \cup {Old}

\* What a write that was not finished leaves.
Part == {Torn, Cut}

Failure == {"invalid", "lost", "full"}

Init ==
  /\ path \in {None, Old}
  /\ tmp = None
  /\ data = [i \in Token |-> IF i = Old THEN Old ELSE Torn]
  /\ op = [p \in Process |-> "none"]
  /\ at = [p \in Process |-> "idle"]
  /\ fd = [p \in Process |-> None]
  /\ result = [p \in Process |-> None]
  /\ overlapped = FALSE

Go(p, place) == at' = [at EXCEPT ![p] = place]

Return(p, r) == Go(p, "done") /\ result' = [result EXCEPT ![p] = r]

InWrite(p) == at[p] \in {"writing", "securing", "renaming", "cleaning"}

\* EnsureToken(home, TRUE) goes straight to the write.
Begin(p, o) ==
  /\ at[p] = "idle"
  /\ op' = [op EXCEPT ![p] = o]
  /\ Go(p, IF o = "rotate" THEN "opening" ELSE "reading")
  /\ UNCHANGED <<path, tmp, data, fd, result, overlapped>>

-----------------------------------------------------------------------------
(* os.ReadFile in ReadToken and EnsureToken(home, FALSE).                  *)

\* What follows when there is no token to read.
NoToken(p) ==
  IF op[p] = "ensure" THEN Go(p, "opening") /\ UNCHANGED result
  ELSE Return(p, "invalid")

OpenFile(p) ==
  /\ at[p] = "reading"
  /\ fd' = [fd EXCEPT ![p] = path]
  /\ IF path = None THEN NoToken(p) ELSE Go(p, "loading") /\ UNCHANGED result
  /\ UNCHANGED <<path, tmp, data, op, overlapped>>

\* Mutant: EnsureToken goes on to write although it has read a token.
ReadFile_NeverEnough(p) ==
  /\ at[p] = "loading"
  /\ IF op[p] = "ensure" \/ data[fd[p]] = Torn THEN NoToken(p)
     ELSE Return(p, data[fd[p]])
  /\ UNCHANGED <<path, tmp, data, op, fd, overlapped>>

\* Whatever has 32 characters is a token.
ReadFile(p) ==
  /\ at[p] = "loading"
  /\ IF data[fd[p]] = Torn THEN NoToken(p) ELSE Return(p, data[fd[p]])
  /\ UNCHANGED <<path, tmp, data, op, fd, overlapped>>

-----------------------------------------------------------------------------
(* atomicWrite.                                                            *)

\* Mutant: the file itself is opened and written.
OpenTmp_InPlace(p) ==
  /\ at[p] = "opening"
  /\ LET inode == IF path = None THEN p ELSE path
     IN  /\ tmp' = inode
         /\ fd' = [fd EXCEPT ![p] = inode]
         /\ data' = [data EXCEPT ![inode] = Torn]
  /\ overlapped' = (overlapped \/ \E q \in Process \ {p} : InWrite(q))
  /\ Go(p, "writing")
  /\ UNCHANGED <<path, op, result>>

\* os.WriteFile opens with O_CREATE and O_TRUNC: a .tmp that is there, left by
\* a crash or another process's own, is emptied and used.
OpenTmp(p) ==
  /\ at[p] = "opening"
  /\ LET inode == IF tmp = None THEN p ELSE tmp
     IN  /\ tmp' = inode
         /\ fd' = [fd EXCEPT ![p] = inode]
         /\ data' = [data EXCEPT ![inode] = Torn]
  /\ overlapped' = (overlapped \/ \E q \in Process \ {p} : InWrite(q))
  /\ Go(p, "writing")
  /\ UNCHANGED <<path, op, result>>

\* Mutant: the error of WriteFile is overlooked.
Write_IgnoresError(p) ==
  /\ at[p] = "writing"
  /\ \E c \in Part \cup {p} : data' = [data EXCEPT ![fd[p]] = c]
  /\ Go(p, "securing")
  /\ UNCHANGED <<path, tmp, op, fd, result, overlapped>>

\* It writes, or fails (no space) and leaves the .tmp behind.
Write(p) ==
  /\ at[p] = "writing"
  /\ \/ data' = [data EXCEPT ![fd[p]] = p]
        /\ Go(p, "securing") /\ UNCHANGED result
     \/ /\ \E c \in Part : data' = [data EXCEPT ![fd[p]] = c]
        /\ Return(p, "full")
  /\ UNCHANGED <<path, tmp, op, fd, overlapped>>

\* os.Chmod fails when the .tmp has been renamed or removed.
Chmod(p) ==
  /\ at[p] = "securing"
  /\ Go(p, IF tmp = None THEN "cleaning" ELSE "renaming")
  /\ UNCHANGED <<path, tmp, data, op, fd, result, overlapped>>

\* os.Rename takes whatever the .tmp is by now.
Rename(p) ==
  /\ at[p] = "renaming"
  /\ IF tmp = None THEN Go(p, "cleaning") /\ UNCHANGED <<path, tmp, result>>
     ELSE path' = tmp /\ tmp' = None /\ Return(p, p)
  /\ UNCHANGED <<data, op, fd, overlapped>>

\* Mutant: the file is removed along with the .tmp.
Clean_RemovesBoth(p) ==
  /\ at[p] = "cleaning"
  /\ tmp' = None /\ path' = None
  /\ Return(p, "lost")
  /\ UNCHANGED <<data, op, fd, overlapped>>

\* os.Remove(tmp) after an error, whoever has created it since.
Clean(p) ==
  /\ at[p] = "cleaning"
  /\ tmp' = None
  /\ Return(p, "lost")
  /\ UNCHANGED <<path, data, op, fd, overlapped>>

\* The process is killed.
Crash(p) ==
  /\ at[p] \notin {"idle", "done", "crashed"}
  /\ Go(p, "crashed")
  /\ UNCHANGED <<path, tmp, data, op, fd, result, overlapped>>

-----------------------------------------------------------------------------

AtomicWrite(p) == OpenTmp(p) \/ Write(p) \/ Chmod(p) \/ Rename(p) \/ Clean(p)

Finished ==
  /\ \A p \in Process : at[p] \in {"done", "crashed"}
  /\ UNCHANGED vars

Next ==
  \/ \E p \in Process :
       \/ \E o \in {"ensure", "rotate", "read"} : Begin(p, o)
       \/ OpenFile(p) \/ ReadFile(p) \/ AtomicWrite(p) \/ Crash(p)
  \/ Finished

Spec == Init /\ [][Next]_vars

-----------------------------------------------------------------------------
(* Properties.                                                             *)

\* Every variable keeps its type; no inode has both names, and a process in
\* atomicWrite has a file open.
TypeOK ==
  /\ path \in Token \cup {None} /\ tmp \in Token \cup {None}
  /\ data \in [Token -> Token \cup Part]
  /\ op \in [Process -> {"none", "ensure", "rotate", "read"}]
  /\ at \in [Process -> {"idle", "reading", "loading", "opening", "writing",
                         "securing", "renaming", "cleaning", "done", "crashed"}]
  /\ fd \in [Process -> Token \cup {None}]
  /\ result \in [Process -> Token \cup Failure \cup {None, Cut}]
  /\ overlapped \in BOOLEAN
  /\ path = tmp => path = None
  /\ \A p \in Process : InWrite(p) => fd[p] # None

\* The token in force.
Current == IF path = None THEN None ELSE data[path]

\* One writer at a time, be it killed at any step or out of space: the file
\* holds a whole token, and holds another one only when the call that has
\* written it returns it.
WriteIsAtomic ==
  [][~overlapped' /\ Current' # Current =>
       \E p \in Process : Current' = p /\ result[p] = None /\ result'[p] = p]_vars

\* A reader is refused only if there was no file when it looked: whoever
\* replaces or has failed to replace it, one at a time, takes no token away.
ReadersAreServed ==
  [][\A p \in Process :
       /\ ~overlapped
       /\ result[p] = None /\ result'[p] = "invalid"
       => fd'[p] = None]_vars

\* Writers that overlap can truncate and rename each other's file and be told
\* that theirs is gone, but only because another one has been through: when
\* they all have returned there is a whole token.
OneWriterWins ==
  /\ \A p \in Process : result[p] = "lost" => \E q \in Process : result[q] = q
  /\ /\ \A p \in Process : at[p] \in {"idle", "done"} /\ result[p] # "full"
     /\ \E p \in Process : result[p] = p
     => Current \in Token
=============================================================================
