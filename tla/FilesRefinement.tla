--------------------------- MODULE FilesRefinement ----------------------------
(***************************************************************************)
(* atomicWrite and os.ReadFile implement the register of module TokenFile, *)
(* step by system call, as long as no two processes are in atomicWrite at  *)
(* once.                                                                   *)
(*                                                                         *)
(* A reader has looked when it has opened the file; what it will read is   *)
(* in that inode, whatever has the name by then.                           *)
(***************************************************************************)
EXTENDS Files

\* EnsureToken(home, FALSE) writes once it has looked.
Progress(p) ==
  CASE at[p] = "reading" -> "called"
    [] at[p] = "loading" -> "looked"
    [] at[p] \in {"idle", "done", "crashed"} -> at[p]
    [] OTHER -> IF op[p] = "ensure" THEN "looked" ELSE "called"

Seen(p) == IF at[p] = "loading" THEN data[fd[p]] ELSE None

Places == [p \in Process |-> Progress(p)]

Looks == [p \in Process |-> Seen(p)]

T == INSTANCE TokenFile WITH token <- Current, at <- Places, seen <- Looks

\* What module Service takes for granted of EnsureToken and ReadToken, that the
\* file is read and replaced in one step: readers get the token that was in force
\* when they looked, whoever replaces it meanwhile; a writer that is killed at any
\* step, or runs out of space, changes nothing; and init never replaces a token it
\* could have read.
FileIsARegister == T!Init /\ [][overlapped' \/ T!Next]_(T!vars)
=============================================================================
