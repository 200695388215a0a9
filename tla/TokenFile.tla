------------------------------ MODULE TokenFile -------------------------------
(***************************************************************************)
(* The token file as the commands and the service understand it, and as    *)
(* module Service takes it: a register that is read, or replaced, in one   *)
(* step between the call and its return.  There is no .tmp, no inode and   *)
(* no partial content here.  Module FilesRefinement shows when             *)
(* config.atomicWrite and os.ReadFile implement it.                        *)
(***************************************************************************)
CONSTANTS
  Process,  \* bound: the processes that use the file, each once
  Old,      \* the token of an earlier installation
  None      \* no token

VARIABLES
  token,    \* the token in force
  op,       \* what each process has called
  at,       \* how far the call is
  seen,     \* the token it has looked up
  result    \* what it has returned

vars == <<token, op, at, seen, result>>

Init ==
  /\ token \in {None, Old}
  /\ op = [p \in Process |-> "none"]
  /\ at = [p \in Process |-> "idle"]
  /\ seen = [p \in Process |-> None]
  /\ result = [p \in Process |-> None]

Call(p, o) ==
  /\ at[p] = "idle"
  /\ op' = [op EXCEPT ![p] = o]
  /\ at' = [at EXCEPT ![p] = "called"]
  /\ UNCHANGED <<token, seen, result>>

\* The call is over and has nothing more to look at.
Leave(p, place, r) ==
  /\ at' = [at EXCEPT ![p] = place]
  /\ seen' = [seen EXCEPT ![p] = None]
  /\ result' = [result EXCEPT ![p] = r]
  /\ UNCHANGED op

Return(p, r) == Leave(p, "done", r)

\* A look at the token in force.
Look(p) ==
  /\ at[p] = "called" /\ op[p] \in {"ensure", "read"}
  /\ seen' = [seen EXCEPT ![p] = token]
  /\ at' = [at EXCEPT ![p] = "looked"]
  /\ UNCHANGED <<token, op, result>>

\* It is answered with the token that was in force when it looked ...
Answer(p) ==
  /\ at[p] = "looked" /\ seen[p] # None
  /\ Return(p, seen[p])
  /\ UNCHANGED token

\* ... and refused only when there was none.
Refuse(p) ==
  /\ at[p] = "called" /\ op[p] = "read" /\ token = None
  /\ Return(p, "invalid")
  /\ UNCHANGED token

\* reset-link replaces the token; init does only when it has found none.
MayReplace(p) ==
  \/ at[p] = "called" /\ op[p] = "rotate"
  \/ at[p] = "looked" /\ op[p] = "ensure" /\ seen[p] = None

Replace(p) ==
  /\ MayReplace(p)
  /\ token' = p
  /\ Return(p, p)

\* An error, or the end of the process, changes nothing.
Fail(p) ==
  /\ MayReplace(p)
  /\ Return(p, "full")
  /\ UNCHANGED token

Die(p) ==
  /\ at[p] \in {"called", "looked"}
  /\ Leave(p, "crashed", result[p])
  /\ UNCHANGED token

Next ==
  \E p \in Process :
    \/ \E o \in {"ensure", "rotate", "read"} : Call(p, o)
    \/ Look(p) \/ Answer(p) \/ Refuse(p)
    \/ Replace(p) \/ Fail(p) \/ Die(p)

Spec == Init /\ [][Next]_vars
=============================================================================
