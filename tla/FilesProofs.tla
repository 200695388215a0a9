----------------------------- MODULE FilesProofs ------------------------------
(***************************************************************************)
(* Proofs about atomicWrite, for any number of processes: one writer at a  *)
(* time is atomic whatever happens to it, and writers that overlap fail    *)
(* only when another one has been through.                                 *)
(***************************************************************************)
EXTENDS FilesRefinement, TLAPS

-----------------------------------------------------------------------------
(* The inductive invariant.                                                *)

\* A process that has not yet opened the .tmp has created no file.
Early == {"idle", "reading", "loading", "opening"}

Created ==
  \A p \in Process :
    at[p] \in Early => p \notin {path, tmp} /\ \A q \in Process : fd[q] # p

\* A call returns once, and a reader that has a file open found one.
Calls ==
  \A p \in Process :
    /\ result[p] # None => at[p] = "done"
    /\ at[p] = "loading" => fd[p] # None /\ path # None

\* A writer that is alone has the .tmp to itself, and nobody has anything but
\* a whole token under the file's name.
Alone ==
  ~overlapped =>
    /\ \A p \in Process : InWrite(p) =>
         /\ at[p] # "cleaning" /\ fd[p] = tmp
         /\ at[p] # "writing" => data[tmp] = p
         /\ \A q \in Process : InWrite(q) => q = p
    /\ path # None => data[path] \notin Part
    /\ \A p \in Process :
         at[p] = "loading" => fd[p] # tmp /\ data[fd[p]] \notin Part

\* Someone's token is in force.
Won == \E p \in Process : result[p] = p

\* The .tmp disappears under a writer only by a rename that succeeded.
Losers ==
  /\ Won => path # None
  /\ \A p \in Process :
       result[p] = "lost" \/ at[p] = "cleaning" \/ (InWrite(p) /\ tmp = None)
         => Won

\* An inode is torn only as long as one is at it, or was when it failed.
Unfinished(i) ==
  \E p \in Process :
    fd[p] = i /\ (at[p] \in {"writing", "crashed"} \/ result[p] = "full")

TornByOne ==
  \A i \in {path, tmp} : i # None /\ data[i] \in Part => Unfinished(i)

FInv == TypeOK /\ Created /\ Calls /\ Alone /\ Losers /\ TornByOne

LEMMA InitFInv == Init => FInv
<1> SUFFICES ASSUME Init PROVE FInv
  OBVIOUS
<1> USE FilesAssumption DEF Init, Part
<1>1. TypeOK
  BY DEF TypeOK, Token, InWrite
<1>2. Created /\ Calls /\ Alone
  BY DEF Created, Calls, Alone, Token, InWrite
<1>3. Losers /\ TornByOne
  BY DEF Losers, Won, TornByOne, Token, InWrite
<1> QED
  BY <1>1, <1>2, <1>3 DEF FInv

\* A result that has been returned stays.
LEMMA WonStays ==
  ASSUME TypeOK, Calls, NEW p \in Process, at[p] # "done",
         NEW r, result' = result \/ result' = [result EXCEPT ![p] = r], Won
  PROVE  Won'
<1>1. PICK q \in Process : result[q] = q
  BY DEF Won
<1>2. q # p
  BY <1>1, FilesAssumption DEF Calls
<1> QED
  BY <1>1, <1>2 DEF Won, TypeOK

\* Only the one who is at a torn inode can finish it.
LEMMA UnfinishedStays ==
  ASSUME TypeOK, Calls, NEW p \in Process, NEW place, NEW i,
         at[p] \notin {"writing", "done", "crashed"},
         at' = [at EXCEPT ![p] = place],
         \A q \in Process \ {p} : fd'[q] = fd[q] /\ result'[q] = result[q],
         Unfinished(i)
  PROVE  Unfinished(i)'
<1>1. PICK q \in Process :
        fd[q] = i /\ (at[q] \in {"writing", "crashed"} \/ result[q] = "full")
  BY DEF Unfinished
<1>2. q # p
  BY <1>1, FilesAssumption DEF Calls
<1>3. at'[q] = at[q]
  BY <1>2 DEF TypeOK
<1> QED
  BY <1>1, <1>2, <1>3 DEF Unfinished

-----------------------------------------------------------------------------
(* Every action preserves it.                                              *)

LEMMA BeginFInv ==
  ASSUME FInv, NEW p \in Process, NEW o \in {"ensure", "rotate", "read"},
         Begin(p, o)
  PROVE  FInv'
<1> USE DEF FInv, Part
<1>1. PICK place \in {"opening", "reading"} :
        /\ at[p] = "idle" /\ at' = [at EXCEPT ![p] = place]
        /\ op' = [op EXCEPT ![p] = o]
        /\ UNCHANGED <<path, tmp, data, fd, result, overlapped>>
  BY DEF Begin, Go
<1>2. /\ at'[p] = place
      /\ \A q \in Process \ {p} : at'[q] = at[q] /\ (InWrite(q)' <=> InWrite(q))
      /\ ~InWrite(p) /\ ~InWrite(p)'
  BY <1>1 DEF TypeOK, InWrite
<1>3. TypeOK'
  BY <1>1, <1>2 DEF TypeOK
<1>4. Created'
  BY <1>1, <1>2 DEF Created, Early
<1>5. Calls'
  BY <1>1, <1>2 DEF Calls
<1>6. Alone'
  BY <1>1, <1>2 DEF Alone
<1>7. Losers'
  BY <1>1, <1>2 DEF Losers, Won
<1>8. TornByOne'
  BY <1>1, <1>2, UnfinishedStays DEF TornByOne
<1> QED
  BY <1>3, <1>4, <1>5, <1>6, <1>7, <1>8

\* A reader opens the file itself, if there is one.
LEMMA OpenFileFInv ==
  ASSUME FInv, NEW p \in Process, OpenFile(p)
  PROVE  FInv'
<1> USE DEF FInv, Part
<1>0. result[p] = None /\ result = [result EXCEPT ![p] = None]
  BY DEF OpenFile, Calls, TypeOK
<1>1. /\ at[p] = "reading" /\ fd' = [fd EXCEPT ![p] = path]
      /\ UNCHANGED <<path, tmp, data, op, overlapped>>
  BY DEF OpenFile
<1>2. PICK place \in {"opening", "loading", "done"}, r \in {None, "invalid"} :
        /\ at' = [at EXCEPT ![p] = place]
        /\ result' = [result EXCEPT ![p] = r]
        /\ place = "loading" <=> path # None
        /\ r # None => place = "done"
  BY <1>0 DEF OpenFile, NoToken, Return, Go
<1>3. /\ at'[p] = place /\ fd'[p] = path /\ result'[p] = r
      /\ \A q \in Process \ {p} :
           /\ at'[q] = at[q] /\ fd'[q] = fd[q] /\ result'[q] = result[q]
           /\ InWrite(q)' <=> InWrite(q)
      /\ ~InWrite(p) /\ ~InWrite(p)'
  BY <1>1, <1>2 DEF TypeOK, InWrite
<1>4. TypeOK'
  BY <1>1, <1>2, <1>3 DEF TypeOK, Failure
<1>5. Created'
  BY <1>1, <1>3 DEF Created, Early
<1>6. Calls'
  BY <1>1, <1>2, <1>3 DEF Calls
<1>7. Alone'
  <2> SUFFICES ASSUME ~overlapped PROVE Alone'
    BY <1>1 DEF Alone
  <2>1. path # None => path # tmp /\ data[path] \notin Part
    BY DEF TypeOK, Alone
  <2> QED
    BY <1>1, <1>2, <1>3, <2>1 DEF Alone
<1>8. Losers'
  <2>1. Won => Won'
    BY <1>1, <1>2, WonStays
  <2>2. Won' => Won
    BY <1>2, <1>3, FilesAssumption DEF Won
  <2> QED
    BY <1>1, <1>2, <1>3, <2>1, <2>2, FilesAssumption DEF Losers
<1>9. TornByOne'
  BY <1>1, <1>2, <1>3, UnfinishedStays DEF TornByOne
<1> QED
  BY <1>4, <1>5, <1>6, <1>7, <1>8, <1>9

LEMMA ReadFileFInv ==
  ASSUME FInv, NEW p \in Process, ReadFile(p)
  PROVE  FInv'
<1> USE DEF FInv, Part
<1>0. /\ result[p] = None /\ result = [result EXCEPT ![p] = None]
      /\ fd[p] \in Token /\ data[fd[p]] \in Token \cup Part /\ path # None
  BY DEF ReadFile, Calls, TypeOK
<1>1. /\ at[p] = "loading"
      /\ UNCHANGED <<path, tmp, data, op, fd, overlapped>>
  BY DEF ReadFile
<1>2. PICK place \in {"opening", "done"}, r \in Token \cup {None, "invalid", Cut} :
        /\ at' = [at EXCEPT ![p] = place]
        /\ result' = [result EXCEPT ![p] = r]
        /\ r # None => place = "done"
  BY <1>0 DEF ReadFile, NoToken, Return, Go
<1>3. /\ at'[p] = place /\ result'[p] = r
      /\ \A q \in Process \ {p} :
           /\ at'[q] = at[q] /\ result'[q] = result[q]
           /\ InWrite(q)' <=> InWrite(q)
      /\ ~InWrite(p) /\ ~InWrite(p)'
  BY <1>1, <1>2 DEF TypeOK, InWrite
<1>4. TypeOK'
  BY <1>1, <1>2, <1>3 DEF TypeOK, Failure
<1>5. Created'
  BY <1>1, <1>3 DEF Created, Early
<1>6. Calls'
  BY <1>1, <1>2, <1>3 DEF Calls
<1>7. Alone'
  BY <1>1, <1>2, <1>3 DEF Alone
<1>8. Losers'
  <2>1. Won => Won'
    BY <1>1, <1>2, WonStays
  <2>2. r # "lost"
    BY FilesAssumption DEF Token
  <2> QED
    BY <1>0, <1>1, <1>2, <1>3, <2>1, <2>2 DEF Losers
<1>9. TornByOne'
  BY <1>1, <1>2, <1>3, UnfinishedStays DEF TornByOne
<1> QED
  BY <1>4, <1>5, <1>6, <1>7, <1>8, <1>9

\* The .tmp that is there or a new file, which nobody else has open.
LEMMA OpenTmpFInv ==
  ASSUME FInv, NEW p \in Process, OpenTmp(p)
  PROVE  FInv'
<1> USE DEF FInv, Part
<1>1. PICK inode \in Token :
        /\ inode = IF tmp = None THEN p ELSE tmp
        /\ tmp' = inode
        /\ fd' = [fd EXCEPT ![p] = inode]
        /\ data' = [data EXCEPT ![inode] = Torn]
  BY DEF OpenTmp, Token, TypeOK
<1>2. /\ at[p] = "opening" /\ at' = [at EXCEPT ![p] = "writing"]
      /\ overlapped' = (overlapped \/ \E q \in Process \ {p} : InWrite(q))
      /\ UNCHANGED <<path, op, result>>
  BY DEF OpenTmp, Go
<1>3. /\ at'[p] = "writing" /\ fd'[p] = inode /\ data'[inode] = Torn
      /\ \A q \in Process \ {p} :
           at'[q] = at[q] /\ fd'[q] = fd[q] /\ (InWrite(q)' <=> InWrite(q))
      /\ \A i \in Token \ {inode} : data'[i] = data[i]
      /\ ~InWrite(p) /\ InWrite(p)'
  BY <1>1, <1>2 DEF TypeOK, InWrite
<1>4. /\ inode # path /\ inode # None
      /\ \A q \in Process : fd[q] # p
      /\ p \notin {path, tmp}
  BY <1>1, <1>2, FilesAssumption DEF TypeOK, Created, Early, Token
<1>5. TypeOK'
  <2>1. /\ path' = tmp' => path' = None
        /\ \A q \in Process : InWrite(q)' => fd'[q] # None
    BY <1>1, <1>2, <1>3, <1>4 DEF TypeOK
  <2>2. overlapped' \in BOOLEAN
    BY <1>2 DEF TypeOK
  <2> QED
    BY <1>1, <1>2, <2>1, <2>2 DEF TypeOK
<1>6. Created'
  <2> SUFFICES ASSUME NEW q \in Process, at'[q] \in Early
               PROVE  q \notin {path, inode} /\ \A u \in Process : fd'[u] # q
    BY <1>1, <1>2 DEF Created
  <2>1. q # p /\ at[q] \in Early
    BY <1>3 DEF Early
  <2> QED
    BY <1>1, <1>3, <2>1 DEF Created
<1>7. Calls'
  BY <1>2, <1>3 DEF Calls
<1>8. Alone'
  <2> SUFFICES ASSUME ~overlapped' PROVE Alone'
    BY DEF Alone
  <2>1. ~overlapped /\ \A q \in Process \ {p} : ~InWrite(q)
    BY <1>2
  <2>2. \A q \in Process : InWrite(q)' => q = p
    BY <1>3, <2>1
  <2>3. path # None => data'[path] \notin Part
    BY <1>3, <1>4, <2>1 DEF Alone, TypeOK
  <2>4. ASSUME NEW q \in Process, at'[q] = "loading"
        PROVE  fd'[q] # inode /\ data'[fd'[q]] \notin Part
    <3>1. q # p /\ at[q] = "loading" /\ fd'[q] = fd[q] /\ fd[q] \in Token
      BY <1>3, <2>4 DEF Calls, TypeOK
    <3>2. fd[q] # tmp /\ fd[q] # p /\ data[fd[q]] \notin Part
      BY <1>4, <2>1, <3>1 DEF Alone
    <3> QED
      BY <1>1, <1>3, <3>1, <3>2
  <2> QED
    BY <1>1, <1>2, <1>3, <2>2, <2>3, <2>4 DEF Alone
<1>9. Losers'
  <2>1. Won' <=> Won
    BY <1>2 DEF Won
  <2> QED
    BY <1>1, <1>2, <1>3, <1>4, <2>1 DEF Losers
<1>10. TornByOne'
  <2>1. Unfinished(inode)'
    BY <1>3 DEF Unfinished
  <2>2. CASE path # None /\ data'[path] \in Part
    <3>1. Unfinished(path)
      BY <1>3, <1>4, <2>2 DEF TornByOne, TypeOK
    <3>2. PICK q \in Process :
            /\ fd[q] = path
            /\ at[q] \in {"writing", "crashed"} \/ result[q] = "full"
      BY <3>1 DEF Unfinished
    <3>3. q # p
      BY <1>2, <3>2, FilesAssumption DEF Calls
    <3> QED
      BY <1>1, <1>2, <1>3, <2>1, <3>2, <3>3 DEF TornByOne, Unfinished
  <2>3. CASE path = None \/ data'[path] \notin Part
    BY <1>1, <1>2, <2>1, <2>3 DEF TornByOne
  <2> QED
    BY <2>2, <2>3
<1> QED
  BY <1>5, <1>6, <1>7, <1>8, <1>9, <1>10

\* The write, complete or not.
LEMMA WriteFInv ==
  ASSUME FInv, NEW p \in Process, Write(p)
  PROVE  FInv'
<1> USE DEF FInv, Part
<1>0. /\ result[p] = None /\ result = [result EXCEPT ![p] = None]
      /\ fd[p] \in Token /\ InWrite(p) /\ at[p] = "writing"
  BY DEF Write, Calls, TypeOK, InWrite
<1>1. UNCHANGED <<path, tmp, op, fd, overlapped>>
  BY DEF Write
<1>2. PICK c \in Part \cup {p}, place \in {"securing", "done"},
           r \in {None, "full"} :
        /\ data' = [data EXCEPT ![fd[p]] = c]
        /\ at' = [at EXCEPT ![p] = place]
        /\ result' = [result EXCEPT ![p] = r]
        /\ \/ c = p /\ place = "securing" /\ r = None
           \/ c \in Part /\ place = "done" /\ r = "full"
  BY <1>0 DEF Write, Return, Go
<1>3. /\ at'[p] = place /\ result'[p] = r /\ data'[fd[p]] = c
      /\ \A q \in Process \ {p} :
           /\ at'[q] = at[q] /\ result'[q] = result[q]
           /\ InWrite(q)' <=> InWrite(q)
      /\ \A i \in Token \ {fd[p]} : data'[i] = data[i]
  BY <1>0, <1>1, <1>2 DEF TypeOK, InWrite
<1>4. InWrite(p)' <=> place = "securing"
  BY <1>2, <1>3 DEF InWrite
<1>5. TypeOK'
  <2>1. data' \in [Token -> Token \cup Part]
    BY <1>2 DEF TypeOK, Token
  <2>2. \A q \in Process : InWrite(q)' => fd'[q] # None
    BY <1>0, <1>1, <1>3, FilesAssumption DEF TypeOK, Token
  <2> QED
    BY <1>1, <1>2, <2>1, <2>2 DEF TypeOK, Failure
<1>6. Created'
  BY <1>1, <1>2, <1>3 DEF Created, Early
<1>7. Calls'
  BY <1>1, <1>2, <1>3, FilesAssumption DEF Calls
<1>8. Alone'
  <2> SUFFICES ASSUME ~overlapped PROVE Alone'
    BY <1>1 DEF Alone
  <2>1. fd[p] = tmp /\ \A q \in Process : InWrite(q) => q = p
    BY <1>0 DEF Alone
  <2>2. path # None => data'[path] = data[path]
    BY <1>0, <1>3, <2>1 DEF TypeOK
  <2>3. ASSUME NEW q \in Process, at'[q] = "loading"
        PROVE  fd[q] # tmp /\ data'[fd[q]] \notin Part
    <3>1. q # p /\ at[q] = "loading" /\ fd[q] \in Token
      BY <1>2, <1>3, <2>3 DEF Calls, TypeOK
    <3> QED
      BY <1>3, <2>1, <3>1 DEF Alone
  <2>4. ASSUME NEW q \in Process, InWrite(q)'
        PROVE  /\ at'[q] # "cleaning" /\ fd[q] = tmp
               /\ at'[q] # "writing" => data'[tmp] = q
               /\ \A u \in Process : InWrite(u)' => u = q
    <3>1. q = p
      BY <1>3, <2>1, <2>4
    <3> QED
      BY <1>2, <1>3, <1>4, <2>1, <2>4, <3>1
  <2> QED
    BY <1>1, <2>2, <2>3, <2>4 DEF Alone
<1>9. Losers'
  <2>1. Won => Won'
    BY <1>0, <1>2, WonStays
  <2>2. r # "lost"
    BY FilesAssumption
  <2>3. Won' => Won
    BY <1>2, <1>3, FilesAssumption DEF Won
  <2> QED
    BY <1>0, <1>1, <1>2, <1>3, <1>4, <2>1, <2>2, <2>3 DEF Losers
<1>10. TornByOne'
  <2> SUFFICES ASSUME NEW i \in {path, tmp}, i # None, data'[i] \in Part
               PROVE  Unfinished(i)'
    BY <1>1 DEF TornByOne
  <2>1. CASE i = fd[p]
    <3>1. c \in Part /\ r = "full"
      BY <1>2, <1>3, <2>1, FilesAssumption
    <3> QED
      BY <1>1, <1>3, <2>1, <3>1 DEF Unfinished
  <2>2. CASE i # fd[p]
    <3>1. Unfinished(i)
      BY <1>3, <2>2 DEF TornByOne, TypeOK
    <3>2. PICK q \in Process \ {p} :
            /\ fd[q] = i
            /\ at[q] \in {"writing", "crashed"} \/ result[q] = "full"
      BY <2>2, <3>1 DEF Unfinished
    <3> QED
      BY <1>1, <1>3, <3>2 DEF Unfinished
  <2> QED
    BY <2>1, <2>2
<1> QED
  BY <1>5, <1>6, <1>7, <1>8, <1>9, <1>10

LEMMA ChmodFInv ==
  ASSUME FInv, NEW p \in Process, Chmod(p)
  PROVE  FInv'
<1> USE DEF FInv, Part
<1>1. PICK place \in {"cleaning", "renaming"} :
        /\ at[p] = "securing" /\ at' = [at EXCEPT ![p] = place]
        /\ place = "cleaning" <=> tmp = None
        /\ UNCHANGED <<path, tmp, data, op, fd, result, overlapped>>
  BY DEF Chmod, Go
<1>2. /\ at'[p] = place
      /\ \A q \in Process \ {p} : at'[q] = at[q]
      /\ \A q \in Process : InWrite(q)' <=> InWrite(q)
      /\ InWrite(p)
  BY <1>1 DEF TypeOK, InWrite
<1>3. TypeOK'
  BY <1>1, <1>2 DEF TypeOK
<1>4. Created' /\ Calls'
  BY <1>1, <1>2 DEF Created, Calls, Early
<1>5. Alone'
  <2> SUFFICES ASSUME ~overlapped PROVE Alone'
    BY <1>1 DEF Alone
  <2>1. /\ fd[p] = tmp /\ data[tmp] = p
        /\ \A q \in Process : InWrite(q) => q = p
    BY <1>1, <1>2 DEF Alone
  <2>2. place = "renaming"
    BY <1>1, <1>2, <2>1 DEF TypeOK
  <2> QED
    BY <1>1, <1>2, <2>1, <2>2 DEF Alone
<1>6. Losers'
  BY <1>1, <1>2 DEF Losers, Won
<1>7. TornByOne'
  BY <1>1, <1>2, UnfinishedStays DEF TornByOne
<1> QED
  BY <1>3, <1>4, <1>5, <1>6, <1>7

\* The .tmp becomes the file, whoever has written it.
LEMMA RenameFInv ==
  ASSUME FInv, NEW p \in Process, Rename(p)
  PROVE  FInv'
<1> USE DEF FInv, Part
<1>0. /\ at[p] = "renaming" /\ InWrite(p) /\ result[p] = None
      /\ UNCHANGED <<data, op, fd, overlapped>>
  BY DEF Rename, InWrite, Calls
<1>1. CASE tmp = None
  <2>1. at' = [at EXCEPT ![p] = "cleaning"] /\ UNCHANGED <<path, tmp, result>>
    BY <1>1 DEF Rename, Go
  <2>2. /\ at'[p] = "cleaning"
        /\ \A q \in Process \ {p} : at'[q] = at[q]
        /\ \A q \in Process : InWrite(q)' <=> InWrite(q)
    BY <1>0, <2>1 DEF TypeOK, InWrite
  <2>3. TypeOK'
    BY <1>0, <2>1, <2>2 DEF TypeOK
  <2>4. Created' /\ Calls'
    BY <1>0, <2>1, <2>2 DEF Created, Calls, Early
  <2>5. overlapped
    BY <1>0, <1>1 DEF Alone, TypeOK
  <2>6. Alone'
    BY <1>0, <2>5 DEF Alone
  <2>7. Losers'
    BY <1>0, <1>1, <2>1, <2>2 DEF Losers, Won
  <2>8. TornByOne'
    BY <1>0, <2>1, UnfinishedStays DEF TornByOne
  <2> QED
    BY <2>3, <2>4, <2>6, <2>7, <2>8
<1>2. CASE tmp # None
  <2>1. /\ at' = [at EXCEPT ![p] = "done"] /\ path' = tmp /\ tmp' = None
        /\ result' = [result EXCEPT ![p] = p]
    BY <1>2 DEF Rename, Return, Go
  <2>2. /\ at'[p] = "done" /\ result'[p] = p /\ ~InWrite(p)'
        /\ \A q \in Process \ {p} :
             /\ at'[q] = at[q] /\ result'[q] = result[q]
             /\ InWrite(q)' <=> InWrite(q)
    BY <1>0, <2>1 DEF TypeOK, InWrite
  <2>3. TypeOK'
    <3>1. result' \in [Process -> Token \cup Failure \cup {None, Cut}]
      BY <2>1 DEF TypeOK, Token
    <3>2. path' # tmp'
      BY <1>2, <2>1
    <3> QED
      BY <1>0, <2>1, <2>2, <3>1, <3>2 DEF TypeOK
  <2>4. Created' /\ Calls'
    BY <1>0, <1>2, <2>1, <2>2, FilesAssumption DEF Created, Calls, Early
  <2>5. Alone'
    <3> SUFFICES ASSUME ~overlapped PROVE Alone'
      BY <1>0 DEF Alone
    <3>1. data[tmp] = p /\ \A q \in Process : ~InWrite(q)'
      BY <1>0, <2>2 DEF Alone
    <3>2. data'[path'] \notin Part
      BY <1>0, <2>1, <3>1, FilesAssumption
    <3>3. ASSUME NEW q \in Process, at'[q] = "loading"
          PROVE  fd'[q] # tmp' /\ data'[fd'[q]] \notin Part
      BY <1>0, <2>1, <2>2, <3>3 DEF Alone, Calls
    <3> QED
      BY <3>1, <3>2, <3>3 DEF Alone
  <2>6. Losers'
    BY <1>2, <2>1, <2>2 DEF Losers, Won
  <2>7. TornByOne'
    <3>1. \A i : Unfinished(i) => Unfinished(i)'
      <4>1. TypeOK /\ Calls /\ at[p] \notin {"writing", "done", "crashed"}
        BY <1>0
      <4>2. \A q \in Process \ {p} : fd'[q] = fd[q] /\ result'[q] = result[q]
        BY <1>0, <2>2
      <4> QED
        BY <2>1, <4>1, <4>2, UnfinishedStays
    <3> QED
      BY <1>0, <1>2, <2>1, <3>1 DEF TornByOne
  <2> QED
    BY <2>3, <2>4, <2>5, <2>6, <2>7
<1> QED
  BY <1>1, <1>2

\* A writer cleans up only where another one has come between.
LEMMA CleanFInv ==
  ASSUME FInv, NEW p \in Process, Clean(p)
  PROVE  FInv'
<1> USE DEF FInv, Part
<1>1. /\ at[p] = "cleaning" /\ InWrite(p) /\ result[p] = None
      /\ tmp' = None
      /\ at' = [at EXCEPT ![p] = "done"]
      /\ result' = [result EXCEPT ![p] = "lost"]
      /\ UNCHANGED <<path, data, op, fd, overlapped>>
  BY DEF Clean, Return, Go, InWrite, Calls
<1>2. /\ at'[p] = "done" /\ result'[p] = "lost" /\ ~InWrite(p)'
      /\ \A q \in Process \ {p} :
           /\ at'[q] = at[q] /\ result'[q] = result[q]
           /\ InWrite(q)' <=> InWrite(q)
  BY <1>1 DEF TypeOK, InWrite
<1>3. overlapped /\ Won
  BY <1>1 DEF Alone, Losers
<1>4. TypeOK'
  BY <1>1, <1>2 DEF TypeOK, Failure
<1>5. Created' /\ Calls'
  BY <1>1, <1>2, FilesAssumption DEF Created, Calls, Early
<1>6. Alone'
  BY <1>1, <1>3 DEF Alone
<1>7. Losers'
  <2>1. Won'
    BY <1>1, <1>3, WonStays
  <2> QED
    BY <1>1, <1>3, <2>1 DEF Losers
<1>8. TornByOne'
  BY <1>1, <1>2, UnfinishedStays DEF TornByOne
<1> QED
  BY <1>4, <1>5, <1>6, <1>7, <1>8

LEMMA CrashFInv ==
  ASSUME FInv, NEW p \in Process, Crash(p)
  PROVE  FInv'
<1> USE DEF FInv, Part
<1>1. /\ at[p] \notin {"idle", "done", "crashed"}
      /\ at' = [at EXCEPT ![p] = "crashed"]
      /\ UNCHANGED <<path, tmp, data, op, fd, result, overlapped>>
  BY DEF Crash, Go
<1>2. /\ at'[p] = "crashed" /\ ~InWrite(p)'
      /\ \A q \in Process \ {p} :
           at'[q] = at[q] /\ (InWrite(q)' <=> InWrite(q))
  BY <1>1 DEF TypeOK, InWrite
<1>3. TypeOK'
  BY <1>1, <1>2 DEF TypeOK
<1>4. Created' /\ Calls'
  BY <1>1, <1>2 DEF Created, Calls, Early
<1>5. Alone'
  BY <1>1, <1>2 DEF Alone
<1>6. Losers'
  BY <1>1, <1>2 DEF Losers, Won
<1>7. TornByOne'
  <2> SUFFICES ASSUME NEW i, Unfinished(i) PROVE Unfinished(i)'
    BY <1>1 DEF TornByOne
  <2>1. PICK q \in Process :
          fd[q] = i /\ (at[q] \in {"writing", "crashed"} \/ result[q] = "full")
    BY DEF Unfinished
  <2>2. at'[q] \in {at[q], "crashed"}
    BY <1>2
  <2> QED
    BY <1>1, <2>1, <2>2 DEF Unfinished
<1> QED
  BY <1>3, <1>4, <1>5, <1>6, <1>7

LEMMA NextFInv == FInv /\ [Next]_vars => FInv'
<1> SUFFICES ASSUME FInv, [Next]_vars PROVE FInv'
  OBVIOUS
<1>1. CASE UNCHANGED vars
  BY <1>1 DEF vars, FInv, TypeOK, Created, Calls, Alone, Losers, Won,
              TornByOne, Unfinished, InWrite
<1>2. CASE Finished
  BY <1>1, <1>2 DEF Finished
<1>3. ASSUME NEW p \in Process,
             \/ OpenFile(p) \/ ReadFile(p) \/ AtomicWrite(p) \/ Crash(p)
      PROVE  FInv'
  BY <1>3, OpenFileFInv, ReadFileFInv, OpenTmpFInv, WriteFInv, ChmodFInv,
     RenameFInv, CleanFInv, CrashFInv DEF AtomicWrite
<1> QED
  BY <1>1, <1>2, <1>3, BeginFInv DEF Next

-----------------------------------------------------------------------------
(* The theorems.                                                           *)

\* Inodes, names and calls fit together, in every interleaving of any number
\* of readers and writers that may be killed or fail.
THEOREM FilesInvariant == Spec => []FInv
BY InitFInv, NextFInv, PTL DEF Spec

\* Every variable keeps its type and no inode has both names.
THEOREM FilesTypeCorrect == Spec => []TypeOK
<1>1. FInv => TypeOK
  BY DEF FInv
<1> QED
  BY <1>1, FilesInvariant, PTL

\* Writers that overlap lose only to one that succeeds, and when all have
\* returned the file holds a whole token.
THEOREM OverlappingWritersLeaveAToken == Spec => []OneWriterWins
<1>1. FInv => OneWriterWins
  <2> SUFFICES ASSUME FInv PROVE OneWriterWins
    OBVIOUS
  <2>1. \A p \in Process : result[p] = "lost" => Won
    BY DEF FInv, Losers
  <2>2. ASSUME \A p \in Process : at[p] \in {"idle", "done"} /\ result[p] # "full",
               Won
        PROVE  Current \in Token
    <3>1. path # None /\ path \in Token
      BY <2>2 DEF FInv, Losers, TypeOK
    <3>2. data[path] \notin Part
      BY <2>2, <3>1 DEF FInv, TornByOne, Unfinished
    <3>3. data[path] \in Token \cup Part
      BY <3>1 DEF FInv, TypeOK
    <3>4. path # None
      BY <3>1, FilesAssumption DEF Token
    <3> QED
      BY <3>2, <3>3, <3>4 DEF Current
  <2> QED
    BY <2>1, <2>2 DEF OneWriterWins, Won
<1> QED
  BY <1>1, FilesInvariant, PTL

\* With one writer at a time a token changes only in whole, by the rename of
\* the call that returns it, whatever step another one was killed at.
THEOREM OneWriterIsAtomic == Spec => WriteIsAtomic
<1> DEFINE Whole ==
      ~overlapped' /\ Current' # Current =>
        \E p \in Process : Current' = p /\ result[p] = None /\ result'[p] = p
<1>1. ASSUME FInv, Next PROVE Whole
  <2> SUFFICES ASSUME ~overlapped', Current' # Current PROVE Whole
    OBVIOUS
  <2> USE <1>1 DEF FInv
  <2>1. path' # path \/ data' # data
    BY DEF Current
  <2>2. PICK p \in Process : OpenTmp(p) \/ Write(p) \/ Rename(p)
    BY <1>1, <2>1 DEF Next, Begin, OpenFile, ReadFile, AtomicWrite, Chmod, Clean,
                Crash, Finished, vars
  <2>3. CASE OpenTmp(p)
    <3>1. path # None => path \in Token /\ path # tmp /\ path # p
      BY <2>3 DEF OpenTmp, TypeOK, Created, Early
    <3>2. path' = path /\ (path # None => data'[path] = data[path])
      BY <2>3, <3>1 DEF OpenTmp, TypeOK
    <3> QED
      BY <3>2 DEF Current
  <2>4. CASE Write(p)
    <3>1. ~overlapped /\ InWrite(p)
      BY <2>4 DEF Write, InWrite
    <3>2. path # None => path \in Token /\ path # fd[p]
      BY <3>1 DEF Alone, TypeOK
    <3>3. path' = path /\ (path # None => data'[path] = data[path])
      BY <2>4, <3>2 DEF Write, TypeOK
    <3> QED
      BY <3>3 DEF Current
  <2>5. CASE Rename(p)
    <3>1. ~overlapped /\ at[p] = "renaming" /\ InWrite(p) /\ data' = data
      BY <2>5 DEF Rename, InWrite
    <3>2. tmp # None /\ data[tmp] = p
      BY <3>1 DEF Alone, TypeOK
    <3>3. /\ path' = tmp /\ result' = [result EXCEPT ![p] = p]
          /\ result[p] = None
      BY <2>5, <3>1, <3>2 DEF Rename, Return, Calls
    <3>4. Current' = p /\ result'[p] = p
      BY <3>1, <3>2, <3>3 DEF Current, TypeOK
    <3> QED
      BY <3>3, <3>4
  <2> QED
    BY <2>2, <2>3, <2>4, <2>5
<1>2. FInv /\ [Next]_vars => [Whole]_vars
  BY <1>1
<1> QED
  BY <1>2, FilesInvariant, PTL DEF Spec, WriteIsAtomic

\* With one writer at a time a reader is refused only where there is no file.
THEOREM NoReaderIsRefused == Spec => ReadersAreServed
<1> DEFINE Served(p) ==
      /\ ~overlapped
      /\ result[p] = None /\ result'[p] = "invalid"
      => fd'[p] = None
<1>1. ASSUME FInv, Next, NEW p \in Process PROVE Served(p)
  <2> SUFFICES ASSUME ~overlapped, result[p] = None, result'[p] = "invalid"
               PROVE  fd'[p] = None
    OBVIOUS
  <2> USE <1>1 DEF FInv
  <2>1. "invalid" \notin {"lost", "full"} \cup Process \cup {None}
    BY FilesAssumption
  <2>2. PICK q \in Process :
          OpenFile(q) \/ ReadFile(q) \/ Write(q) \/ Rename(q) \/ Clean(q)
    BY <2>1, <1>1 DEF Next, Begin, AtomicWrite, OpenTmp, Chmod, Crash, Finished,
                      vars
  <2>3. CASE Write(q) \/ Rename(q) \/ Clean(q)
    BY <2>1, <2>3 DEF Write, Rename, Clean, Return, TypeOK
  <2>4. CASE OpenFile(q)
    BY <2>1, <2>4 DEF OpenFile, NoToken, Return, TypeOK
  <2>5. CASE ReadFile(q)
    <3>1. /\ at[q] = "loading" /\ fd[q] \in Token /\ data[fd[q]] \notin Part
          /\ data[fd[q]] \in Token \cup Part
      BY <2>5 DEF ReadFile, Alone, Calls, TypeOK
    <3>2. data[fd[q]] # "invalid"
      BY <3>1, FilesAssumption DEF Token
    <3> QED
      BY <2>1, <2>5, <3>1, <3>2 DEF ReadFile, Return, TypeOK, Part
  <2> QED
    BY <2>2, <2>3, <2>4, <2>5
<1>2. FInv /\ [Next]_vars => [\A p \in Process : Served(p)]_vars
  BY <1>1
<1> QED
  BY <1>2, FilesInvariant, PTL DEF Spec, ReadersAreServed

-----------------------------------------------------------------------------
(* The register.                                                           *)

\* Which calls get where.
Kinds ==
  \A p \in Process :
    /\ at[p] \in {"reading", "loading"} => op[p] \in {"ensure", "read"}
    /\ at[p] = "opening" \/ InWrite(p) => op[p] \in {"ensure", "rotate"}

LEMMA InitKinds == Init => Kinds
BY DEF Init, Kinds, InWrite

LEMMA NextKinds == TypeOK /\ Kinds /\ [Next]_vars => Kinds'
<1> SUFFICES ASSUME TypeOK, Kinds, [Next]_vars PROVE Kinds'
  OBVIOUS
<1> USE DEF TypeOK, Kinds, InWrite
<1>1. CASE UNCHANGED vars
  BY <1>1 DEF vars
<1>2. ASSUME NEW p \in Process, NEW o \in {"ensure", "rotate", "read"},
             Begin(p, o)
      PROVE  Kinds'
  BY <1>2 DEF Begin, Go
<1>3. ASSUME NEW p \in Process, OpenFile(p) \/ ReadFile(p)
      PROVE  Kinds'
  BY <1>3 DEF OpenFile, ReadFile, NoToken, Return, Go
<1>4. ASSUME NEW p \in Process, AtomicWrite(p)
      PROVE  Kinds'
  BY <1>4 DEF AtomicWrite, OpenTmp, Write, Chmod, Rename, Clean, Return, Go
<1>5. ASSUME NEW p \in Process, Crash(p)
      PROVE  Kinds'
  BY <1>5 DEF Crash, Go
<1>6. CASE Finished
  BY <1>6 DEF Finished, vars
<1> QED
  BY <1>1, <1>2, <1>3, <1>4, <1>5, <1>6 DEF Next

\* What a step of p does to the mapped variables, when it leaves the inodes
\* alone that others read.
LEMMA OneMoves ==
  ASSUME TypeOK, NEW p \in Process, NEW place,
         at' = [at EXCEPT ![p] = place],
         \A q \in Process \ {p} :
           op'[q] = op[q] /\ (at[q] = "loading" =>
                                fd'[q] = fd[q] /\ data'[fd[q]] = data[fd[q]])
  PROVE  /\ Places' = [Places EXCEPT ![p] = Progress(p)']
         /\ Looks' = [Looks EXCEPT ![p] = Seen(p)']
<1>1. \A q \in Process \ {p} : at'[q] = at[q]
  BY DEF TypeOK
<1>2. \A q \in Process \ {p} :
        Progress(q)' = Progress(q) /\ Seen(q)' = Seen(q)
  BY <1>1 DEF Progress, Seen
<1> QED
  BY <1>2 DEF Places, Looks

\* The call begins, the file is opened, and what it holds is read.
LEMMA BeginIsCall ==
  ASSUME FInv, NEW p \in Process, NEW o \in {"ensure", "rotate", "read"},
         Begin(p, o)
  PROVE  T!Call(p, o)
<1>0. TypeOK
  BY DEF FInv
<1>1. PICK place \in {"opening", "reading"} :
        /\ at[p] = "idle" /\ at' = [at EXCEPT ![p] = place]
        /\ place = "opening" <=> o = "rotate"
        /\ op' = [op EXCEPT ![p] = o]
        /\ UNCHANGED <<path, tmp, data, fd, result, overlapped>>
  BY DEF Begin, Go
<1>2. /\ Places' = [Places EXCEPT ![p] = Progress(p)']
      /\ Looks' = [Looks EXCEPT ![p] = Seen(p)']
  BY <1>0, <1>1, OneMoves DEF TypeOK
<1>3. /\ Places[p] = "idle" /\ Progress(p)' = "called"
      /\ Looks[p] = None /\ Seen(p)' = None
  BY <1>0, <1>1 DEF Places, Looks, Progress, Seen, TypeOK
<1>4. Looks' = Looks
  BY <1>2, <1>3 DEF Looks
<1>5. Current' = Current
  BY <1>1 DEF Current
<1> QED
  BY <1>1, <1>2, <1>3, <1>4, <1>5 DEF T!Call

LEMMA OpenFileLooks ==
  ASSUME FInv, Kinds, ~overlapped, NEW p \in Process, OpenFile(p)
  PROVE  T!Look(p) \/ T!Refuse(p)
<1>0. TypeOK
  BY DEF FInv
<1>1. /\ at[p] = "reading" /\ op[p] \in {"ensure", "read"}
      /\ fd' = [fd EXCEPT ![p] = path]
      /\ UNCHANGED <<path, tmp, data, op, overlapped>>
  BY DEF OpenFile, Kinds
<1>2. /\ Places[p] = "called" /\ Looks[p] = None
      /\ Current' = Current
  BY <1>1 DEF Places, Looks, Progress, Seen, Current
<1>3. ASSUME NEW place, at' = [at EXCEPT ![p] = place]
      PROVE  /\ Places' = [Places EXCEPT ![p] = Progress(p)']
             /\ Looks' = [Looks EXCEPT ![p] = Seen(p)']
  BY <1>0, <1>1, <1>3, OneMoves DEF TypeOK
<1>4. CASE path = None /\ op[p] = "read"
  <2>1. at' = [at EXCEPT ![p] = "done"]
        /\ result' = [result EXCEPT ![p] = "invalid"]
    BY <1>4 DEF OpenFile, NoToken, Return, Go
  <2>2. Progress(p)' = "done" /\ Seen(p)' = None
    BY <1>0, <2>1 DEF Progress, Seen, TypeOK
  <2>3. T!Return(p, "invalid")
    BY <1>1, <1>3, <2>1, <2>2 DEF T!Return, T!Leave
  <2>4. Current = None
    BY <1>4 DEF Current
  <2> QED
    BY <1>1, <1>2, <1>4, <2>3, <2>4 DEF T!Refuse
<1>5. CASE path = None /\ op[p] = "ensure"
  <2>1. at' = [at EXCEPT ![p] = "opening"] /\ result' = result
    BY <1>5 DEF OpenFile, NoToken, Go
  <2>2. Progress(p)' = "looked" /\ Seen(p)' = None
    BY <1>0, <1>1, <1>5, <2>1 DEF Progress, Seen, TypeOK
  <2>3. Current = None
    BY <1>5 DEF Current
  <2> QED
    BY <1>1, <1>2, <1>3, <2>1, <2>2, <2>3 DEF T!Look
<1>6. CASE path # None
  <2>1. at' = [at EXCEPT ![p] = "loading"] /\ result' = result
    BY <1>6 DEF OpenFile, Go
  <2>2. Progress(p)' = "looked" /\ Seen(p)' = Current
    BY <1>0, <1>1, <1>6, <2>1 DEF Progress, Seen, Current, TypeOK
  <2> QED
    BY <1>1, <1>2, <1>3, <2>1, <2>2 DEF T!Look
<1> QED
  BY <1>1, <1>4, <1>5, <1>6

LEMMA ReadFileAnswers ==
  ASSUME FInv, ~overlapped, NEW p \in Process, ReadFile(p)
  PROVE  T!Answer(p)
<1>0. TypeOK
  BY DEF FInv
<1>1. /\ at[p] = "loading" /\ fd[p] \in Token
      /\ data[fd[p]] \notin Part /\ data[fd[p]] \in Token \cup Part
  BY DEF ReadFile, FInv, Alone, Calls, TypeOK
<1>2. /\ at' = [at EXCEPT ![p] = "done"]
      /\ result' = [result EXCEPT ![p] = data[fd[p]]]
      /\ UNCHANGED <<path, tmp, data, op, fd, overlapped>>
  BY <1>1 DEF ReadFile, Return, Go, Part
<1>3. /\ Places' = [Places EXCEPT ![p] = Progress(p)']
      /\ Looks' = [Looks EXCEPT ![p] = Seen(p)']
  BY <1>0, <1>2, OneMoves
<1>4. /\ Places[p] = "looked" /\ Looks[p] = data[fd[p]]
      /\ Progress(p)' = "done" /\ Seen(p)' = None
  BY <1>0, <1>1, <1>2 DEF Places, Looks, Progress, Seen, TypeOK
<1>5. Looks[p] # None
  BY <1>1, <1>4, FilesAssumption DEF Token
<1>6. Current' = Current
  BY <1>2 DEF Current
<1> QED
  BY <1>2, <1>3, <1>4, <1>5, <1>6 DEF T!Answer, T!Return, T!Leave

\* Nothing that can be seen of p, the file, or what others have open changes.
LEMMA NotSeen ==
  ASSUME TypeOK, NEW p \in Process, NEW place,
         at' = [at EXCEPT ![p] = place], UNCHANGED <<op, result>>,
         Progress(p)' = Progress(p), at[p] # "loading", place # "loading",
         Current' = Current,
         \A q \in Process \ {p} :
           at[q] = "loading" =>
             fd'[q] = fd[q] /\ data'[fd[q]] = data[fd[q]]
  PROVE  UNCHANGED T!vars
<1>1. /\ Places' = [Places EXCEPT ![p] = Progress(p)']
      /\ Looks' = [Looks EXCEPT ![p] = Seen(p)']
  BY OneMoves
<1>2. Seen(p)' = None /\ Looks[p] = None /\ Places[p] = Progress(p)
  BY DEF Seen, Looks, Places, TypeOK
<1>3. Places' = Places /\ Looks' = Looks
  BY <1>1, <1>2 DEF Places, Looks
<1> QED
  BY <1>3 DEF T!vars

\* A writer that is alone has an inode of its own until it renames it.
LEMMA WriterHidden ==
  ASSUME FInv, Kinds, ~overlapped', NEW p \in Process,
         OpenTmp(p) \/ Chmod(p)
  PROVE  UNCHANGED T!vars
<1>0. TypeOK /\ ~overlapped
  <2>1. overlapped => overlapped'
    BY Zenon DEF OpenTmp, Chmod
  <2> QED
    BY <2>1 DEF FInv
<1>1. CASE OpenTmp(p)
  <2>1. PICK i \in Token : /\ i \in {p, tmp} /\ i # None
                           /\ fd' = [fd EXCEPT ![p] = i]
                           /\ data' = [data EXCEPT ![i] = Torn]
    BY <1>0, <1>1, FilesAssumption DEF OpenTmp, TypeOK, Token
  <2>2. /\ at[p] = "opening" /\ at' = [at EXCEPT ![p] = "writing"]
        /\ UNCHANGED <<path, op, result>>
    BY <1>1 DEF OpenTmp, Go
  <2>3. /\ path # i
        /\ \A q \in Process : at[q] = "loading" => fd[q] # i
    BY <1>0, <2>1, <2>2 DEF FInv, Created, Early, Alone, TypeOK
  <2>4. Current' = Current
    BY <1>0, <2>1, <2>2, <2>3 DEF Current, TypeOK
  <2>5. \A q \in Process \ {p} :
          at[q] = "loading" =>
            fd'[q] = fd[q] /\ data'[fd[q]] = data[fd[q]]
    BY <1>0, <2>1, <2>3 DEF TypeOK
  <2>6. Progress(p)' = Progress(p)
    BY <1>0, <2>2 DEF Progress, TypeOK
  <2> QED
    BY <1>0, <2>2, <2>4, <2>5, <2>6, NotSeen
<1>2. CASE Chmod(p)
  <2>1. /\ at[p] = "securing" /\ at' = [at EXCEPT ![p] = "renaming"]
        /\ UNCHANGED <<path, data, op, fd, result>>
    BY <1>0, <1>2 DEF Chmod, Go, FInv, Alone, InWrite, TypeOK
  <2>2. Progress(p)' = Progress(p)
    BY <1>0, <2>1 DEF Progress, TypeOK
  <2>3. Current' = Current
    BY <2>1 DEF Current
  <2> QED
    BY <1>0, <2>1, <2>2, <2>3, NotSeen
<1> QED
  BY <1>1, <1>2

\* A writer that has come so far may replace the token.
LEMMA WriterMay ==
  ASSUME FInv, Kinds, NEW p \in Process, InWrite(p)
  PROVE  T!MayReplace(p) /\ Looks[p] = None
<1>1. op[p] \in {"ensure", "rotate"}
  BY DEF Kinds
<1>2. /\ Places[p] = IF op[p] = "ensure" THEN "looked" ELSE "called"
      /\ Looks[p] = None
  BY DEF Places, Looks, Progress, Seen, InWrite
<1> QED
  BY <1>1, <1>2 DEF T!MayReplace

LEMMA WriteIsHiddenOrFails ==
  ASSUME FInv, Kinds, ~overlapped, NEW p \in Process, Write(p)
  PROVE  UNCHANGED T!vars \/ T!Fail(p)
<1>0. /\ TypeOK /\ at[p] = "writing" /\ InWrite(p)
      /\ UNCHANGED <<path, op, fd>>
  BY DEF FInv, Write, InWrite
<1>1. fd[p] = tmp /\ fd[p] \in Token /\ fd[p] # path
  BY <1>0 DEF FInv, Alone, TypeOK
<1>2. PICK c : data' = [data EXCEPT ![fd[p]] = c]
  BY DEF Write
<1>3. \A q \in Process \ {p} :
        at[q] = "loading" =>
          fd'[q] = fd[q] /\ data'[fd[q]] = data[fd[q]]
  BY <1>0, <1>1, <1>2 DEF FInv, Alone, TypeOK
<1>4. Current' = Current
  BY <1>0, <1>1, <1>2 DEF Current, TypeOK
<1>5. CASE at' = [at EXCEPT ![p] = "securing"] /\ UNCHANGED result
  <2>1. Progress(p)' = Progress(p)
    BY <1>0, <1>5 DEF Progress, TypeOK
  <2> QED
    BY <1>0, <1>3, <1>4, <1>5, <2>1, NotSeen
<1>6. CASE /\ at' = [at EXCEPT ![p] = "done"]
           /\ result' = [result EXCEPT ![p] = "full"]
  <2>1. /\ Places' = [Places EXCEPT ![p] = Progress(p)']
        /\ Looks' = [Looks EXCEPT ![p] = Seen(p)']
    BY <1>0, <1>3, <1>6, OneMoves
  <2>2. Progress(p)' = "done" /\ Seen(p)' = None
    BY <1>0, <1>6 DEF Progress, Seen, TypeOK
  <2> QED
    BY <1>0, <1>4, <1>6, <2>1, <2>2, WriterMay
       DEF T!Fail, T!Return, T!Leave
<1> QED
  BY <1>5, <1>6 DEF Write, Return, Go

LEMMA RenameReplaces ==
  ASSUME FInv, Kinds, ~overlapped, NEW p \in Process, Rename(p)
  PROVE  T!Replace(p)
<1>0. TypeOK /\ at[p] = "renaming" /\ InWrite(p)
  BY DEF FInv, Rename, InWrite
<1>1. fd[p] = tmp /\ tmp \in Token /\ tmp # None /\ data[tmp] = p
  BY <1>0 DEF FInv, Alone, TypeOK
<1>2. /\ path' = tmp
      /\ at' = [at EXCEPT ![p] = "done"]
      /\ result' = [result EXCEPT ![p] = p]
      /\ UNCHANGED <<data, op, fd>>
  BY <1>1 DEF Rename, Return, Go
<1>3. /\ Places' = [Places EXCEPT ![p] = Progress(p)']
      /\ Looks' = [Looks EXCEPT ![p] = Seen(p)']
  BY <1>0, <1>2, OneMoves
<1>4. Progress(p)' = "done" /\ Seen(p)' = None
  BY <1>0, <1>2 DEF Progress, Seen, TypeOK
<1>5. Current' = p
  BY <1>1, <1>2 DEF Current
<1> QED
  BY <1>0, <1>2, <1>3, <1>4, <1>5, WriterMay DEF T!Replace, T!Return, T!Leave

\* A process is killed: the .tmp it leaves is not seen.
LEMMA CrashIsSeenAsDeath ==
  ASSUME FInv, ~overlapped, NEW p \in Process, Crash(p)
  PROVE  T!Die(p)
<1>0. TypeOK
  BY DEF FInv
<1>1. /\ at[p] \notin {"idle", "done", "crashed"}
      /\ at' = [at EXCEPT ![p] = "crashed"]
      /\ UNCHANGED <<path, tmp, data, op, fd, result, overlapped>>
  BY DEF Crash, Go
<1>2. /\ Places' = [Places EXCEPT ![p] = Progress(p)']
      /\ Looks' = [Looks EXCEPT ![p] = Seen(p)']
  BY <1>0, <1>1, OneMoves
<1>3. /\ Places[p] \in {"called", "looked"}
      /\ Progress(p)' = "crashed" /\ Seen(p)' = None
  BY <1>0, <1>1 DEF Places, Progress, Seen, TypeOK
<1>4. Current' = Current
  BY <1>1 DEF Current
<1>5. result' = [result EXCEPT ![p] = result[p]]
  BY <1>0, <1>1 DEF TypeOK
<1> QED
  BY <1>1, <1>2, <1>3, <1>4, <1>5 DEF T!Die, T!Leave

LEMMA StepIsOfRegister ==
  ASSUME FInv, Kinds, [Next]_vars
  PROVE  [overlapped' \/ T!Next]_(T!vars)
<1> SUFFICES ASSUME ~overlapped' PROVE T!Next \/ UNCHANGED T!vars
  OBVIOUS
<1>1. CASE UNCHANGED vars \/ Finished
  BY <1>1 DEF Finished, vars, T!vars, Current, Places, Looks, Progress, Seen
<1>2. ASSUME NEW p \in Process, NEW o \in {"ensure", "rotate", "read"},
             Begin(p, o)
      PROVE  T!Next
  BY <1>2, BeginIsCall DEF T!Next
<1>3. ASSUME NEW p \in Process,
             \/ OpenFile(p) \/ ReadFile(p) \/ AtomicWrite(p) \/ Crash(p)
      PROVE  T!Next \/ UNCHANGED T!vars
  <2>1. ~overlapped
    BY <1>3 DEF OpenFile, ReadFile, AtomicWrite, OpenTmp, Write, Chmod, Rename,
                Clean, Crash
  <2>2. ~Clean(p)
    BY <2>1 DEF Clean, FInv, Alone, InWrite
  <2> QED
    BY <1>3, <2>1, <2>2, OpenFileLooks, ReadFileAnswers, WriterHidden,
       WriteIsHiddenOrFails, RenameReplaces, CrashIsSeenAsDeath
       DEF AtomicWrite, T!Next
<1> QED
  BY <1>1, <1>2, <1>3 DEF Next

LEMMA InitIsOfRegister == Init => T!Init
<1> SUFFICES ASSUME Init PROVE T!Init
  OBVIOUS
<1>1. Current = path
  BY FilesAssumption DEF Init, Current, Token
<1>2. /\ Places = [p \in Process |-> "idle"]
      /\ Looks = [p \in Process |-> None]
  BY DEF Init, Places, Looks, Progress, Seen
<1> QED
  BY <1>1, <1>2 DEF Init, T!Init

\* As long as no two processes write at once, the token file is a register
\* that is read and replaced in one step, whatever its users' system calls
\* interleave and wherever one of them is killed.
THEOREM FileImplementsRegister == Spec => FileIsARegister
<1>1. Init => Kinds
  BY InitKinds
<1>2. FInv /\ Kinds /\ [Next]_vars => Kinds'
  BY NextKinds DEF FInv
<1>3. FInv /\ Kinds /\ [Next]_vars => [overlapped' \/ T!Next]_(T!vars)
  BY StepIsOfRegister
<1> QED
  BY <1>1, <1>2, <1>3, InitIsOfRegister, FilesInvariant, PTL
     DEF Spec, FileIsARegister
=============================================================================
