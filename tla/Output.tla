------------------------------- MODULE Output --------------------------------
(***************************************************************************)
(* What two commands write to the terminal: `logs` the end of the service *)
(* log (TailLog), `show` the QR code of the link (PrintQR).                *)
(*                                                                         *)
(* The service goes on logging while TailLog reads.  A line is known by    *)
(* its number and reaches the file in one write.  What matters of a line   *)
(* is whether it exceeds the 64 KiB that a bufio.Scanner takes by default: *)
(* KataGo's and cloudflared's lines, which the service logs, may.          *)
(***************************************************************************)
EXTENDS Integers, Sequences, FiniteSetsExt

CONSTANTS
  MaxLine,      \* bound: lines in the log
  MaxAsked,     \* bound: the argument of -lines
  MaxSide,      \* bound: the modules along one side of a QR code
  DefaultLines  \* lines shown when the argument is not positive (80)

ASSUME OutputAssumption ==
  /\ MaxLine \in Nat /\ MaxAsked \in Nat /\ MaxSide \in Nat
  /\ DefaultLines \in Nat \ {0}

VARIABLES
  at,       \* where the command is
  written,  \* how many lines the log has
  long,     \* those too long for the scanner
  lines,    \* the ring's size: how many lines are asked for
  opened,   \* how many lines the log had when the command opened it
  buffer,   \* the ring of the last lines read (0: nothing yet)
  count,    \* how many lines have been read
  printed,  \* the lines printed
  bitmap,   \* the QR code's modules, row by row; TRUE is dark
  drawn     \* the characters drawn, line by line

tail == <<written, long, lines, opened, buffer, count, printed>>
qr == <<bitmap, drawn>>
vars == <<at, written, long, lines, opened, buffer, count, printed, bitmap, drawn>>

Least(a, b) == Min({a, b})

Square(side) == [0..side-1 -> [0..side-1 -> BOOLEAN]]

Init ==
  /\ at = "shell"
  /\ written = 0 /\ long = {}
  /\ lines = 0 /\ opened = 0 /\ buffer = <<>> /\ count = 0 /\ printed = <<>>
  /\ bitmap = <<>> /\ drawn = <<>>

-----------------------------------------------------------------------------
(* The log.                                                                *)

\* The service logs a line.
Log ==
  /\ written < MaxLine
  /\ written' = written + 1
  /\ long' \in {long, long \cup {written + 1}}
  /\ UNCHANGED <<at, lines, opened, buffer, count, printed, qr>>

\* TailLog up to its loop, with the argument n; or there is no log to open.
Open(n) ==
  /\ at = "shell"
  /\ lines' = IF n <= 0 THEN DefaultLines ELSE n
  /\ opened' = written
  /\ \/ at' = "scanning" /\ buffer' = [i \in 0..lines'-1 |-> 0]
     \/ at' = "failed" /\ UNCHANGED buffer
  /\ UNCHANGED <<written, long, count, printed, qr>>

\* scanner.Scan finds a line.
Scan ==
  /\ at = "scanning" /\ count < written /\ count + 1 \notin long
  /\ buffer' = [buffer EXCEPT ![count % lines] = count + 1]
  /\ count' = count + 1
  /\ UNCHANGED <<at, written, long, lines, opened, printed, qr>>

\* Mutant: a line that the scanner cannot take ends the loop like the end of
\* the file does; scanner.Err is not asked.
ScanFails_Ignored ==
  /\ at = "scanning" /\ count < written /\ count + 1 \in long
  /\ at' = "printing"
  /\ UNCHANGED <<tail, qr>>

\* scanner.Err: the line is too long.
ScanFails ==
  /\ at = "scanning" /\ count < written /\ count + 1 \in long
  /\ at' = "failed"
  /\ UNCHANGED <<tail, qr>>

ScanEnds ==
  /\ at = "scanning" /\ count = written
  /\ at' = "printing"
  /\ UNCHANGED <<tail, qr>>

\* Mutant: the ring is taken to have gone round from the start.
Start_AlwaysRound == count % lines

\* The oldest line in the ring.
Start == IF count > lines THEN count % lines ELSE 0

PrintLine ==
  LET i == Len(printed) IN
  /\ at = "printing" /\ i < Least(count, lines)
  /\ printed' = Append(printed, buffer[(Start + i) % lines])
  /\ UNCHANGED <<at, written, long, lines, opened, buffer, count, qr>>

PrintEnds ==
  /\ at = "printing" /\ Len(printed) = Least(count, lines)
  /\ at' = "done"
  /\ UNCHANGED <<tail, qr>>

-----------------------------------------------------------------------------
(* The QR code.                                                            *)

\* code.Bitmap; its margin makes a code no special case.
Encode(b) ==
  /\ at = "shell"
  /\ bitmap' = b /\ at' = "drawing"
  /\ UNCHANGED <<tail, drawn>>

Side == Cardinality(DOMAIN bitmap)

\* The half blocks that show two modules, one above the other.
Glyph(top, bottom) ==
  CASE top /\ bottom -> "full"
    [] top /\ ~bottom -> "upper"
    [] ~top /\ bottom -> "lower"
    [] OTHER -> " "

\* Mutant: the loop stops before a last row that has no row below it.
HasRow_PairsOnly(y) == y + 1 < Side

HasRow(y) == y < Side

\* Two rows of modules are one line; below the last row all is light.
Row ==
  LET y == 2 * Len(drawn)
      bottom(x) == y + 1 < Side /\ bitmap[y + 1][x]
  IN
  /\ at = "drawing" /\ HasRow(y)
  /\ drawn' = Append(drawn, [x \in 0..Side-1 |-> Glyph(bitmap[y][x], bottom(x))])
  /\ UNCHANGED <<at, tail, bitmap>>

RowsEnd ==
  /\ at = "drawing" /\ ~HasRow(2 * Len(drawn))
  /\ at' = "done"
  /\ UNCHANGED <<tail, qr>>

-----------------------------------------------------------------------------

Finished == at \in {"done", "failed"} /\ written = MaxLine /\ UNCHANGED vars

Next ==
  \/ Log
  \/ \E n \in 0..MaxAsked : Open(n)
  \/ Scan \/ ScanFails \/ ScanEnds \/ PrintLine \/ PrintEnds
  \/ \E side \in 1..MaxSide : \E b \in Square(side) : Encode(b)
  \/ Row \/ RowsEnd
  \/ Finished

Spec == Init /\ [][Next]_vars

-----------------------------------------------------------------------------
(* Properties.                                                             *)

TailTypeOK ==
  /\ at \in {"shell", "scanning", "printing", "drawing", "done", "failed"}
  /\ written \in 0..MaxLine /\ long \subseteq 1..written
  /\ lines \in 0..Max({MaxAsked, DefaultLines})
  /\ opened \in 0..written /\ count \in 0..written
  /\ at \in {"scanning", "printing"} => buffer \in [0..lines-1 -> 0..written]
  /\ printed \in Seq(1..written)

QRTypeOK ==
  /\ bitmap = <<>> \/ \E side \in 1..MaxSide : bitmap \in Square(side)
  /\ drawn \in Seq([0..Side-1 -> {"full", "upper", "lower", " "}])

\* Every variable keeps its type, and what is printed are lines of the log, never
\* a slot of the ring that nothing was read into.
TypeOK == TailTypeOK /\ QRTypeOK

\* "Show recent service logs": what `logs` prints is the end of the log, in
\* order and without a gap, as it was at a moment while the command ran.
LogsShowTheEnd ==
  at = "done" /\ bitmap = <<>> =>
    \E n \in opened..written :
      LET shown == Least(n, lines) IN
      printed = [k \in 1..shown |-> n - shown + k]

\* The modules that a character shows dark: the upper (0), the lower (1).
Ink(glyph) ==
  CASE glyph = "full" -> {0, 1}
    [] glyph = "upper" -> {0}
    [] glyph = "lower" -> {1}
    [] OTHER -> {}

\* The dark modules, by row and column.
Dark == {p \in (0..Side-1) \X (0..Side-1) : bitmap[p[1]][p[2]]}

DarkDrawn ==
  {p \in (0..2*Len(drawn)-1) \X (0..Side-1) :
     p[1] % 2 \in Ink(drawn[p[1] \div 2 + 1][p[2]])}

\* "Show the current link and QR code": what is drawn shows every dark module
\* and no other one, whether the code's side is odd or even.
QRShowsTheCode == at = "done" /\ bitmap # <<>> => DarkDrawn = Dark
=============================================================================
