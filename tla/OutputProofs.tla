---------------------------- MODULE OutputProofs -----------------------------
(***************************************************************************)
(* Proofs about module Output, for logs of any length and with any lines   *)
(* too long for the scanner, for any argument of -lines and for QR codes   *)
(* of any size.                                                            *)
(***************************************************************************)
EXTENDS Output, SequenceTheorems, FiniteSetTheorems, TLAPS

-----------------------------------------------------------------------------
(* Arithmetic.                                                             *)

LEMMA LeastIs ==
  ASSUME NEW a \in Int, NEW b \in Int
  PROVE  Least(a, b) = IF a <= b THEN a ELSE b
BY DEF Least, Min

\* Every number is a multiple of n and a remainder.
LEMMA Division ==
  ASSUME NEW n \in Nat \ {0}, NEW a \in Int
  PROVE  \E q \in Int, r \in 0..n-1 : a = n * q + r /\ a % n = r
<1>1. /\ a \div n \in Int
      /\ a % n \in 0..n-1
      /\ a = n * (a \div n) + (a % n)
  OBVIOUS
<1> QED
  BY <1>1, Zenon

\* A remainder in range is the remainder.
LEMMA RemainderIs ==
  ASSUME NEW n \in Nat \ {0}, NEW q \in Int, NEW r \in 0..n-1
  PROVE  (n * q + r) % n = r
OBVIOUS

LEMMA NoMultipleBetween ==
  ASSUME NEW n \in Nat \ {0}, NEW q \in Int
  PROVE  ~(0 < n * q /\ n * q < n)
<1>1. CASE q <= 0
  BY <1>1
<1>2. CASE q >= 1
  BY <1>2
<1> QED
  BY <1>1, <1>2

\* A slot of the ring is not reused by the n - 1 lines that follow.
LEMMA SlotsDiffer ==
  ASSUME NEW n \in Nat \ {0}, NEW i \in Nat, NEW j \in Nat,
         i < j, j - i < n
  PROVE  i % n # j % n
<1>0. i \in Int /\ j \in Int
  OBVIOUS
<1>1. PICK p \in Int, d \in 0..n-1 : i = n * p + d /\ i % n = d
  BY <1>0, Division, Zenon
<1>2. PICK q \in Int, e \in 0..n-1 : j = n * q + e /\ j % n = e
  BY <1>0, Division, Zenon
<1>3. SUFFICES ASSUME d = e PROVE FALSE
  BY <1>1, <1>2
<1>4. n * (q - p) = n * q - n * p
  OBVIOUS
<1>5. n * q - n * p = j - i
  <2>1. n * p \in Int /\ n * q \in Int
    OBVIOUS
  <2> QED
    BY <1>1, <1>2, <1>3, <2>1
<1>6. q - p \in Int
  OBVIOUS
<1> QED
  BY <1>4, <1>5, <1>6, NoMultipleBetween

\* Where line c - n + i is, counted from where line c is.
LEMMA SlotAfter ==
  ASSUME NEW n \in Nat \ {0}, NEW c \in Nat, NEW i \in Nat
  PROVE  ((c % n) + i) % n = (c - n + i) % n
<1>0. /\ c \in Int
      /\ \A d \in 0..n-1 : d + i \in Int
  OBVIOUS
<1>1. PICK p \in Int, d \in 0..n-1 : c = n * p + d /\ c % n = d
  BY <1>0, Division, Zenon
<1>2. PICK q \in Int, e \in 0..n-1 : d + i = n * q + e /\ (d + i) % n = e
  BY <1>0, Division, Zenon
<1>3. n * (p - 1 + q) = n * p - n + n * q
  OBVIOUS
<1>4. c - n + i = n * (p - 1 + q) + e
  <2>1. n * p \in Int /\ n * q \in Int
    OBVIOUS
  <2> QED
    BY <1>1, <1>2, <1>3, <2>1
<1>5. (c - n + i) % n = e
  <2>1. p - 1 + q \in Int
    OBVIOUS
  <2> QED
    BY <1>4, <2>1, RemainderIs
<1> QED
  BY <1>1, <1>2, <1>5

-----------------------------------------------------------------------------
(* The inductive invariant.                                                *)

\* The commands do not meet: one has a ring and no bitmap, the other a bitmap.
PlaceInv ==
  /\ at = "shell" => count = 0 /\ drawn = <<>> /\ bitmap = <<>>
  /\ at \in {"shell", "scanning"} => printed = <<>>
  /\ at \in {"scanning", "printing"} => lines > 0 /\ bitmap = <<>>
  /\ at = "drawing" => bitmap # <<>>

\* The ring holds the last lines read, each in the slot of its number.
Holds(ring, n, last) ==
  \A i \in 1..last : last - i < n => ring[(i - 1) % n] = i

RingInv == at \in {"scanning", "printing"} => Holds(buffer, lines, count)

Shown == Least(count, lines)

\* What has been printed are the first of the lines to be shown.
ShownInv ==
  at = "printing" \/ (at = "done" /\ bitmap = <<>>) =>
    /\ opened <= count
    /\ Len(printed) <= Shown
    /\ at = "done" => Len(printed) = Shown
    /\ \A k \in 1..Len(printed) : printed[k] = count - Shown + k

\* What line j of the drawing shows of row y, and of the row below it.
DrawnRow(y) ==
  [x \in 0..Side-1 |->
     Glyph(bitmap[y][x], y + 1 < Side /\ bitmap[y + 1][x])]

\* The lines drawn are those of the first rows, at the end of all rows.
DrawnInv ==
  /\ \A j \in 1..Len(drawn) :
       2 * (j - 1) < Side /\ drawn[j] = DrawnRow(2 * (j - 1))
  /\ at = "done" => Side <= 2 * Len(drawn)

OInv == TypeOK /\ PlaceInv /\ RingInv /\ ShownInv /\ DrawnInv

-----------------------------------------------------------------------------
(* Types.                                                                  *)

LEMMA RingSize ==
  /\ Max({MaxAsked, DefaultLines}) \in Nat
  /\ MaxAsked <= Max({MaxAsked, DefaultLines})
  /\ DefaultLines <= Max({MaxAsked, DefaultLines})
BY OutputAssumption DEF Max

\* A number of rows or columns is the size of the interval that indexes them.
LEMMA Rows ==
  ASSUME NEW n \in Nat, NEW b, DOMAIN b = 0..n-1
  PROVE  Cardinality(DOMAIN b) = n
BY FS_Interval, n - 1 \in Int

LEMMA NoRows == Cardinality(DOMAIN <<>>) = 0
<1>1. DOMAIN <<>> = {}
  OBVIOUS
<1> QED
  BY <1>1, FS_EmptySet

LEMMA InitOInv == Init => OInv
<1> SUFFICES ASSUME Init PROVE OInv
  OBVIOUS
<1> USE DEF Init
<1>1. TypeOK
  BY OutputAssumption, RingSize DEF TypeOK, TailTypeOK, QRTypeOK
<1>2. DrawnInv
  BY NoRows DEF DrawnInv, Side
<1> QED
  BY <1>1, <1>2 DEF OInv, PlaceInv, RingInv, ShownInv

-----------------------------------------------------------------------------
(* The steps of `logs`.                                                    *)

\* They leave the code and its drawing alone.
LEMMA NothingDrawn ==
  ASSUME OInv, UNCHANGED qr,
         at' = "done" => at = "done" \/ bitmap = <<>>
  PROVE  QRTypeOK' /\ DrawnInv'
<1>1. Side' = Side /\ \A y : DrawnRow(y)' = DrawnRow(y)
  BY DEF qr, Side, DrawnRow
<1>2. QRTypeOK'
  BY <1>1 DEF OInv, TypeOK, QRTypeOK, qr
<1>3. \A j \in 1..Len(drawn') :
        2 * (j - 1) < Side' /\ drawn'[j] = DrawnRow(2 * (j - 1))'
  BY <1>1 DEF OInv, DrawnInv, qr
<1>4. at' = "done" => Side' <= 2 * Len(drawn')
  <2>1. CASE at = "done"
    BY <1>1, <2>1 DEF OInv, DrawnInv, qr
  <2>2. CASE bitmap = <<>>
    <3>1. Side' = 0
      BY <1>1, <2>2, NoRows DEF Side
    <3>2. Len(drawn') \in Nat
      BY <1>2, LenProperties DEF QRTypeOK
    <3> QED
      BY <3>1, <3>2
  <2> QED
    BY <2>1, <2>2
<1> QED
  BY <1>2, <1>3, <1>4 DEF DrawnInv

\* TailLog up to its loop.
LEMMA OpenStep ==
  ASSUME OInv, NEW n \in 0..MaxAsked, Open(n)
  PROVE  OInv'
<1> USE DEF Open
<1>1. /\ lines' \in 0..Max({MaxAsked, DefaultLines}) /\ lines' > 0
      /\ written \in Nat
  BY OutputAssumption, RingSize DEF OInv, TypeOK, TailTypeOK
<1>2. TailTypeOK'
  BY <1>1 DEF OInv, TypeOK, TailTypeOK, PlaceInv
<1>3. QRTypeOK' /\ DrawnInv'
  BY NothingDrawn
<1>4. PlaceInv' /\ RingInv' /\ ShownInv'
  BY <1>1 DEF OInv, PlaceInv, RingInv, Holds, ShownInv, qr
<1> QED
  BY <1>2, <1>3, <1>4 DEF OInv, TypeOK

\* A line overwrites the one it follows by `lines`, and no later one.
LEMMA ScanStep ==
  ASSUME OInv, Scan
  PROVE  OInv'
<1> USE DEF Scan
<1>1. /\ lines \in Nat \ {0} /\ count \in Nat /\ written \in Nat
      /\ buffer \in [0..lines-1 -> 0..written]
      /\ \A i \in 1..count : count - i < lines => buffer[(i - 1) % lines] = i
  BY OutputAssumption, RingSize
     DEF OInv, TypeOK, TailTypeOK, PlaceInv, RingInv, Holds
<1>2. count % lines \in 0..lines-1
  BY <1>1
<1>3. TailTypeOK'
  BY <1>1, <1>2 DEF OInv, TypeOK, TailTypeOK
<1>4. QRTypeOK' /\ DrawnInv'
  BY NothingDrawn
<1>5. RingInv'
  <2> SUFFICES Holds(buffer', lines, count + 1)
    BY DEF RingInv
  <2>1. SUFFICES ASSUME NEW i \in 1..count+1, (count + 1) - i < lines
                 PROVE  buffer'[(i - 1) % lines] = i
    BY DEF Holds
  <2>2. CASE i = count + 1
    BY <1>1, <1>2, <2>2
  <2>3. CASE i \in 1..count
    <3>1. (i - 1) % lines # count % lines
      <4>1. i - 1 \in Nat /\ i - 1 < count /\ count - (i - 1) < lines
        BY <1>1, <2>1, <2>3
      <4> QED
        BY <1>1, <4>1, SlotsDiffer, Zenon
    <3>2. buffer[(i - 1) % lines] = i
      BY <1>1, <2>1, <2>3
    <3>3. buffer' = [buffer EXCEPT ![count % lines] = count + 1]
      OBVIOUS
    <3>4. (i - 1) % lines \in 0..lines-1
      BY <1>1, <2>3
    <3> QED
      BY <1>1, <3>1, <3>2, <3>3, <3>4
  <2> QED
    BY <1>1, <2>2, <2>3
<1>6. PlaceInv' /\ ShownInv'
  BY <1>1 DEF OInv, PlaceInv, ShownInv, qr
<1> QED
  BY <1>3, <1>4, <1>5, <1>6 DEF OInv, TypeOK

\* The service logs a line.
LEMMA LogStep ==
  ASSUME OInv, Log
  PROVE  OInv'
<1> USE DEF Log
<1>1. TailTypeOK'
  <2>1. written \in Nat /\ MaxLine \in Nat
    BY OutputAssumption DEF OInv, TypeOK, TailTypeOK
  <2>2. \A n : n \in 0..written => n \in 0..written'
    BY <2>1
  <2>3. printed' \in Seq(1..written')
    BY <2>1 DEF OInv, TypeOK, TailTypeOK
  <2>4. long' \subseteq 1..written'
    BY <2>1 DEF OInv, TypeOK, TailTypeOK
  <2>5. at' \in {"scanning", "printing"} =>
          buffer' \in [0..lines'-1 -> 0..written']
    BY <2>1, <2>2 DEF OInv, TypeOK, TailTypeOK
  <2> QED
    BY <2>1, <2>2, <2>3, <2>4, <2>5 DEF OInv, TypeOK, TailTypeOK
<1>2. QRTypeOK' /\ DrawnInv'
  BY NothingDrawn
<1>3. PlaceInv' /\ RingInv' /\ ShownInv'
  BY DEF OInv, PlaceInv, RingInv, ShownInv, Shown, qr
<1> QED
  BY <1>1, <1>2, <1>3 DEF OInv, TypeOK

\* scanner.Scan is over.
LEMMA ScanEndsStep ==
  ASSUME OInv, ScanFails \/ ScanEnds
  PROVE  OInv'
<1> USE DEF ScanFails, ScanEnds, tail
<1>1. /\ lines \in Nat /\ count \in Nat /\ written \in Nat
      /\ printed = <<>> /\ opened <= written
  BY OutputAssumption, RingSize DEF OInv, TypeOK, TailTypeOK, PlaceInv
<1>2. TailTypeOK'
  BY DEF OInv, TypeOK, TailTypeOK
<1>3. QRTypeOK' /\ DrawnInv'
  BY NothingDrawn
<1>4. PlaceInv' /\ RingInv'
  BY DEF OInv, PlaceInv, RingInv, qr
<1>5. ShownInv'
  <2>1. Shown \in Nat /\ Shown' = Shown
    BY <1>1, LeastIs DEF Shown
  <2> QED
    BY <1>1, <2>1 DEF ShownInv
<1> QED
  BY <1>2, <1>3, <1>4, <1>5 DEF OInv, TypeOK

\* The ring is read from its oldest line on.
LEMMA PrintLineStep ==
  ASSUME OInv, PrintLine
  PROVE  OInv'
<1> USE DEF PrintLine
<1>1. /\ lines \in Nat /\ lines > 0 /\ count \in Nat /\ written \in Nat
      /\ buffer \in [0..lines-1 -> 0..written] /\ count <= written
      /\ Holds(buffer, lines, count)
      /\ printed \in Seq(1..written) /\ Len(printed) \in Nat
      /\ Len(printed) < Shown
  BY OutputAssumption, RingSize
     DEF OInv, TypeOK, TailTypeOK, PlaceInv, RingInv, Shown
<1>2. Shown \in Nat /\ Shown <= count /\ Shown' = Shown
  BY <1>1, LeastIs DEF Shown
<1>3. PICK x : x = buffer[(Start + Len(printed)) % lines]
  OBVIOUS
<1>4. x = count - Shown + Len(printed) + 1
  <2>1. PICK i \in Nat : i = Len(printed)
    BY <1>1
  <2>2. CASE count > lines
    <3>1. Shown = lines
      BY <1>1, <2>2, LeastIs DEF Shown
    <3>2. PICK j \in Nat : j = count - lines + i /\ (Start + i) % lines = j % lines
      <4>1. lines \in Nat \ {0} /\ count - lines + i \in Nat
        BY <1>1, <2>2
      <4>2. ((count % lines) + i) % lines = (count - lines + i) % lines
        BY <1>1, <4>1, SlotAfter
      <4>3. Start = count % lines
        BY <2>2 DEF Start
      <4> QED
        BY <4>1, <4>2, <4>3, Zenon
    <3>3. j + 1 \in 1..count /\ count - (j + 1) < lines
      BY <1>1, <2>1, <3>1, <3>2
    <3>4. buffer[((j + 1) - 1) % lines] = j + 1
      BY <1>1, <3>3 DEF Holds
    <3>5. (j + 1) - 1 = j
      OBVIOUS
    <3>6. x = j + 1
      BY <1>3, <2>1, <3>2, <3>4, <3>5, Zenon
    <3> QED
      BY <1>1, <2>1, <3>1, <3>2, <3>6
  <2>3. CASE ~(count > lines)
    <3>1. Shown = count
      BY <1>1, <2>3, LeastIs DEF Shown
    <3>2. i + 1 \in 1..count /\ count - (i + 1) < lines
      BY <1>1, <2>1, <2>3, <3>1
    <3>3. buffer[((i + 1) - 1) % lines] = i + 1
      BY <1>1, <3>2 DEF Holds
    <3>4. (i + 1) - 1 = i /\ Start + i = i
      BY <2>3 DEF Start
    <3>5. x = i + 1
      BY <1>3, <2>1, <3>3, <3>4, Zenon
    <3> QED
      BY <1>1, <2>1, <3>1, <3>5
  <2> QED
    BY <2>2, <2>3
<1>5. x \in 1..written
  BY <1>1, <1>2, <1>4
<1>6. printed' = Append(printed, x)
  BY <1>3
<1>7. TailTypeOK'
  BY <1>5, <1>6 DEF OInv, TypeOK, TailTypeOK
<1>8. QRTypeOK' /\ DrawnInv'
  BY NothingDrawn
<1>9. PlaceInv' /\ RingInv'
  BY DEF OInv, PlaceInv, RingInv, qr
<1>10. ShownInv'
  <2>1. /\ Len(printed') = Len(printed) + 1
        /\ \A k \in 1..Len(printed) : printed'[k] = printed[k]
        /\ printed'[Len(printed) + 1] = x
    BY <1>1, <1>5, <1>6
  <2>2. ASSUME NEW k \in 1..(Len(printed) + 1)
        PROVE  printed'[k] = count - Shown + k
    <3>1. CASE k = Len(printed) + 1
      BY <1>1, <1>2, <1>4, <2>1, <3>1
    <3>2. CASE k \in 1..Len(printed)
      BY <2>1, <3>2 DEF OInv, ShownInv
    <3> QED
      BY <1>1, <3>1, <3>2
  <2> QED
    BY <1>1, <1>2, <2>1, <2>2 DEF OInv, ShownInv
<1> QED
  BY <1>7, <1>8, <1>9, <1>10 DEF OInv, TypeOK

LEMMA PrintEndsStep ==
  ASSUME OInv, PrintEnds
  PROVE  OInv'
<1> USE DEF PrintEnds, tail
<1>1. TailTypeOK'
  BY DEF OInv, TypeOK, TailTypeOK
<1>2. QRTypeOK' /\ DrawnInv'
  BY NothingDrawn DEF OInv, PlaceInv
<1>3. PlaceInv' /\ RingInv'
  BY DEF OInv, PlaceInv, RingInv, qr
<1>4. ShownInv'
  <2>1. Shown' = Shown
    BY DEF Shown
  <2> QED
    BY <2>1 DEF OInv, ShownInv, Shown
<1> QED
  BY <1>1, <1>2, <1>3, <1>4 DEF OInv, TypeOK

-----------------------------------------------------------------------------
(* The steps of `show`.                                                    *)

Glyphs == {"full", "upper", "lower", " "}

LEMMA GlyphType ==
  ASSUME NEW top, NEW bottom
  PROVE  Glyph(top, bottom) \in Glyphs
BY DEF Glyph, Glyphs

\* Nothing of the log is looked at.
LEMMA NothingPrinted ==
  ASSUME OInv, UNCHANGED tail, at' \in {"drawing", "done"}, bitmap' # <<>>
  PROVE  TailTypeOK' /\ PlaceInv' /\ RingInv' /\ ShownInv'
<1> USE DEF tail
<1>1. TailTypeOK'
  BY DEF OInv, TypeOK, TailTypeOK
<1> QED
  BY <1>1 DEF PlaceInv, RingInv, ShownInv

LEMMA EncodeStep ==
  ASSUME OInv, NEW side \in 1..MaxSide, NEW b \in Square(side), Encode(b)
  PROVE  OInv'
<1> USE DEF Encode
<1>1. b # <<>> /\ drawn = <<>>
  <2>1. 0 \in DOMAIN b
    BY OutputAssumption DEF Square
  <2>2. DOMAIN <<>> = {}
    OBVIOUS
  <2> QED
    BY <2>1, <2>2 DEF OInv, PlaceInv
<1>2. QRTypeOK' /\ DrawnInv'
  BY <1>1 DEF QRTypeOK, DrawnInv
<1> QED
  BY <1>1, <1>2, NothingPrinted DEF OInv, TypeOK

\* Two more rows are drawn.
LEMMA RowStep ==
  ASSUME OInv, Row
  PROVE  OInv'
<1> USE DEF Row, HasRow
<1>1. /\ Len(drawn) \in Nat /\ 2 * Len(drawn) < Side
      /\ Side' = Side /\ \A y : DrawnRow(y)' = DrawnRow(y)
      /\ at = "drawing" /\ at' = "drawing" /\ bitmap' = bitmap
      /\ UNCHANGED tail
  BY LenProperties DEF Side, DrawnRow, OInv, TypeOK, QRTypeOK
<1>2. drawn' = Append(drawn, DrawnRow(2 * Len(drawn)))
  BY DEF DrawnRow
<1>3. DrawnRow(2 * Len(drawn)) \in [0..Side-1 -> Glyphs]
  BY GlyphType DEF DrawnRow
<1>4. drawn \in Seq([0..Side-1 -> Glyphs])
  BY DEF OInv, TypeOK, QRTypeOK, Glyphs
<1>5. /\ drawn' \in Seq([0..Side-1 -> Glyphs])
      /\ Len(drawn') = Len(drawn) + 1
      /\ \A j \in 1..Len(drawn) : drawn'[j] = drawn[j]
      /\ drawn'[Len(drawn) + 1] = DrawnRow(2 * Len(drawn))
  BY <1>2, <1>3, <1>4, AppendProperties
<1>6. QRTypeOK'
  BY <1>1, <1>5 DEF OInv, TypeOK, QRTypeOK, Glyphs
<1>7. DrawnInv'
  <2>1. ASSUME NEW j \in 1..(Len(drawn) + 1)
        PROVE  2 * (j - 1) < Side /\ drawn'[j] = DrawnRow(2 * (j - 1))
    <3>1. CASE j = Len(drawn) + 1
      <4>1. 2 * (j - 1) = 2 * Len(drawn)
        BY <1>1, <3>1
      <4> QED
        BY <1>1, <1>5, <3>1, <4>1
    <3>2. CASE j \in 1..Len(drawn)
      BY <1>5, <3>2 DEF OInv, DrawnInv
    <3> QED
      BY <1>1, <3>1, <3>2
  <2> QED
    BY <1>1, <1>5, <2>1 DEF DrawnInv
<1>8. bitmap' # <<>>
  BY <1>1 DEF OInv, PlaceInv
<1> QED
  BY <1>1, <1>6, <1>7, <1>8, NothingPrinted DEF OInv, TypeOK

LEMMA RowsEndStep ==
  ASSUME OInv, RowsEnd
  PROVE  OInv'
<1> USE DEF RowsEnd, HasRow
<1>1. /\ UNCHANGED tail /\ UNCHANGED qr /\ bitmap # <<>> /\ at' = "done"
      /\ ~(2 * Len(drawn) < Side) /\ Len(drawn) \in Nat
  BY LenProperties DEF OInv, PlaceInv, TypeOK, QRTypeOK
<1>2. Side \in Nat
  <2>1. PICK side \in 1..MaxSide : bitmap \in Square(side)
    BY <1>1 DEF OInv, TypeOK, QRTypeOK
  <2>2. DOMAIN bitmap = 0..side-1 /\ side \in Nat
    BY <2>1 DEF Square
  <2> QED
    BY <2>2, Rows DEF Side
<1>3. Side' = Side /\ \A y : DrawnRow(y)' = DrawnRow(y)
  BY <1>1 DEF qr, Side, DrawnRow
<1>4. QRTypeOK'
  BY <1>1, <1>3 DEF OInv, TypeOK, QRTypeOK, qr
<1>5. DrawnInv'
  BY <1>1, <1>2, <1>3 DEF OInv, DrawnInv, qr
<1> QED
  BY <1>1, <1>4, <1>5, NothingPrinted DEF OInv, TypeOK, qr

-----------------------------------------------------------------------------
(* Theorems.                                                               *)

LEMMA NextOInv == OInv /\ [Next]_vars => OInv'
<1> SUFFICES ASSUME OInv, [Next]_vars PROVE OInv'
  OBVIOUS
<1>1. CASE UNCHANGED vars
  BY <1>1 DEF vars, OInv, TypeOK, TailTypeOK, QRTypeOK, PlaceInv, RingInv,
              ShownInv, Shown, DrawnInv, DrawnRow, Side
<1>2. CASE Finished
  BY <1>1, <1>2 DEF Finished
<1> QED
  BY <1>1, <1>2, LogStep, OpenStep, ScanStep, ScanEndsStep, PrintLineStep,
     PrintEndsStep, EncodeStep, RowStep, RowsEndStep DEF Next

LEMMA Invariant == Spec => []OInv
<1> QED
  BY InitOInv, NextOInv, PTL DEF Spec

\* Every variable keeps its type; no slot of the ring is printed that nothing was
\* read into, whatever the number of lines asked for.
THEOREM TypeCorrect == Spec => []TypeOK
<1>1. OInv => TypeOK
  BY DEF OInv
<1> QED
  BY <1>1, Invariant, PTL

\* `logs` prints the end of the log, in order and without a gap.
THEOREM TailIsShown == Spec => []LogsShowTheEnd
<1>1. OInv => LogsShowTheEnd
  <2> SUFFICES ASSUME OInv, at = "done", bitmap = <<>>
               PROVE  \E n \in opened..written :
                        LET shown == Least(n, lines) IN
                        printed = [k \in 1..shown |-> n - shown + k]
    BY DEF LogsShowTheEnd
  <2>1. /\ count \in opened..written
        /\ Len(printed) = Shown
        /\ \A k \in 1..Len(printed) : printed[k] = count - Shown + k
        /\ printed \in Seq(1..written)
    BY OutputAssumption DEF OInv, TypeOK, TailTypeOK, ShownInv
  <2>2. printed = [k \in 1..Shown |-> count - Shown + k]
    <3>1. printed = [k \in 1..Len(printed) |-> printed[k]]
      BY <2>1, LenProperties
    <3> QED
      BY <2>1, <3>1
  <2> QED
    BY <2>1, <2>2 DEF Shown
<1> QED
  BY <1>1, Invariant, PTL

\* What a half block shows of the two modules it stands for.
LEMMA InkOfGlyph ==
  ASSUME NEW top \in BOOLEAN, NEW bottom \in BOOLEAN
  PROVE  /\ 0 \in Ink(Glyph(top, bottom)) <=> top
         /\ 1 \in Ink(Glyph(top, bottom)) <=> bottom
BY DEF Ink, Glyph

\* A row of modules is the upper or the lower half of one line.
LEMMA HalfLine ==
  ASSUME NEW y \in Nat
  PROVE  \E j \in Nat : /\ y \div 2 = j
                        /\ \/ y = 2 * j /\ y % 2 = 0
                           \/ y = 2 * j + 1 /\ y % 2 = 1
OBVIOUS

\* What `show` draws shows every dark module of the code and no other one.
THEOREM QRIsShown == Spec => []QRShowsTheCode
<1>1. OInv => QRShowsTheCode
  <2> SUFFICES ASSUME OInv, at = "done", bitmap # <<>>
               PROVE  DarkDrawn = Dark
    BY DEF QRShowsTheCode
  <2>1. PICK side \in 1..MaxSide : bitmap \in Square(side)
    BY DEF OInv, TypeOK, QRTypeOK
  <2>2. Side = side /\ side \in Nat
    <3>1. DOMAIN bitmap = 0..side-1 /\ side \in Nat
      BY <2>1 DEF Square
    <3> QED
      BY <3>1, Rows DEF Side
  <2>3. /\ Len(drawn) \in Nat /\ side <= 2 * Len(drawn)
        /\ \A j \in 1..Len(drawn) :
             2 * (j - 1) < side /\ drawn[j] = DrawnRow(2 * (j - 1))
    BY <2>2, LenProperties DEF OInv, DrawnInv, TypeOK, QRTypeOK
  \* The lower half of the last line may be of no row.
  <2>4. ASSUME NEW y \in 0..2*Len(drawn)-1, NEW x \in 0..side-1
        PROVE  y % 2 \in Ink(drawn[y \div 2 + 1][x])
                 <=> y < side /\ bitmap[y][x]
    <3>1. PICK j \in Nat : /\ y \div 2 = j
                           /\ \/ y = 2 * j /\ y % 2 = 0
                              \/ y = 2 * j + 1 /\ y % 2 = 1
      BY HalfLine
    <3>2. j + 1 \in 1..Len(drawn) /\ 2 * ((j + 1) - 1) = 2 * j
      BY <2>3, <3>1
    <3>3. 2 * j < side /\ drawn[j + 1] = DrawnRow(2 * j)
      BY <2>3, <3>2
    <3>4. PICK bottom \in BOOLEAN :
            bottom <=> 2 * j + 1 < side /\ bitmap[2 * j + 1][x]
      OBVIOUS
    <3>5. PICK top \in BOOLEAN : top = bitmap[2 * j][x]
      BY <2>1, <2>2, <3>3 DEF Square
    <3>6. drawn[j + 1][x] = Glyph(top, bottom)
      BY <2>2, <3>3, <3>4, <3>5 DEF DrawnRow, Glyph
    <3>7. CASE y = 2 * j /\ y % 2 = 0
      BY <3>1, <3>3, <3>5, <3>6, <3>7, InkOfGlyph
    <3>8. CASE y = 2 * j + 1 /\ y % 2 = 1
      BY <3>1, <3>4, <3>6, <3>8, InkOfGlyph
    <3> QED
      BY <3>1, <3>7, <3>8
  <2>5. ASSUME NEW p PROVE p \in DarkDrawn <=> p \in Dark
    <3>1. p \in Dark <=> /\ p \in (0..side-1) \X (0..side-1)
                         /\ bitmap[p[1]][p[2]]
      BY <2>2 DEF Dark
    <3>2. p \in DarkDrawn <=> /\ p \in (0..2*Len(drawn)-1) \X (0..side-1)
                              /\ p[1] % 2 \in Ink(drawn[p[1] \div 2 + 1][p[2]])
      BY <2>2 DEF DarkDrawn
    <3>3. p \in (0..side-1) \X (0..side-1)
            <=> p \in (0..2*Len(drawn)-1) \X (0..side-1) /\ p[1] < side
      BY <2>2, <2>3
    <3> QED
      BY <2>4, <3>1, <3>2, <3>3
  <2> QED
    BY <2>5 DEF Dark, DarkDrawn
<1> QED
  BY <1>1, Invariant, PTL
=============================================================================
