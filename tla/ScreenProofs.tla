---------------------------- MODULE ScreenProofs ----------------------------
(***************************************************************************)
(* Proofs about Screen, for every size of the screen, every text and every *)
(* message of a halt.                                                      *)
(***************************************************************************)
EXTENDS Screen, SequenceTheorems, WellFoundedInduction, TLAPS

-----------------------------------------------------------------------------
(* Cells *)

Columns == 0 .. VGA_WIDTH - 1
Rows == 0 .. VGA_HEIGHT - 1

\* A cell is a column and a row.
LEMMA CellParts ==
  ASSUME NEW x \in Columns, NEW y \in Nat
  PROVE  Cell(x, y) \in Nat /\ Cell(x, y) \div VGA_WIDTH = y
<1> DEFINE W == VGA_WIDTH
           k == y * W + x
<1>1. W \in Nat /\ W > 0 /\ x \in Nat /\ x < W
  BY ScreenAssumption DEF Columns
<1>2. y * W \in Nat
  BY <1>1
<1>3. k \in Nat
  BY <1>1, <1>2
<1>4. PICK q \in Int : q = k \div W /\ W * q <= k /\ k < W * (q + 1)
  <2>1. k = W * (k \div W) + (k % W) /\ k % W \in 0 .. W - 1 /\ k \div W \in Int
    BY <1>1, <1>3
  <2> QED
    BY <1>1, <1>3, <2>1
<1>5. ~(q < y)
  <2>1. SUFFICES ASSUME q + 1 <= y PROVE FALSE
    BY <1>4
  <2>2. W * (q + 1) <= W * y
    BY <1>1, <1>4, <2>1
  <2> QED
    BY <1>1, <1>2, <1>4, <2>2
<1>6. ~(y < q)
  <2>1. SUFFICES ASSUME y + 1 <= q PROVE FALSE
    BY <1>4
  <2>2. W * (y + 1) <= W * q
    BY <1>1, <1>4, <2>1
  <2>3. W * (y + 1) = y * W + W
    BY <1>1
  <2> QED
    BY <1>1, <1>2, <1>4, <2>2, <2>3
<1> QED
  BY <1>3, <1>4, <1>5, <1>6 DEF Cell

\* Two cells with the same number are one.
LEMMA OneCell ==
  ASSUME NEW x \in Columns, NEW y \in Nat, NEW u \in Columns, NEW v \in Nat,
         Cell(x, y) = Cell(u, v)
  PROVE  x = u /\ y = v
<1>1. y = v
  BY CellParts
<1>2. x \in Int /\ u \in Int /\ y * VGA_WIDTH \in Int
  BY ScreenAssumption DEF Columns
<1> QED
  BY <1>1, <1>2 DEF Cell

\* The cells of the screen, and the one below another.
LEMMA CellOnScreen ==
  ASSUME NEW x \in Columns, NEW r \in Rows
  PROVE  Cell(x, r) \in Cells /\ Cell(x, r) + VGA_WIDTH = Cell(x, r + 1)
<1> DEFINE W == VGA_WIDTH
           H == VGA_HEIGHT
<1>1. W \in Nat /\ H \in Nat /\ x \in Nat /\ x < W /\ r \in Nat /\ r + 1 <= H
  BY ScreenAssumption DEF Columns, Rows
<1>2. (r + 1) * W = r * W + W /\ r * W \in Nat
  BY <1>1
<1>3. (r + 1) * W <= H * W /\ H * W \in Nat
  BY <1>1
<1> QED
  BY <1>1, <1>2, <1>3 DEF Cell, Cells

\* The column after x: the next one, or the first of the next line.
LEMMA NextColumn ==
  ASSUME NEW x \in Columns
  PROVE  IF x + 1 = VGA_WIDTH
         THEN (x + 1) % VGA_WIDTH = 0 /\ (x + 1) \div VGA_WIDTH = 1
         ELSE /\ (x + 1) % VGA_WIDTH = x + 1 /\ (x + 1) \div VGA_WIDTH = 0
              /\ x + 1 \in Columns
  BY ScreenAssumption DEF Columns

-----------------------------------------------------------------------------
(* The paper: what FoldLeft makes of PutOnPaper *)

\* A set of numbers that is not empty has a least element.
LEMMA LeastOf ==
  ASSUME NEW T \in SUBSET Nat, T # {}
  PROVE  \E x \in T : \A y \in T : x <= y
<1> DEFINE R == {ss \in Nat \X Nat : ss[1] < ss[2]}
<1>1. IsWellFoundedOn(R, Nat)
  BY NatLessThanWellFounded DEF OpToRel
<1>2. \A x, y \in Nat : x < y => <<x, y>> \in R
  OBVIOUS
<1> HIDE DEF R
<1>3. PICK x \in T : \A y \in T : ~(<<y, x>> \in R)
  BY <1>1, WFMin
<1>4. \A y \in T : ~(y < x) /\ y \in Nat /\ x \in Nat
  BY <1>2, <1>3
<1> QED
  BY <1>4

\* What holds of 0, and of n + 1 when it holds of n, holds of every number.
LEMMA ByCounting ==
  ASSUME NEW T \in SUBSET Nat, 0 \in T, \A n \in Nat : n \in T => n + 1 \in T
  PROVE  T = Nat
<1>1. SUFFICES ASSUME Nat \ T # {} PROVE FALSE
  OBVIOUS
<1>2. PICK x \in Nat \ T : \A y \in Nat \ T : x <= y
  <2>1. Nat \ T \in SUBSET Nat
    OBVIOUS
  <2> QED
    BY <1>1, <2>1, LeastOf
<1>3. x - 1 \in Nat /\ x = (x - 1) + 1 /\ ~(x <= x - 1)
  BY <1>2
<1> QED
  BY <1>2, <1>3

\* The greatest number of a set.
LEMMA MaxIs ==
  ASSUME NEW T \in SUBSET Nat, NEW m \in T, \A x \in T : x <= m
  PROVE  Max(T) = m
<1>1. \A x \in T : m >= x
  OBVIOUS
<1>2. \A x \in T : (\A y \in T : x >= y) => x = m
  OBVIOUS
<1> QED
  BY <1>1, <1>2 DEF Max

\* g is the fold over the first n characters, as a function on the sets of their
\* positions.
FoldsOver(g, base, s, n) ==
  g = [t \in SUBSET (1 .. n) |->
         IF t = {} THEN base ELSE PutOnPaper(g[t \ {Max(t)}], s[Max(t)])]

\* FoldLeft is such a function, taken at all the positions.
LEMMA FoldIs ==
  ASSUME NEW base, NEW s, NEW n \in Nat, DOMAIN s = 1 .. n
  PROVE  FoldLeft(PutOnPaper, base, s) = (CHOOSE g : FoldsOver(g, base, s, n))[1 .. n]
  BY DEF FoldLeft, MapThenFoldSet, FoldsOver
\* There is one.
LEMMA FoldExists ==
  ASSUME NEW base, NEW s
  PROVE  \A n \in Nat : \E g : FoldsOver(g, base, s, n)
<1> DEFINE T == {n \in Nat : \E g : FoldsOver(g, base, s, n)}
<1>1. 0 \in T
  <2> DEFINE g == [t \in {{}} |-> base]
  <2>1. SUBSET (1 .. 0) = {{}}
    OBVIOUS
  <2>2. FoldsOver(g, base, s, 0)
    BY <2>1 DEF FoldsOver
  <2> QED
    BY <2>2
<1>2. ASSUME NEW n \in Nat, n \in T
      PROVE  n + 1 \in T
  <2>1. PICK g : FoldsOver(g, base, s, n)
    BY <1>2
  <2> DEFINE F(h, t) == IF t = {} THEN base ELSE PutOnPaper(h[t \ {Max(t)}], s[Max(t)])
             new(t) == PutOnPaper(g[t \ {n + 1}], s[n + 1])
             h == [t \in SUBSET (1 .. n + 1) |-> IF n + 1 \in t THEN new(t) ELSE g[t]]
  <2>2. \A t \in SUBSET (1 .. n) : g[t] = F(g, t)
    BY <2>1 DEF FoldsOver
  <2>3. \A t \in SUBSET (1 .. n) : t \in SUBSET (1 .. n + 1) /\ n + 1 \notin t /\ h[t] = g[t]
    OBVIOUS
  <2>4. h = [t \in SUBSET (1 .. n + 1) |-> h[t]]
    OBVIOUS
  <2>5. \A t \in SUBSET (1 .. n + 1) : n + 1 \in t => h[t] = new(t)
    OBVIOUS
  <2> HIDE DEF h
  <2>6. ASSUME NEW t \in SUBSET (1 .. n + 1)
        PROVE  h[t] = F(h, t)
    <3>1. CASE n + 1 \in t
      <4>1. Max(t) = n + 1
        <5>1. t \in SUBSET Nat /\ \A x \in t : x <= n + 1
          OBVIOUS
        <5> QED
          BY <3>1, <5>1, MaxIs
      <4>2. t \ {n + 1} \in SUBSET (1 .. n)
        OBVIOUS
      <4> QED
        BY <2>3, <2>5, <3>1, <4>1, <4>2
    <3>2. CASE n + 1 \notin t
      <4>1. t \in SUBSET (1 .. n)
        BY <3>2
      <4>2. t \ {Max(t)} \in SUBSET (1 .. n)
        BY <4>1
      <4> QED
        BY <2>2, <2>3, <4>1, <4>2
    <3> QED
      BY <3>1, <3>2
  <2>7. FoldsOver(h, base, s, n + 1)
    BY <2>4, <2>6 DEF FoldsOver
  <2> QED
    BY <2>7
<1> HIDE DEF T
<1>3. T = Nat
  <2>1. T \in SUBSET Nat
    BY DEF T
  <2> QED
    BY <1>1, <1>2, <2>1, ByCounting
<1> QED
  BY <1>3 DEF T

\* What a fold is at the positions up to k.
Unfolds(g, base, s, n) ==
  /\ g[1 .. 0] = base
  /\ \A k \in 1 .. n : g[1 .. k] = PutOnPaper(g[1 .. k - 1], s[k])

LEMMA FoldAt ==
  ASSUME NEW base, NEW s, NEW n \in Nat, NEW g, FoldsOver(g, base, s, n)
  PROVE  Unfolds(g, base, s, n)
<1>1. \A t \in SUBSET (1 .. n) :
        g[t] = IF t = {} THEN base ELSE PutOnPaper(g[t \ {Max(t)}], s[Max(t)])
  BY DEF FoldsOver
<1>2. g[1 .. 0] = base
  <2>1. 1 .. 0 \in SUBSET (1 .. n) /\ 1 .. 0 = {}
    OBVIOUS
  <2> QED
    BY <1>1, <2>1
<1>3. ASSUME NEW k \in 1 .. n
      PROVE  g[1 .. k] = PutOnPaper(g[1 .. k - 1], s[k])
  <2>1. Max(1 .. k) = k
    <3>1. 1 .. k \in SUBSET Nat /\ k \in 1 .. k /\ \A x \in 1 .. k : x <= k
      OBVIOUS
    <3> QED
      BY <3>1, MaxIs
  <2>2. (1 .. k) \ {k} = 1 .. k - 1 /\ 1 .. k # {} /\ 1 .. k \in SUBSET (1 .. n)
    <3>1. k \in Nat /\ k >= 1 /\ k <= n
      OBVIOUS
    <3>2. k \in 1 .. k
      BY <3>1
    <3>3. \A x : x \in (1 .. k) \ {k} <=> x \in 1 .. k - 1
      BY <3>1
    <3>4. \A x \in 1 .. k : x \in 1 .. n
      BY <3>1
    <3> QED
      BY <3>2, <3>3, <3>4, Zenon
  <2> QED
    BY <1>1, <2>1, <2>2
<1> QED
  BY <1>2, <1>3 DEF Unfolds

\* The fold over no character.
LEMMA FoldNone ==
  ASSUME NEW base
  PROVE  FoldLeft(PutOnPaper, base, <<>>) = base
<1> DEFINE e == <<>>
           g == CHOOSE g : FoldsOver(g, base, e, 0)
<1>1. DOMAIN e = 1 .. 0
  OBVIOUS
<1> HIDE DEF e
<1>2. FoldLeft(PutOnPaper, base, e) = g[1 .. 0]
  BY <1>1, FoldIs
<1>3. FoldsOver(g, base, e, 0)
  BY FoldExists
<1> HIDE DEF g
<1>4. g[1 .. 0] = base
  BY <1>3, FoldAt DEF Unfolds
<1> QED
  BY <1>2, <1>4 DEF e

\* The fold over one character more.
LEMMA FoldStep ==
  ASSUME NEW base, NEW s \in Seq(STRING), NEW c \in STRING
  PROVE  FoldLeft(PutOnPaper, base, Append(s, c)) =
           PutOnPaper(FoldLeft(PutOnPaper, base, s), c)
<1> DEFINE n == Len(s)
           u == Append(s, c)
<1>1. n \in Nat /\ n + 1 \in Nat /\ DOMAIN s = 1 .. n /\ DOMAIN u = 1 .. n + 1
  OBVIOUS
<1>2. u[n + 1] = c /\ \A k \in 1 .. n : u[k] = s[k]
  <2>1. Len(Append(s, c)) = Len(s) + 1 /\ \A k \in 1 .. Len(s) : Append(s, c)[k] = s[k]
    BY AppendProperties
  <2>2. Append(s, c)[Len(s) + 1] = c
    BY AppendProperties
  <2> QED
    BY <2>1, <2>2
<1> HIDE DEF n, u
<1>3. PICK g : FoldsOver(g, base, s, n) /\ FoldLeft(PutOnPaper, base, s) = g[1 .. n]
  BY <1>1, FoldIs, FoldExists
<1>4. PICK h : /\ FoldsOver(h, base, u, n + 1)
               /\ FoldLeft(PutOnPaper, base, u) = h[1 .. n + 1]
  BY <1>1, FoldIs, FoldExists
<1>5. /\ g[1 .. 0] = base /\ h[1 .. 0] = base
      /\ \A k \in 1 .. n : g[1 .. k] = PutOnPaper(g[1 .. k - 1], s[k])
      /\ \A k \in 1 .. n + 1 : h[1 .. k] = PutOnPaper(h[1 .. k - 1], u[k])
  <2>1. Unfolds(g, base, s, n)
    BY <1>1, <1>3, FoldAt
  <2>2. Unfolds(h, base, u, n + 1)
    BY <1>1, <1>4, FoldAt
  <2> QED
    BY <2>1, <2>2 DEF Unfolds
<1> DEFINE T == {k \in Nat : k <= n => g[1 .. k] = h[1 .. k]}
<1>6. T = Nat
  <2>1. 0 \in T /\ T \in SUBSET Nat
    BY <1>5
  <2>2. ASSUME NEW k \in Nat, k \in T
        PROVE  k + 1 \in T
    <3>1. SUFFICES ASSUME k + 1 <= n PROVE g[1 .. k + 1] = h[1 .. k + 1]
      OBVIOUS
    <3>2. k + 1 \in 1 .. n /\ k + 1 \in 1 .. n + 1 /\ (k + 1) - 1 = k /\ k <= n
      BY <1>1, <3>1
    <3>3. g[1 .. k] = h[1 .. k]
      BY <2>2, <3>2
    <3>4. g[1 .. k + 1] = PutOnPaper(g[1 .. k], s[k + 1])
      BY <1>5, <3>2
    <3>5. h[1 .. k + 1] = PutOnPaper(h[1 .. k], u[k + 1])
      BY <1>5, <3>2
    <3> QED
      BY <1>2, <3>2, <3>3, <3>4, <3>5
  <2> HIDE DEF T
  <2> QED
    BY <2>1, <2>2, ByCounting
<1>7. g[1 .. n] = h[1 .. n]
  BY <1>1, <1>6
<1>8. n + 1 \in 1 .. n + 1 /\ (n + 1) - 1 = n
  BY <1>1
<1>9. h[1 .. n + 1] = PutOnPaper(h[1 .. n], c)
  BY <1>2, <1>5, <1>8
<1> QED
  BY <1>3, <1>4, <1>7, <1>9 DEF u

\* The paper with no text.
LEMMA PaperBlank ==
  ASSUME NEW x, NEW y
  PROVE  Paper(x, y, <<>>) = [x |-> x, y |-> y, marks |-> {}]
  BY FoldNone DEF Paper

\* The paper with one character more.
LEMMA PaperPut ==
  ASSUME NEW x, NEW y, NEW s \in Seq(STRING), NEW c \in STRING
  PROVE  Paper(x, y, Append(s, c)) = PutOnPaper(Paper(x, y, s), c)
  BY FoldStep DEF Paper

-----------------------------------------------------------------------------
(* What the screen shows of a paper *)

\* A paper with its pen behind all the marks.
Sheet(P) ==
  /\ P = [x |-> P.x, y |-> P.y, marks |-> P.marks]
  /\ P.x \in Columns /\ P.y \in Nat
  /\ \A m \in P.marks : /\ m.x \in Columns /\ m.y \in Nat
                        /\ m.y < P.y \/ (m.y = P.y /\ m.x < P.x)

\* A cell may show c where the paper has the place x of line y: the mark that
\* is there, and nothing else on a screen that was clean.
Ink(P, clean, x, y, c) ==
  /\ \A m \in P.marks : m.x = x /\ m.y = y => c = m.c
  /\ clean /\ (\A m \in P.marks : ~(m.x = x /\ m.y = y)) => c = " "

\* Each row r of the screen shows the line L[r] of the paper.
Displays(buffer, P, clean, L) ==
  \A x \in Columns, r \in Rows : Ink(P, clean, x, L[r], buffer[Cell(x, r)])

\* The lines of the rows, when a are above the screen and the rows above number
\* n - 1 have been scrolled.
Lines(a, n) == [r \in Rows |-> IF r < n - 1 THEN r + a + 1 ELSE r + a]

\* The lines above the screen, and the row of the pen.
LEMMA AboveIs ==
  ASSUME NEW P, Sheet(P)
  PROVE  /\ Above(P) \in Nat /\ P.y - Above(P) \in Rows
         /\ Above(P) = 0 \/ (P.y >= VGA_HEIGHT /\ P.y - Above(P) = VGA_HEIGHT - 1)
  BY ScreenAssumption DEF Sheet, Above, Rows

\* A character on the paper is a mark at the pen, or none, and the pen goes on.
LEMMA PenMoves ==
  ASSUME NEW P, Sheet(P), NEW c, NEW Q, Q = PutOnPaper(P, c)
  PROVE  /\ Sheet(Q)
         /\ Q.marks = IF c = NL THEN P.marks
                      ELSE P.marks \union {[x |-> P.x, y |-> P.y, c |-> c]}
         /\ IF c = NL \/ P.x + 1 = VGA_WIDTH THEN Q.x = 0 /\ Q.y = P.y + 1
            ELSE Q.x = P.x + 1 /\ Q.y = P.y
<1>1. P.x \in Columns /\ P.y \in Nat /\ 0 \in Columns /\ P.x \in Nat
  BY ScreenAssumption DEF Sheet, Columns
<1>2. CASE c = NL
  <2>1. Q = [x |-> 0, y |-> P.y + 1, marks |-> P.marks]
    BY <1>2 DEF Sheet, PutOnPaper
  <2>2. Q.x = 0 /\ Q.y = P.y + 1 /\ Q.marks = P.marks
    BY <2>1
  <2>3. Q = [x |-> Q.x, y |-> Q.y, marks |-> Q.marks]
    BY <2>1
  <2> QED
    BY <1>1, <1>2, <2>2, <2>3 DEF Sheet
<1>3. CASE c # NL
  <2> DEFINE mark == [x |-> P.x, y |-> P.y, c |-> c]
             u == (P.x + 1) % VGA_WIDTH
             v == P.y + (P.x + 1) \div VGA_WIDTH
  <2>1. Q = [x |-> u, y |-> v, marks |-> P.marks \union {mark}]
    BY <1>3 DEF PutOnPaper
  <2>2. mark.x = P.x /\ mark.y = P.y
    OBVIOUS
  <2>3. IF P.x + 1 = VGA_WIDTH THEN u = 0 /\ v = P.y + 1
        ELSE u = P.x + 1 /\ v = P.y /\ P.x + 1 \in Columns
    BY <1>1, NextColumn
  <2> HIDE DEF mark, u, v
  <2>4. Q.x = u /\ Q.y = v /\ Q.marks = P.marks \union {mark}
    BY <2>1
  <2>5. Q = [x |-> Q.x, y |-> Q.y, marks |-> Q.marks]
    BY <2>1
  <2>6. Q.x \in Columns /\ Q.y \in Nat
    BY <1>1, <2>3, <2>4
  <2>7. ASSUME NEW m \in Q.marks
        PROVE  /\ m.x \in Columns /\ m.y \in Nat
               /\ m.y < Q.y \/ (m.y = Q.y /\ m.x < Q.x)
    <3>1. /\ m.x \in Columns /\ m.y \in Nat
          /\ m.y < P.y \/ (m.y = P.y /\ m.x <= P.x)
      BY <1>1, <2>2, <2>4, <2>7 DEF Sheet, Columns
    <3> QED
      BY <1>1, <2>3, <2>4, <3>1, ScreenAssumption DEF Columns
  <2> QED
    BY <1>3, <2>3, <2>4, <2>5, <2>6, <2>7 DEF Sheet, mark
<1> QED
  BY <1>2, <1>3

\* tty_putentryat puts the character where the paper has it.
LEMMA CellPut ==
  ASSUME NEW P, Sheet(P), NEW c, c # NL, NEW Q, Q = PutOnPaper(P, c),
         NEW clean, NEW b, Displays(b, P, clean, Lines(Above(P), 1)),
         NEW g, g = [k \in Cells |-> IF k = Cell(P.x, P.y - Above(P)) THEN c ELSE b[k]]
  PROVE  Displays(g, Q, clean, Lines(Above(P), 1))
<1> DEFINE a == Above(P)
           L == Lines(a, 1)
           row == P.y - a
           mark == [x |-> P.x, y |-> P.y, c |-> c]
<1>1. a \in Nat /\ row \in Rows /\ P.x \in Columns /\ P.y \in Nat
  BY AboveIs DEF Sheet
<1>2. Q.marks = P.marks \union {mark}
  BY PenMoves
<1>3. mark.x = P.x /\ mark.y = P.y /\ mark.c = c
  OBVIOUS
<1>4. \A r \in Rows : r \in Nat /\ L[r] = r + a
  BY <1>1, ScreenAssumption DEF Lines, Rows
<1>5. Displays(b, P, clean, L)
  OBVIOUS
<1>6. g = [k \in Cells |-> IF k = Cell(P.x, row) THEN c ELSE b[k]]
  OBVIOUS
<1> HIDE DEF L, mark
<1>7. ASSUME NEW x \in Columns, NEW r \in Rows
      PROVE  Ink(Q, clean, x, L[r], g[Cell(x, r)])
  <2>1. Cell(x, r) \in Cells
    BY CellOnScreen
  <2>2. Ink(P, clean, x, L[r], b[Cell(x, r)])
    BY <1>5 DEF Displays
  <2>3. CASE x = P.x /\ r = row
    <3>1. g[Cell(x, r)] = c /\ L[r] = P.y
      BY <1>1, <1>4, <1>6, <2>1, <2>3
    <3>2. \A m \in P.marks : ~(m.x = x /\ m.y = P.y)
      BY <1>1, <2>3 DEF Sheet, Columns
    <3> QED
      BY <1>2, <1>3, <2>3, <3>1, <3>2 DEF Ink
  <2>4. CASE ~(x = P.x /\ r = row)
    <3>1. Cell(x, r) # Cell(P.x, row)
      <4>1. r \in Nat /\ row \in Nat
        BY <1>1, <1>4
      <4> QED
        BY <1>1, <2>4, <4>1, OneCell
    <3>2. g[Cell(x, r)] = b[Cell(x, r)]
      BY <1>6, <2>1, <3>1
    <3>3. ~(mark.x = x /\ mark.y = L[r])
      BY <1>1, <1>3, <1>4, <2>4
    <3> QED
      BY <1>2, <2>2, <3>2, <3>3 DEF Ink
  <2> QED
    BY <2>3, <2>4
<1> QED
  BY <1>7 DEF Displays, L

\* What tty_scroll makes of a cell when it copies line n to the one above.
Scrolls(g, b, n) ==
  \A k \in Cells : g[k] = IF (k \div VGA_WIDTH) # (n - 1) THEN b[k]
                          ELSE IF n < VGA_HEIGHT THEN b[k + VGA_WIDTH] ELSE " "

\* One line of tty_scroll: row n - 1 now shows what row n shows, and the last row
\* the line that nothing is on yet.
LEMMA LineScrolled ==
  ASSUME NEW Q, Sheet(Q), Q.x = 0, NEW a \in Nat, Q.y = a + VGA_HEIGHT,
         NEW n \in 1 .. VGA_HEIGHT,
         NEW clean, NEW b, Displays(b, Q, clean, Lines(a, n)),
         NEW g, Scrolls(g, b, n)
  PROVE  Displays(g, Q, clean, Lines(a, n + 1))
<1> DEFINE H == VGA_HEIGHT
           L == Lines(a, n)
           M == Lines(a, n + 1)
<1>1. H \in Nat /\ n \in Nat /\ n >= 1 /\ n <= H
  BY ScreenAssumption
<1>2. \A r \in Rows : r \in Nat /\ r < H
  BY <1>1 DEF Rows
<1>3. \A r \in Rows : /\ L[r] = IF r < n - 1 THEN r + a + 1 ELSE r + a
                      /\ M[r] = IF r < n THEN r + a + 1 ELSE r + a
  BY <1>1, <1>2 DEF Lines
<1>4. Displays(b, Q, clean, L)
  OBVIOUS
<1> HIDE DEF L, M
<1>5. ASSUME NEW x \in Columns, NEW r \in Rows
      PROVE  Ink(Q, clean, x, M[r], g[Cell(x, r)])
  <2>1. Cell(x, r) \in Cells /\ Cell(x, r) + VGA_WIDTH = Cell(x, r + 1)
    BY CellOnScreen
  <2>2. Cell(x, r) \div VGA_WIDTH = r
    BY <1>2, CellParts
  <2>3. g[Cell(x, r)] = IF r # n - 1 THEN b[Cell(x, r)]
                        ELSE IF n < VGA_HEIGHT THEN b[Cell(x, r + 1)] ELSE " "
    BY <2>1, <2>2 DEF Scrolls
  <2>4. CASE r # n - 1
    <3>1. g[Cell(x, r)] = b[Cell(x, r)]
      BY <2>3, <2>4
    <3>2. M[r] = L[r]
      BY <1>1, <1>2, <1>3, <2>4
    <3> QED
      BY <1>4, <3>1, <3>2 DEF Displays
  <2>5. CASE r = n - 1 /\ n < H
    <3>1. g[Cell(x, r)] = b[Cell(x, r + 1)]
      BY <2>3, <2>5
    <3>2. r + 1 \in Rows
      BY <1>1, <2>5 DEF Rows
    <3>3. M[r] = L[r + 1]
      BY <1>1, <1>2, <1>3, <2>5, <3>2
    <3> QED
      BY <1>4, <3>1, <3>2, <3>3 DEF Displays
  <2>6. CASE r = n - 1 /\ n = H
    <3>1. g[Cell(x, r)] = " "
      <4>1. ~(r # n - 1) /\ ~(n < VGA_HEIGHT)
        BY <1>1, <2>6
      <4> QED
        BY <2>3, <4>1, Zenon
    <3>2. M[r] = Q.y
      BY <1>1, <1>2, <1>3, <2>6
    <3>3. \A m \in Q.marks : ~(m.y = Q.y)
      BY ScreenAssumption DEF Sheet, Columns
    <3> QED
      BY <3>1, <3>2, <3>3 DEF Ink
  <2> QED
    BY <1>1, <2>4, <2>5, <2>6
<1> QED
  BY <1>5 DEF Displays, M

\* A screen that is scrolled has one line more above it.
LEMMA AllScrolled ==
  ASSUME NEW a \in Nat
  PROVE  Lines(a, VGA_HEIGHT + 1) = Lines(a + 1, 1)
<1>1. \A r \in Rows : r \in Nat /\ r < VGA_HEIGHT /\ VGA_HEIGHT \in Nat
  BY ScreenAssumption DEF Rows
<1> QED
  BY <1>1 DEF Lines

\* A screen that displays a paper shows its marks, and nothing else if it was
\* clean.
LEMMA DisplayShows ==
  ASSUME NEW P, Sheet(P), NEW clean, Displays(terminal_buffer, P, clean, Lines(Above(P), 1))
  PROVE  ShowsMarks(P) /\ (clean => BlankElsewhere(P))
<1> DEFINE a == Above(P)
<1>1. a \in Nat /\ P.y - a \in Rows /\ P.y \in Nat /\ VGA_HEIGHT \in Nat
  BY AboveIs, ScreenAssumption DEF Sheet
<1>2. \A r \in Rows : r \in Nat /\ Lines(a, 1)[r] = r + a
  BY <1>1 DEF Lines, Rows
<1> HIDE DEF a
<1>3. ASSUME NEW m \in P.marks, m.y >= a
      PROVE  terminal_buffer[Cell(m.x, m.y - a)] = m.c
  <2>1. m.x \in Columns /\ m.y \in Nat /\ m.y <= P.y
    BY <1>1 DEF Sheet
  <2>2. m.y - a \in Rows
    BY <1>1, <1>3, <2>1 DEF Rows
  <2>3. Lines(a, 1)[m.y - a] = m.y
    BY <1>1, <1>2, <2>1, <2>2
  <2> QED
    BY <2>1, <2>2, <2>3 DEF Displays, Ink, a
<1>4. ASSUME clean, NEW x \in Columns, NEW y \in Rows,
             \A m \in P.marks : <<m.x, m.y>> # <<x, y + a>>
      PROVE  terminal_buffer[Cell(x, y)] = " "
  <2>1. Lines(a, 1)[y] = y + a
    BY <1>2
  <2>2. \A m \in P.marks : ~(m.x = x /\ m.y = y + a)
    BY <1>4
  <2> QED
    BY <1>4, <2>1, <2>2 DEF Displays, Ink, a
<1> QED
  BY <1>3, <1>4 DEF ShowsMarks, BlankElsewhere, Columns, Rows, a

-----------------------------------------------------------------------------
(* The inductive invariant *)

InPlace(P) == terminal_row = P.y - Above(P)

\* No character is being put: the screen shows the end of the paper P.
Settled(P, clean) ==
  /\ terminal_column = P.x /\ InPlace(P)
  /\ Displays(terminal_buffer, P, clean, Lines(Above(P), 1))
  /\ clean /\ text # <<>> => cursor = Cell(terminal_column, terminal_row)

\* A character that ends a line, on the paper.
EndsLine(P, Q) == Q.x = 0 /\ Q.y = P.y + 1

\* What the screen shows of the paper P, and of Q which has the character that
\* is being put as well, at each statement.
AtStatement(P, Q, clean) ==
  /\ pc \in {"return", "halted", "putchar"} => Settled(P, clean)
  /\ pc = "advance" =>
       /\ Head(todo) # NL /\ terminal_column = P.x /\ InPlace(P)
       /\ Displays(terminal_buffer, Q, clean, Lines(Above(P), 1))
       /\ cursor = Cell(terminal_column + 1, terminal_row)
  /\ pc \in {"column", "row"} =>
       /\ EndsLine(P, Q) /\ InPlace(P)
       /\ Displays(terminal_buffer, Q, clean, Lines(Above(P), 1))
       /\ terminal_column \in Nat /\ (pc = "row" => terminal_column = 0)
  /\ pc \in {"bottom", "scroll"} =>
       /\ EndsLine(P, Q) /\ terminal_column = 0 /\ P.y >= VGA_HEIGHT - 1
  /\ pc = "bottom" =>
       /\ terminal_row = VGA_HEIGHT
       /\ Displays(terminal_buffer, Q, clean, Lines(Above(P), 1))
  /\ pc = "scroll" =>
       /\ terminal_row = VGA_HEIGHT - 1 /\ line \in 1 .. VGA_HEIGHT
       /\ Displays(terminal_buffer, Q, clean, Lines(Above(P), line))
  /\ pc = "cursor" =>
       /\ EndsLine(P, Q) /\ terminal_column = 0 /\ InPlace(Q)
       /\ Displays(terminal_buffer, Q, clean, Lines(Above(Q), 1))

\* What has been put of the text since the screen was clean, or since the halt,
\* and the paper it makes.
SoFar == IF halt.halted THEN SubSeq(HaltMessage, 1, Len(HaltMessage) - Len(todo)) ELSE text
Now == IF halt.halted THEN Paper(halt.x, halt.y, SoFar) ELSE Paper(0, 0, SoFar)

Statements ==
  {"return", "halted", "putchar", "advance", "column", "row", "bottom", "scroll", "cursor"}

\* What is left of the message of a halt is the end of it.
RestOfMessage(s) ==
  /\ Len(s) <= Len(HaltMessage)
  /\ s = SubSeq(HaltMessage, Len(HaltMessage) - Len(s) + 1, Len(HaltMessage))

Texts ==
  /\ todo \in Seq(STRING) /\ text \in Seq(STRING)
  /\ pc \in Statements
  /\ pc \in {"return", "halted"} => todo = <<>>
  /\ pc \notin {"return", "halted", "putchar"} => todo # <<>>
  /\ halt.halted \in BOOLEAN
  /\ halt.halted =>
       halt.x \in Columns /\ halt.y \in Rows /\ pc # "return" /\ RestOfMessage(todo)

Regular ==
  /\ Texts
  /\ Sheet(Now)
  /\ AtStatement(Now, PutOnPaper(Now, Head(todo)), ~halt.halted)

\* The halt came with the cursor behind the last column or below the last row.
Beyond == halt.halted /\ ~(halt.x < VGA_WIDTH /\ halt.y < VGA_HEIGHT)

IInv == Beyond \/ Regular

\* The screen of tty_init.
LEMMA Starts == Init => IInv
<1> SUFFICES ASSUME Init PROVE Regular
  BY DEF IInv
<1>1. /\ halt.halted = FALSE
      /\ todo = <<>> /\ text = <<>> /\ pc = "return"
      /\ terminal_row = 0 /\ terminal_column = 0
  BY DEF Init, Running
<1>2. Texts
  <2>1. <<>> \in Seq(STRING)
    BY EmptySeq
  <2> QED
    BY <1>1, <2>1 DEF Texts, Statements
<1>3. PICK P : P = Now
  OBVIOUS
<1>4. P = [x |-> 0, y |-> 0, marks |-> {}]
  <2>1. Paper(0, 0, <<>>) = [x |-> 0, y |-> 0, marks |-> {}]
    BY PaperBlank
  <2> QED
    BY <1>1, <1>3, <2>1 DEF Now, SoFar
<1>5. P.x = 0 /\ P.y = 0 /\ P.marks = {}
  BY <1>4
<1>6. Sheet(P)
  BY <1>4, <1>5, ScreenAssumption DEF Sheet, Columns
<1>7. Above(P) = 0
  BY <1>5, ScreenAssumption DEF Above
<1>8. Displays(terminal_buffer, P, ~halt.halted, Lines(Above(P), 1))
  <2>1. ASSUME NEW x \in Columns, NEW r \in Rows
        PROVE  terminal_buffer[Cell(x, r)] = " "
    BY CellOnScreen DEF Init
  <2> QED
    BY <1>5, <2>1 DEF Displays, Ink
<1>9. Settled(P, ~halt.halted)
  BY <1>1, <1>5, <1>7, <1>8 DEF Settled, InPlace
<1>10. AtStatement(P, PutOnPaper(P, Head(todo)), ~halt.halted)
  BY <1>1, <1>9 DEF AtStatement
<1> QED
  BY <1>2, <1>3, <1>6, <1>10 DEF Regular

-----------------------------------------------------------------------------
(* What is printed *)

\* A statement that does not end a character leaves the paper as it is.
LEMMA SamePaper ==
  ASSUME todo' = todo, text' = text, halt' = halt
  PROVE  Now' = Now
  BY DEF Now, SoFar

\* A character that is done is on the paper, and the rest is still to be put.
LEMMA PaperGoesOn ==
  ASSUME Texts, Done, todo # <<>>, halt' = halt
  PROVE  Texts' /\ Now' = PutOnPaper(Now, Head(todo))
<1> DEFINE c == Head(todo)
<1>1. todo \in Seq(STRING) /\ text \in Seq(STRING) /\ halt.halted \in BOOLEAN
  BY DEF Texts
<1>2. c \in STRING /\ Tail(todo) \in Seq(STRING) /\ Len(Tail(todo)) = Len(todo) - 1
  BY <1>1, HeadTailProperties
<1>3. todo' = Tail(todo) /\ text' = Append(text, c) /\ pc' = "putchar"
  BY DEF Done
<1>4. text' \in Seq(STRING)
  BY <1>1, <1>2, <1>3
<1>5. CASE ~halt.halted
  <2>1. Texts'
    BY <1>2, <1>3, <1>4, <1>5, <1>1 DEF Texts, Statements
  <2>2. Now' = Paper(0, 0, Append(text, c)) /\ Now = Paper(0, 0, text)
    BY <1>3, <1>5 DEF Now, SoFar
  <2> HIDE DEF c
  <2>3. Paper(0, 0, Append(text, c)) = PutOnPaper(Paper(0, 0, text), c)
    BY <1>1, <1>2, PaperPut
  <2> QED
    BY <2>1, <2>2, <2>3 DEF c
<1>6. CASE halt.halted
  <2> DEFINE M == HaltMessage
             L == Len(M)
             n == L - Len(todo)
             s == SubSeq(M, 1, n)
  <2>1. M \in Seq(STRING) /\ L \in Nat
    BY ScreenAssumption
  <2>2. Len(todo) \in Nat /\ Len(todo) > 0 /\ Len(todo) <= L /\ todo = SubSeq(M, n + 1, L)
    BY <1>1, <1>6 DEF Texts, RestOfMessage
  <2>3. n \in Nat /\ n + 1 \in 1 .. L
    BY <2>1, <2>2
  <2>4. c = M[n + 1]
    <3>1. SubSeq(M, n + 1, L)[1] = M[(n + 1) + (1 - 1)]
      BY <2>1, <2>3, SubSeqProperties
    <3> QED
      BY <1>1, <2>2, <2>3, <3>1
  <2>5. Tail(todo) = SubSeq(M, (n + 1) + 1, L)
    BY <2>1, <2>2, <2>3
  <2>6. SubSeq(M, 1, n + 1) = Append(s, c)
    BY <2>1, <2>3, <2>4
  <2>7. s \in Seq(STRING)
    BY <2>1, <2>3
  <2>8. Len(todo') = Len(todo) - 1
    BY <1>2, <1>3
  <2>9. L - Len(todo') = n + 1
    BY <1>1, <2>1, <2>2, <2>8
  <2>10. RestOfMessage(todo)'
    BY <1>3, <2>2, <2>5, <2>8, <2>9 DEF RestOfMessage
  <2>11. Texts'
    BY <1>1, <1>2, <1>3, <1>4, <1>6, <2>10 DEF Texts, Statements
  <2>12. Now' = Paper(halt.x, halt.y, Append(s, c)) /\ Now = Paper(halt.x, halt.y, s)
    BY <1>6, <2>6, <2>9 DEF Now, SoFar
  <2> HIDE DEF c, s
  <2>13. Paper(halt.x, halt.y, Append(s, c)) = PutOnPaper(Paper(halt.x, halt.y, s), c)
    BY <1>2, <2>7, PaperPut
  <2> QED
    BY <2>11, <2>12, <2>13 DEF c
<1> QED
  BY <1>1, <1>5, <1>6


-----------------------------------------------------------------------------
(* The statements of tty_putchar *)

Midway == {"advance", "column", "row", "bottom", "scroll", "cursor"}

\* A statement of tty_putchar ends the character, which is now on the paper, or
\* goes on to another one.
GoesOn(P, Q, clean) ==
  \/ /\ todo' = todo /\ text' = text /\ pc' \in Midway
     /\ AtStatement(P, Q, clean)'
  \/ Done /\ Settled(Q, clean)'

\* The character reaches its cell.
LEMMA PutsEntry ==
  ASSUME NEW P, Sheet(P), NEW Q, Q = PutOnPaper(P, Head(todo)), NEW clean,
         AtStatement(P, Q, clean), tty_putentryat
  PROVE  GoesOn(P, Q, clean)
<1>1. /\ terminal_column = P.x /\ terminal_row = P.y - Above(P)
      /\ Displays(terminal_buffer, P, clean, Lines(Above(P), 1))
  BY DEF tty_putentryat, AtStatement, Settled, InPlace
<1>2. Head(todo) # NL
  BY DEF tty_putentryat
<1>3. terminal_buffer' = [k \in Cells |->
        IF k = Cell(P.x, P.y - Above(P)) THEN Head(todo) ELSE terminal_buffer[k]]
  BY <1>1 DEF tty_putentryat
<1>4. Displays(terminal_buffer', Q, clean, Lines(Above(P), 1))
  BY <1>1, <1>2, <1>3, CellPut
<1>5. /\ todo' = todo /\ text' = text /\ pc' = "advance"
      /\ terminal_row' = terminal_row /\ terminal_column' = terminal_column
      /\ cursor' = Cell(terminal_column + 1, terminal_row)
  BY DEF tty_putentryat, NextStatement
<1> QED
  BY <1>1, <1>2, <1>4, <1>5 DEF GoesOn, Midway, AtStatement, InPlace

\* The column goes on with the pen, which may have ended the line.
LEMMA Advances ==
  ASSUME NEW P, Sheet(P), NEW Q, Q = PutOnPaper(P, Head(todo)), NEW clean,
         AtStatement(P, Q, clean), advance
  PROVE  GoesOn(P, Q, clean)
<1>1. /\ Head(todo) # NL /\ terminal_column = P.x /\ terminal_row = P.y - Above(P)
      /\ Displays(terminal_buffer, Q, clean, Lines(Above(P), 1))
      /\ cursor = Cell(terminal_column + 1, terminal_row)
  BY DEF advance, AtStatement, InPlace
<1>2. IF P.x + 1 = VGA_WIDTH THEN Q.x = 0 /\ Q.y = P.y + 1
      ELSE Q.x = P.x + 1 /\ Q.y = P.y
  BY <1>1, PenMoves
<1>3. /\ terminal_buffer' = terminal_buffer /\ terminal_row' = terminal_row
      /\ cursor' = cursor /\ terminal_column' = P.x + 1
      /\ IF P.x + 1 = VGA_WIDTH THEN NextStatement("column") ELSE Done
  BY <1>1 DEF advance
<1>4. CASE P.x + 1 = VGA_WIDTH
  <2>1. pc' = "column" /\ todo' = todo /\ text' = text
    BY <1>3, <1>4 DEF NextStatement
  <2>2. P.x + 1 \in Nat
    BY DEF Sheet, Columns
  <2>3. AtStatement(P, Q, clean)'
    BY <1>1, <1>2, <1>3, <1>4, <2>1, <2>2 DEF AtStatement, EndsLine, InPlace
  <2> QED
    BY <2>1, <2>3 DEF GoesOn, Midway
<1>5. CASE P.x + 1 # VGA_WIDTH
  <2>1. Above(Q) = Above(P)
    BY <1>2, <1>5 DEF Above
  <2>2. Settled(Q, clean)'
    BY <1>1, <1>2, <1>3, <1>5, <2>1 DEF Settled, InPlace
  <2> QED
    BY <1>3, <1>5, <2>2 DEF GoesOn
<1> QED
  BY <1>4, <1>5

\* A line feed is no mark.
LEMMA FeedsLine ==
  ASSUME NEW P, Sheet(P), NEW Q, Q = PutOnPaper(P, Head(todo)), NEW clean,
         AtStatement(P, Q, clean), newline_character
  PROVE  GoesOn(P, Q, clean)
<1>1. /\ terminal_column = P.x /\ InPlace(P)
      /\ Displays(terminal_buffer, P, clean, Lines(Above(P), 1))
  BY DEF newline_character, AtStatement, Settled
<1>2. /\ todo' = todo /\ text' = text /\ pc' = "column" /\ terminal_buffer' = terminal_buffer
      /\ terminal_row' = terminal_row /\ terminal_column' = terminal_column
  BY DEF newline_character, NextStatement, screen
<1>3. Head(todo) = NL
  BY DEF newline_character
<1>4. Q.marks = P.marks /\ EndsLine(P, Q)
  BY <1>3, PenMoves DEF EndsLine
<1>5. Displays(terminal_buffer, Q, clean, Lines(Above(P), 1))
  BY <1>1, <1>4 DEF Displays, Ink
<1>6. P.x \in Nat
  BY DEF Sheet, Columns
<1> QED
  BY <1>1, <1>2, <1>4, <1>5, <1>6 DEF GoesOn, Midway, AtStatement, EndsLine, InPlace

\* The statements of new_line that move the column and the row.
LEMMA NewLine ==
  ASSUME NEW P, Sheet(P), NEW Q, Q = PutOnPaper(P, Head(todo)), NEW clean,
         AtStatement(P, Q, clean), new_line_column \/ new_line_row \/ new_line_bottom
  PROVE  GoesOn(P, Q, clean)
<1>1. CASE new_line_column
  <2>1. /\ EndsLine(P, Q) /\ InPlace(P)
        /\ Displays(terminal_buffer, Q, clean, Lines(Above(P), 1))
    BY <1>1 DEF new_line_column, AtStatement
  <2>2. /\ todo' = todo /\ text' = text /\ pc' = "row" /\ terminal_buffer' = terminal_buffer
        /\ terminal_row' = terminal_row /\ terminal_column' = 0
    BY <1>1 DEF new_line_column, NextStatement
  <2>3. AtStatement(P, Q, clean)'
    BY <2>1, <2>2 DEF AtStatement, EndsLine, InPlace
  <2> QED
    BY <2>2, <2>3 DEF GoesOn, Midway
<1>2. CASE new_line_row
  <2>1. /\ EndsLine(P, Q) /\ terminal_row = P.y - Above(P) /\ terminal_column = 0
        /\ Displays(terminal_buffer, Q, clean, Lines(Above(P), 1))
    BY <1>2 DEF new_line_row, AtStatement, InPlace
  <2>2. /\ todo' = todo /\ text' = text /\ terminal_buffer' = terminal_buffer
        /\ terminal_row' = terminal_row + 1 /\ terminal_column' = terminal_column
        /\ pc' = IF terminal_row' >= VGA_HEIGHT THEN "bottom" ELSE "cursor"
    BY <1>2 DEF new_line_row, NextStatement
  <2>3. /\ Above(P) \in Nat /\ P.y - Above(P) \in Rows /\ P.y \in Nat /\ VGA_HEIGHT \in Nat
        /\ Above(P) = 0 \/ P.y - Above(P) = VGA_HEIGHT - 1
    BY AboveIs, ScreenAssumption DEF Sheet
  <2>4. CASE terminal_row' >= VGA_HEIGHT
    <3>1. terminal_row' = VGA_HEIGHT /\ P.y >= VGA_HEIGHT - 1
      BY <2>1, <2>2, <2>3, <2>4 DEF Rows
    <3>2. pc' = "bottom"
      BY <2>2, <2>4
    <3>3. AtStatement(P, Q, clean)'
      BY <2>1, <2>2, <3>1, <3>2 DEF AtStatement, EndsLine
    <3> QED
      BY <2>2, <3>2, <3>3 DEF GoesOn, Midway
  <2>5. CASE ~(terminal_row' >= VGA_HEIGHT)
    <3>1. Above(P) = 0 /\ P.y + 1 < VGA_HEIGHT
      BY <2>1, <2>2, <2>3, <2>5 DEF Rows
    <3>2. Above(Q) = 0 /\ Q.y = P.y + 1
      BY <2>1, <3>1 DEF Above, EndsLine
    <3>3. pc' = "cursor" /\ terminal_row' = Q.y - Above(Q)
      BY <2>1, <2>2, <2>3, <2>5, <3>1, <3>2
    <3>4. AtStatement(P, Q, clean)'
      BY <2>1, <2>2, <3>1, <3>2, <3>3 DEF AtStatement, EndsLine, InPlace
    <3> QED
      BY <2>2, <3>3, <3>4 DEF GoesOn, Midway
  <2> QED
    BY <2>4, <2>5
<1>3. CASE new_line_bottom
  <2>1. /\ EndsLine(P, Q) /\ terminal_column = 0 /\ P.y >= VGA_HEIGHT - 1
        /\ Displays(terminal_buffer, Q, clean, Lines(Above(P), 1))
    BY <1>3 DEF new_line_bottom, AtStatement
  <2>2. /\ todo' = todo /\ text' = text /\ pc' = "scroll" /\ terminal_buffer' = terminal_buffer
        /\ terminal_row' = VGA_HEIGHT - 1 /\ terminal_column' = terminal_column /\ line' = 1
    BY <1>3 DEF new_line_bottom, NextStatement
  <2>3. 1 \in 1 .. VGA_HEIGHT
    BY ScreenAssumption
  <2>4. AtStatement(P, Q, clean)'
    BY <2>1, <2>2, <2>3 DEF AtStatement, EndsLine
  <2> QED
    BY <2>2, <2>4 DEF GoesOn, Midway
<1> QED
  BY <1>1, <1>2, <1>3

\* A line is scrolled, the last one with the rows in their new places.
LEMMA ScrollsLine ==
  ASSUME NEW P, Sheet(P), NEW Q, Q = PutOnPaper(P, Head(todo)), NEW clean,
         AtStatement(P, Q, clean), tty_scroll
  PROVE  GoesOn(P, Q, clean)
<1> DEFINE a == Above(P)
<1>1. /\ Q.x = 0 /\ Q.y = P.y + 1 /\ terminal_column = 0 /\ P.y >= VGA_HEIGHT - 1
      /\ terminal_row = VGA_HEIGHT - 1 /\ line \in 1 .. VGA_HEIGHT
      /\ Displays(terminal_buffer, Q, clean, Lines(a, line))
  BY DEF tty_scroll, AtStatement, EndsLine
<1>2. /\ todo' = todo /\ text' = text
      /\ terminal_row' = terminal_row /\ terminal_column' = terminal_column
      /\ line' = line + 1 /\ pc' = IF line = VGA_HEIGHT THEN "cursor" ELSE "scroll"
  BY DEF tty_scroll, NextStatement
<1>3. P.y \in Nat /\ VGA_HEIGHT \in Nat
  BY ScreenAssumption DEF Sheet
<1>4. a \in Nat /\ Q.y = a + VGA_HEIGHT /\ Above(Q) = a + 1
  BY <1>1, <1>3 DEF Above
<1>5. Scrolls(terminal_buffer', terminal_buffer, line)
  BY DEF tty_scroll, Scrolls
<1>6. Sheet(Q)
  BY PenMoves
<1> HIDE DEF a
<1>7. Displays(terminal_buffer', Q, clean, Lines(a, line + 1))
  BY <1>1, <1>4, <1>5, <1>6, LineScrolled
<1>8. CASE line = VGA_HEIGHT
  <2>1. Displays(terminal_buffer', Q, clean, Lines(Above(Q), 1))
    BY <1>4, <1>7, <1>8, AllScrolled
  <2>2. terminal_row' = Q.y - Above(Q)
    BY <1>1, <1>2, <1>3, <1>4
  <2>3. pc' = "cursor"
    BY <1>2, <1>8
  <2>4. AtStatement(P, Q, clean)'
    BY <1>1, <1>2, <2>1, <2>2, <2>3 DEF AtStatement, EndsLine, InPlace
  <2> QED
    BY <1>2, <2>3, <2>4 DEF GoesOn, Midway
<1>9. CASE line # VGA_HEIGHT
  <2>1. pc' = "scroll" /\ line + 1 \in 1 .. VGA_HEIGHT
    BY <1>1, <1>2, <1>3, <1>9
  <2>2. AtStatement(P, Q, clean)'
    BY <1>1, <1>2, <1>7, <2>1 DEF AtStatement, EndsLine, a
  <2> QED
    BY <1>2, <2>1, <2>2 DEF GoesOn, Midway
<1> QED
  BY <1>8, <1>9

\* The cursor follows, and the line is new.
LEMMA MovesCursor ==
  ASSUME NEW P, NEW Q, NEW clean, AtStatement(P, Q, clean), new_line_cursor
  PROVE  GoesOn(P, Q, clean)
<1>1. /\ EndsLine(P, Q) /\ terminal_column = 0 /\ InPlace(Q)
      /\ Displays(terminal_buffer, Q, clean, Lines(Above(Q), 1))
  BY DEF new_line_cursor, AtStatement
<1>2. /\ terminal_buffer' = terminal_buffer /\ terminal_row' = terminal_row
      /\ terminal_column' = terminal_column /\ Done
      /\ cursor' = Cell(terminal_column, terminal_row)
  BY DEF new_line_cursor
<1>3. Settled(Q, clean)'
  BY <1>1, <1>2 DEF Settled, EndsLine, InPlace
<1> QED
  BY <1>2, <1>3 DEF GoesOn


\* A statement of tty_putchar keeps the paper or puts a character on it.
LEMMA PutcharStep ==
  ASSUME Regular, tty_putchar
  PROVE  Regular'
<1>1. PICK P : P = Now
  OBVIOUS
<1>2. PICK Q : Q = PutOnPaper(P, Head(todo))
  OBVIOUS
<1>3. PICK clean : clean = ~halt.halted
  OBVIOUS
<1>4. Texts /\ Sheet(P) /\ AtStatement(P, Q, clean)
  BY <1>1, <1>2, <1>3 DEF Regular
<1>5. GoesOn(P, Q, clean)
  BY <1>2, <1>4, PutsEntry, Advances, FeedsLine, NewLine, ScrollsLine, MovesCursor
     DEF tty_putchar
<1>6. halt' = halt /\ todo # <<>>
  BY <1>4 DEF Texts, tty_putchar, tty_putentryat, advance, newline_character, new_line_column,
              new_line_row, new_line_bottom, tty_scroll, new_line_cursor
<1>7. CASE todo' = todo /\ text' = text /\ pc' \in Midway /\ AtStatement(P, Q, clean)'
  <2>1. Now' = P
    BY <1>1, <1>6, <1>7, SamePaper
  <2>2. Texts'
    BY <1>4, <1>6, <1>7 DEF Texts, Statements, Midway, RestOfMessage
  <2>3. AtStatement(Now, PutOnPaper(Now, Head(todo)), ~halt.halted)'
    BY <1>2, <1>3, <1>6, <1>7, <2>1 DEF AtStatement, Settled, InPlace, Midway
  <2> QED
    BY <1>4, <2>1, <2>2, <2>3 DEF Regular
<1>8. CASE Done /\ Settled(Q, clean)'
  <2>1. Texts' /\ Now' = Q
    BY <1>1, <1>2, <1>4, <1>6, <1>8, PaperGoesOn
  <2>2. Sheet(Q)
    BY <1>2, <1>4, PenMoves
  <2>3. AtStatement(Now, PutOnPaper(Now, Head(todo)), ~halt.halted)'
    BY <1>3, <1>6, <1>8, <2>1 DEF Done, AtStatement, Settled, InPlace
  <2> QED
    BY <2>1, <2>2, <2>3 DEF Regular
<1> QED
  BY <1>5, <1>7, <1>8 DEF GoesOn

-----------------------------------------------------------------------------
(* Calls and the halt *)

\* A call starts where the last one ended.
LEMMA BeginStep ==
  ASSUME Regular, NEW characters \in Seq(STRING), NEW echoes, Begin(characters, echoes)
  PROVE  Regular'
<1>1. /\ pc = "return" /\ todo' = characters /\ pc' = "putchar" /\ text' = text /\ halt' = halt
      /\ terminal_buffer' = terminal_buffer /\ terminal_row' = terminal_row
      /\ terminal_column' = terminal_column /\ cursor' = cursor
  BY DEF Begin, screen
<1>2. PICK P : P = Now
  OBVIOUS
<1>3. PICK clean : clean = ~halt.halted
  OBVIOUS
<1>4. Texts /\ ~halt.halted /\ Sheet(P) /\ Settled(P, clean)
  BY <1>1, <1>2, <1>3 DEF Regular, Texts, AtStatement
<1>5. Now' = P
  BY <1>1, <1>2, <1>4 DEF Now, SoFar
<1>6. Texts'
  BY <1>1, <1>4 DEF Texts, Statements
<1>7. Settled(P, clean)'
  BY <1>1, <1>4 DEF Settled, InPlace
<1>8. AtStatement(Now, PutOnPaper(Now, Head(todo)), ~halt.halted)'
  BY <1>1, <1>3, <1>5, <1>7 DEF AtStatement, Settled, InPlace
<1> QED
  BY <1>4, <1>5, <1>6, <1>8 DEF Regular

\* The call of kprintf, and the echo of a key.
LEMMA CallStep ==
  ASSUME Regular, (\E directives \in Calls : Kprintf(directives)) \/ keyboard_getchar
  PROVE  Regular'
<1>1. CASE \E directives \in Calls : Kprintf(directives)
  <2>1. PICK directives \in Calls, junk \in Junk : CallKprintf(directives, Printing(directives, junk))
    BY <1>1 DEF Kprintf
  <2>2. PICK p : p = Printing(directives, junk)
    OBVIOUS
  <2>3. p.out \in Seq(STRING)
    BY <2>2, CallsAssumption
  <2>4. PICK rest : rest = IF p.trap THEN PanicMessage ELSE <<>>
    OBVIOUS
  <2>5. rest \in Seq(STRING)
    BY <2>4, EmptySeq, ScreenAssumption
  <2>6. p.out \o rest \in Seq(STRING)
    BY <2>3, <2>5, ConcatProperties
  <2>7. Begin(p.out \o rest, FALSE)
    BY <2>1, <2>2, <2>4 DEF CallKprintf
  <2> QED
    BY <2>6, <2>7, BeginStep
<1>2. CASE keyboard_getchar
  <2>1. PICK c \in Keys : Begin(<<c>>, TRUE)
    BY <1>2 DEF keyboard_getchar
  <2>2. <<c>> \in Seq(STRING)
    <3>1. c \in STRING
      BY ScreenAssumption
    <3>2. Append(<<>>, c) \in Seq(STRING)
      BY <3>1, EmptySeq, AppendProperties
    <3> QED
      BY <3>2
  <2> QED
    BY <2>1, <2>2, BeginStep
<1> QED
  BY <1>1, <1>2

\* A call that is over leaves the screen as it is.
LEMMA ReturnStep ==
  ASSUME Regular, Return
  PROVE  Regular'
<1>1. /\ pc = "putchar" /\ todo = <<>> /\ todo' = todo /\ text' = text /\ halt' = halt
      /\ terminal_buffer' = terminal_buffer /\ terminal_row' = terminal_row
      /\ terminal_column' = terminal_column /\ cursor' = cursor
  BY DEF Return, screen
<1>2. pc' \in {"return", "halted"} /\ (halt.halted => pc' = "halted")
  BY DEF Return
<1>3. PICK P : P = Now
  OBVIOUS
<1>4. PICK clean : clean = ~halt.halted
  OBVIOUS
<1>5. Texts /\ Sheet(P) /\ Settled(P, clean)
  BY <1>1, <1>3, <1>4 DEF Regular, AtStatement
<1>6. Now' = P
  BY <1>1, <1>3, SamePaper
<1>7. Texts'
  BY <1>1, <1>2, <1>5 DEF Texts, Statements, RestOfMessage
<1>8. AtStatement(Now, PutOnPaper(Now, Head(todo)), ~halt.halted)'
  BY <1>1, <1>2, <1>4, <1>5, <1>6 DEF AtStatement, Settled, InPlace
<1> QED
  BY <1>5, <1>6, <1>7, <1>8 DEF Regular

\* The message of the halt starts on a paper of its own, wherever the cursor is.
LEMMA HaltStep ==
  ASSUME Regular, schedule_halt
  PROVE  IInv'
<1>1. /\ halt'.halted = TRUE /\ halt'.x = terminal_column /\ halt'.y = terminal_row
      /\ todo' = HaltMessage /\ pc' = "putchar" /\ text' = text
      /\ terminal_buffer' = terminal_buffer /\ terminal_row' = terminal_row
      /\ terminal_column' = terminal_column
  BY DEF schedule_halt, screen
<1>2. terminal_column \in Nat /\ terminal_row \in Nat
  <2>1. PICK P : P = Now
    OBVIOUS
  <2>2. PICK Q : Q = PutOnPaper(P, Head(todo))
    OBVIOUS
  <2>3. pc \in Statements /\ Sheet(P) /\ AtStatement(P, Q, ~halt.halted)
    BY <2>1, <2>2 DEF Regular, Texts
  <2>4. Sheet(Q)
    BY <2>2, <2>3, PenMoves
  <2>5. P.y - Above(P) \in Nat /\ Q.y - Above(Q) \in Nat /\ P.x \in Nat
    BY <2>3, <2>4, AboveIs DEF Rows, Sheet, Columns
  <2> QED
    BY <2>3, <2>5, ScreenAssumption DEF AtStatement, Settled, InPlace, Statements
<1>3. SUFFICES ASSUME terminal_column < VGA_WIDTH, terminal_row < VGA_HEIGHT
               PROVE  Regular'
  BY <1>1 DEF IInv, Beyond
<1>4. terminal_column \in Columns /\ terminal_row \in Rows
  BY <1>2, <1>3, ScreenAssumption DEF Columns, Rows
<1>5. HaltMessage \in Seq(STRING) /\ Len(HaltMessage) \in Nat
  BY ScreenAssumption
<1>6. Texts'
  <2>1. SubSeq(HaltMessage, Len(HaltMessage) - Len(HaltMessage) + 1, Len(HaltMessage)) = HaltMessage
    BY <1>5, SubSeqFull
  <2>2. RestOfMessage(todo)'
    BY <1>1, <1>5, <2>1 DEF RestOfMessage
  <2>3. text \in Seq(STRING)
    BY DEF Regular, Texts
  <2> QED
    BY <1>1, <1>4, <1>5, <2>2, <2>3 DEF Texts, Statements
<1>7. PICK P : P = Paper(terminal_column, terminal_row, <<>>)
  OBVIOUS
<1>8. Now' = P
  <2>1. SubSeq(HaltMessage, 1, Len(HaltMessage) - Len(HaltMessage)) = <<>>
    BY <1>5, SubSeqEmpty
  <2> QED
    BY <1>1, <1>7, <2>1 DEF Now, SoFar
<1>9. P = [x |-> terminal_column, y |-> terminal_row, marks |-> {}]
  BY <1>7, PaperBlank
<1>10. P.x = terminal_column /\ P.y = terminal_row /\ P.marks = {}
  BY <1>9
<1>11. Sheet(P)
  BY <1>2, <1>4, <1>9, <1>10 DEF Sheet
<1>12. Above(P) = 0
  BY <1>3, <1>10 DEF Above
<1>13. PICK clean : clean = ~halt'.halted
  OBVIOUS
<1>14. Displays(terminal_buffer, P, clean, Lines(Above(P), 1))
  BY <1>1, <1>10, <1>13 DEF Displays, Ink
<1>15. Settled(P, clean)'
  <2>1. ~clean
    BY <1>1, <1>13, Zenon
  <2> QED
    BY <1>1, <1>2, <1>10, <1>12, <1>14, <2>1 DEF Settled, InPlace
<1>16. AtStatement(Now, PutOnPaper(Now, Head(todo)), ~halt.halted)'
  BY <1>1, <1>8, <1>13, <1>15 DEF AtStatement, Settled, InPlace
<1> QED
  BY <1>6, <1>8, <1>11, <1>16 DEF Regular

-----------------------------------------------------------------------------
(* The theorems *)

LEMMA Inductive == IInv /\ [Next]_vars => IInv'
<1> SUFFICES ASSUME IInv, [Next]_vars PROVE IInv'
  OBVIOUS
<1>1. CASE UNCHANGED vars
  <2>1. /\ halt' = halt /\ todo' = todo /\ text' = text /\ pc' = pc /\ line' = line
        /\ terminal_buffer' = terminal_buffer /\ terminal_row' = terminal_row
        /\ terminal_column' = terminal_column /\ cursor' = cursor
    BY <1>1 DEF vars, screen
  <2>2. Now' = Now
    BY <2>1, SamePaper
  <2> QED
    BY <2>1, <2>2 DEF IInv, Beyond, Regular, Texts, RestOfMessage, AtStatement, Settled, InPlace
<1>2. CASE Next /\ Beyond
  <2>1. halt' = halt
    BY <1>2 DEF Next, Beyond, Kprintf, CallKprintf, Begin, keyboard_getchar, schedule_halt,
                Return, tty_putchar, tty_putentryat, advance, newline_character,
                new_line_column, new_line_row, new_line_bottom, tty_scroll, new_line_cursor
  <2> QED
    BY <1>2, <2>1 DEF IInv, Beyond
<1>3. CASE Next /\ Regular
  BY <1>3, CallStep, HaltStep, PutcharStep, ReturnStep DEF Next, IInv
<1> QED
  BY <1>1, <1>2, <1>3 DEF IInv

\* Whatever is printed and wherever a tick halts the system, the cells are those
\* of the paper, but for the line that is being scrolled, the character that is
\* being put and what a halt off the screen left.  (tty.c:50-125)
THEOREM Invariance == Spec => []IInv
  BY Starts, Inductive, PTL DEF Spec

\* Between two calls the screen is the end of the paper that the text makes, on
\* a screen of any size, for every text.  (tty.c:83-125)
THEOREM TextIsShown == Spec => []ShowsText
<1>1. IInv => ShowsText
  <2> SUFFICES ASSUME IInv, pc \in {"return", "halted"}, ~halt.halted
               PROVE  /\ ShowsMarks(Paper(0, 0, text)) /\ BlankElsewhere(Paper(0, 0, text))
                      /\ terminal_column = Paper(0, 0, text).x
                      /\ terminal_row = Paper(0, 0, text).y - Above(Paper(0, 0, text))
                      /\ text # <<>> => cursor = Cell(terminal_column, terminal_row)
    BY DEF ShowsText
  <2>1. PICK P : P = Paper(0, 0, text)
    OBVIOUS
  <2>2. Now = P
    BY <2>1 DEF Now, SoFar
  <2>3. Sheet(P) /\ Settled(P, ~halt.halted)
    BY <2>2 DEF IInv, Beyond, Regular, AtStatement
  <2>4. ShowsMarks(P) /\ BlankElsewhere(P)
    BY <2>3, DisplayShows DEF Settled
  <2> QED
    BY <2>1, <2>3, <2>4 DEF Settled, InPlace
<1> QED
  BY <1>1, Invariance, PTL

\* The reason of a halt can be read, for every message and every place in
\* tty_putchar the tick fell, but for the ones HaltIsReadable excludes.
\* (tty.c:121, scheduler.c:35)
THEOREM ReasonIsShown == Spec => []HaltIsReadable
<1>1. IInv => HaltIsReadable
  <2> SUFFICES ASSUME IInv, pc = "halted", halt.halted,
                      halt.x < VGA_WIDTH, halt.y < VGA_HEIGHT
               PROVE  ShowsMarks(Paper(halt.x, halt.y, HaltMessage))
    BY DEF HaltIsReadable
  <2>1. Regular
    BY DEF IInv, Beyond
  <2>2. todo = <<>> /\ HaltMessage \in Seq(STRING)
    BY <2>1, ScreenAssumption DEF Regular, Texts
  <2>3. SubSeq(HaltMessage, 1, Len(HaltMessage) - Len(todo)) = HaltMessage
    <3>1. Len(HaltMessage) \in Nat /\ Len(todo) = 0
      BY <2>2, EmptySeq
    <3> QED
      BY <2>2, <3>1, SubSeqFull
  <2>4. PICK P : P = Paper(halt.x, halt.y, HaltMessage)
    OBVIOUS
  <2>5. Now = P
    BY <2>3, <2>4 DEF Now, SoFar
  <2>6. Sheet(P) /\ Settled(P, ~halt.halted)
    BY <2>1, <2>5 DEF Regular, AtStatement
  <2>7. ShowsMarks(P)
    BY <2>6, DisplayShows DEF Settled
  <2> QED
    BY <2>4, <2>7
<1> QED
  BY <1>1, Invariance, PTL


=============================================================================
