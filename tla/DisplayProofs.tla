---------------------------- MODULE DisplayProofs ----------------------------
(***************************************************************************)
(* Proofs about Display and the screen in it, for every width and height,  *)
(* every length of a tab and any characters.                               *)
(***************************************************************************)
EXTENDS Display, SequenceTheorems, WellFoundedInduction, TLAPS

-----------------------------------------------------------------------------
(* Rows and columns                                                        *)

Rows == 0 .. Height - 1
CellAt(x, y) == Width * y + x

LEMMA SizeFacts ==
    /\ Width \in Nat /\ Height \in Nat /\ TabStop \in Nat
    /\ Width > 2 /\ Height > 1 /\ TabStop > 0 /\ Width > TabStop + 1
    /\ Width * Height \in Nat
BY ScreenAssumption

\* A row ends before the next one begins.
LEMMA RowsApart ==
    ASSUME NEW y \in Int, NEW z \in Int, y < z
    PROVE  Width * y + Width <= Width * z
<1>1. Width \in Nat
  BY SizeFacts
<1>2. z - y - 1 \in Nat
  OBVIOUS
<1>3. Width * (z - y - 1) >= 0
  BY <1>1, <1>2
<1>4. Width * (z - y - 1) = Width * z - Width * y - Width
  BY <1>1
<1> QED
  BY <1>1, <1>3, <1>4

LEMMA CellIn ==
    ASSUME NEW x \in Columns, NEW y \in Rows
    PROVE  CellAt(x, y) \in Cells
<1>1. Width * y + Width <= Width * Height
  BY RowsApart, SizeFacts DEF Rows
<1>2. Width * y \in Nat
  BY SizeFacts DEF Rows
<1> QED
  BY <1>1, <1>2, SizeFacts DEF CellAt, Cells, Columns, Rows

LEMMA CellUnique ==
    ASSUME NEW x \in Columns, NEW u \in Columns, NEW y \in Rows, NEW v \in Rows,
           CellAt(x, y) = CellAt(u, v)
    PROVE  x = u /\ y = v
<1>1. Width * y \in Int /\ Width * v \in Int
  BY SizeFacts DEF Rows
<1>2. ~(y < v)
  BY <1>1, RowsApart, SizeFacts DEF CellAt, Columns, Rows
<1>3. ~(v < y)
  BY <1>1, RowsApart, SizeFacts DEF CellAt, Columns, Rows
<1>4. y = v
  BY <1>2, <1>3 DEF Rows
<1> QED
  BY <1>1, <1>4, SizeFacts DEF CellAt, Columns

LEMMA EveryCell ==
    ASSUME NEW c \in Cells
    PROVE  /\ c % Width \in Columns /\ c \div Width \in Rows
           /\ c = CellAt(c % Width, c \div Width)
<1>1. c \in Int /\ c >= 0 /\ c < Width * Height
  BY SizeFacts DEF Cells
<1>2. /\ c \div Width \in Int /\ c % Width \in 0 .. Width - 1
      /\ c = Width * (c \div Width) + (c % Width)
  BY <1>1, SizeFacts
<1>3. c \div Width >= 0
  BY <1>1, <1>2, SizeFacts, RowsApart
<1>4. c \div Width < Height
  BY <1>1, <1>2, SizeFacts, RowsApart
<1> QED
  BY <1>2, <1>3, <1>4, SizeFacts DEF Columns, Rows, CellAt

LEMMA PlaceOfCell ==
    ASSUME NEW x \in Columns, NEW y \in Rows
    PROVE  CellAt(x, y) % Width = x /\ CellAt(x, y) \div Width = y
BY CellIn, EveryCell, CellUnique

LEMMA CellBelow ==
    ASSUME NEW x \in Columns, NEW y \in Rows
    PROVE  /\ CellAt(x, y) + Width = CellAt(x, y + 1)
           /\ CellAt(x, y) + Width \in Cells <=> y < Height - 1
<1>1. CellAt(x, y) + Width = CellAt(x, y + 1)
  BY SizeFacts DEF CellAt, Columns, Rows
<1>2. CASE y < Height - 1
  BY <1>1, <1>2, CellIn, SizeFacts DEF Rows
<1>3. CASE y = Height - 1
  BY <1>1, <1>3, SizeFacts DEF CellAt, Cells, Columns, Rows
<1> QED
  BY <1>1, <1>2, <1>3, SizeFacts DEF Rows

LEMMA CellBefore ==
    ASSUME NEW x \in Columns, NEW y \in Rows
    PROVE  CellAt(x, y) - 1 = IF x = 0 THEN CellAt(Width - 1, y - 1) ELSE CellAt(x - 1, y)
BY SizeFacts DEF CellAt, Columns, Rows

LEMMA CellsOfRow ==
    ASSUME NEW x \in Columns, NEW y \in Rows, NEW u \in Columns, NEW v \in Rows,
           NEW n \in Nat, u + n <= Width
    PROVE  CellAt(x, y) \in CellAt(u, v) .. CellAt(u, v) + n - 1
               <=> y = v /\ x \in u .. u + n - 1
<1>1. Width * y \in Int /\ Width * v \in Int
  BY SizeFacts DEF Rows
<1>2. CASE y < v
  BY <1>1, <1>2, RowsApart, SizeFacts DEF CellAt, Columns, Rows
<1>3. CASE v < y
  BY <1>1, <1>3, RowsApart, SizeFacts DEF CellAt, Columns, Rows
<1>4. CASE y = v
  BY <1>1, <1>4, SizeFacts DEF CellAt, Columns, Rows
<1> QED
  BY <1>2, <1>3, <1>4 DEF Rows

LEMMA LeastElement ==
    ASSUME NEW T, T \subseteq Nat, T # {}
    PROVE  \E m \in T : \A k \in T : m <= k
<1>1. PICK m \in T : \A k \in T : <<k, m>> \notin OpToRel(<, Nat)
  BY NatLessThanWellFounded, WFMin
<1>2. \A k \in T : ~(k < m)
  BY <1>1 DEF OpToRel
<1> QED
  BY <1>2

-----------------------------------------------------------------------------
(* The screen and the text                                                 *)

Glyphs == Chars \cup {NUL, Space}
Lines == [Columns -> Glyphs]
Buffers == [Cells -> Glyphs]
Screens == [x : 0 .. Width, y : Rows, buf : Buffers]
Texts == {t \in Seq(Lines) : Len(t) \in 1 .. Height}

\* What the text has in a column of a row.
Shown(t, x, y) == IF y < Len(t) THEN t[y + 1][x] ELSE NUL

\* The cells are those of the text, and its last line is the row of the cursor.
Agree(b, y, t) ==
    /\ y = Len(t) - 1
    /\ \A u \in Columns, v \in Rows : b[CellAt(u, v)] = Shown(t, u, v)

LEMMA EmptyLineFacts == EmptyLine \in Lines /\ Blank \in Buffers
BY DEF EmptyLine, Lines, Glyphs, Blank, Buffers

LEMMA GrowFacts ==
    ASSUME NEW t \in Texts, scrolls \in BOOLEAN
    PROVE  /\ Grow(t) \in Texts
           /\ Len(Grow(t)) = IF Len(t) < Height THEN Len(t) + 1 ELSE Len(t)
           /\ \A u \in Columns, v \in Rows :
                  Shown(Grow(t), u, v) =
                      IF Len(t) = Height /\ scrolls
                      THEN IF v < Height - 1 THEN Shown(t, u, v + 1) ELSE NUL
                      ELSE Shown(t, u, v)
<1>1. t \in Seq(Lines) /\ Len(t) \in 1 .. Height /\ Height \in Nat
  BY SizeFacts DEF Texts
<1>2. CASE Len(t) < Height
  <2>1. Grow(t) = Append(t, EmptyLine)
    BY <1>2 DEF Grow
  <2>2. Grow(t) \in Seq(Lines) /\ Len(Grow(t)) = Len(t) + 1
    BY <1>1, <2>1, EmptyLineFacts
  <2>3. \A k \in 1 .. Len(t) : Grow(t)[k] = t[k]
    BY <1>1, <2>1
  <2>4. Grow(t)[Len(t) + 1] = EmptyLine
    BY <1>1, <2>1
  <2>5. \A u \in Columns, v \in Rows : Shown(Grow(t), u, v) = Shown(t, u, v)
    BY <1>1, <2>2, <2>3, <2>4 DEF Shown, Rows, EmptyLine
  <2> QED
    BY <1>1, <1>2, <2>2, <2>5 DEF Texts
<1>3. CASE Len(t) = Height /\ scrolls
  <2>1. Grow(t) = Append(Tail(t), EmptyLine)
    BY <1>3 DEF Grow
  <2>2. /\ Tail(t) \in Seq(Lines) /\ Len(Tail(t)) = Len(t) - 1
        /\ \A k \in 1 .. Len(t) - 1 : Tail(t)[k] = t[k + 1]
    BY <1>1
  <2>3. Grow(t) \in Seq(Lines) /\ Len(Grow(t)) = Len(t)
    BY <1>1, <2>1, <2>2, EmptyLineFacts
  <2>4. \A k \in 1 .. Len(t) - 1 : Grow(t)[k] = t[k + 1]
    BY <1>1, <2>1, <2>2
  <2>5. Grow(t)[Len(t)] = EmptyLine
    BY <1>1, <2>1, <2>2
  <2>6. \A u \in Columns, v \in Rows :
            Shown(Grow(t), u, v) = IF v < Height - 1 THEN Shown(t, u, v + 1) ELSE NUL
    BY <1>1, <1>3, <2>3, <2>4, <2>5 DEF Shown, Rows, EmptyLine
  <2> QED
    BY <1>1, <1>3, <2>3, <2>6 DEF Texts
<1>4. CASE Len(t) = Height /\ ~scrolls
  BY <1>1, <1>4 DEF Grow, Texts
<1> QED
  BY <1>1, <1>2, <1>3, <1>4

LEMMA NewLineFacts ==
    ASSUME NEW s \in Screens, scrolls \in BOOLEAN
    PROVE  /\ NewLine(s) \in Screens
           /\ NewLine(s).x = 0
           /\ NewLine(s).y = IF s.y = Height - 1 THEN s.y ELSE s.y + 1
           /\ \A u \in Columns, v \in Rows :
                  NewLine(s).buf[CellAt(u, v)] =
                      IF s.y = Height - 1 /\ scrolls
                      THEN IF v < Height - 1 THEN s.buf[CellAt(u, v + 1)] ELSE NUL
                      ELSE s.buf[CellAt(u, v)]
<1>1. s.buf \in Buffers /\ s.y \in Rows /\ 0 \in 0 .. Width
  BY SizeFacts DEF Screens
<1>2. scroll_up(s.buf) \in Buffers
  BY <1>1 DEF scroll_up, Buffers, Glyphs
<1>3. \A u \in Columns, v \in Rows :
          scroll_up(s.buf)[CellAt(u, v)] =
              IF v < Height - 1 THEN s.buf[CellAt(u, v + 1)] ELSE NUL
  BY CellIn, CellBelow DEF scroll_up
<1>4. CASE s.y = Height - 1
  <2>1. NewLine(s) = [s EXCEPT !.x = 0, !.buf = IF scrolls THEN scroll_up(@) ELSE @]
    BY <1>4 DEF NewLine
  <2>2. /\ NewLine(s).x = 0 /\ NewLine(s).y = s.y
        /\ NewLine(s).buf = IF scrolls THEN scroll_up(s.buf) ELSE s.buf
        /\ NewLine(s) \in Screens
    BY <1>1, <1>2, <2>1 DEF Screens
  <2> QED
    BY <1>3, <1>4, <2>2
<1>5. CASE s.y # Height - 1
  <2>1. NewLine(s) = [s EXCEPT !.x = 0, !.y = @ + 1]
    BY <1>5 DEF NewLine
  <2>2. s.y + 1 \in Rows
    BY <1>1, <1>5, SizeFacts DEF Rows
  <2>3. /\ NewLine(s).x = 0 /\ NewLine(s).y = s.y + 1 /\ NewLine(s).buf = s.buf
        /\ NewLine(s) \in Screens
    BY <1>1, <2>1, <2>2 DEF Screens
  <2> QED
    BY <1>5, <2>3
<1> QED
  BY <1>4, <1>5

\* The end of a line: the screen and the text stay in agreement.
LEMMA NewLineAgrees ==
    ASSUME NEW s \in Screens, NEW t \in Texts, scrolls \in BOOLEAN, Agree(s.buf, s.y, t)
    PROVE  Agree(NewLine(s).buf, NewLine(s).y, Grow(t))
<1>1. Len(t) \in 1 .. Height /\ Height \in Nat /\ s.y = Len(t) - 1
  BY SizeFacts DEF Texts, Agree
<1>2. NewLine(s).y = Len(Grow(t)) - 1
  BY <1>1, GrowFacts, NewLineFacts
<1>3. ASSUME NEW u \in Columns, NEW v \in Rows
      PROVE  NewLine(s).buf[CellAt(u, v)] = Shown(Grow(t), u, v)
  <2>1. s.buf[CellAt(u, v)] = Shown(t, u, v)
    BY DEF Agree
  <2>2. v < Height - 1 => s.buf[CellAt(u, v + 1)] = Shown(t, u, v + 1)
    BY <1>1 DEF Agree, Rows
  <2> QED
    BY <1>1, <2>1, <2>2, GrowFacts, NewLineFacts
<1> QED
  BY <1>2, <1>3 DEF Agree

\* The last line after n times the character c, before the line is left.
Filled(t, col, c, n) ==
    [t EXCEPT ![Len(t)] =
        [k \in Columns |-> IF k \in col .. col + n - 1 THEN c ELSE t[Len(t)][k]]]

LEMMA FilledFacts ==
    ASSUME NEW t \in Texts, NEW col \in Columns, NEW c \in Glyphs, NEW n \in Nat
    PROVE  /\ Filled(t, col, c, n) \in Texts
           /\ Len(Filled(t, col, c, n)) = Len(t)
           /\ \A u \in Columns, v \in Rows :
                  Shown(Filled(t, col, c, n), u, v) =
                      IF v = Len(t) - 1 /\ u \in col .. col + n - 1 THEN c ELSE Shown(t, u, v)
           /\ Typed(t, col, c, n) = IF col + n = Width THEN Grow(Filled(t, col, c, n))
                                    ELSE Filled(t, col, c, n)
<1> DEFINE last == [k \in Columns |-> IF k \in col .. col + n - 1 THEN c ELSE t[Len(t)][k]]
           new == Filled(t, col, c, n)
<1>1. t \in Seq(Lines) /\ Len(t) \in 1 .. Height /\ Height \in Nat
  BY SizeFacts DEF Texts
<1>2. t[Len(t)] \in Lines
  BY <1>1
<1>3. last \in Lines
  BY <1>2 DEF Lines
<1>4. new = [t EXCEPT ![Len(t)] = last]
  BY DEF Filled
<1> HIDE DEF last, new
<1>5. new \in Seq(Lines) /\ Len(new) = Len(t)
  BY <1>1, <1>3, <1>4
<1>6. \A k \in 1 .. Len(t) : new[k] = IF k = Len(t) THEN last ELSE t[k]
  BY <1>1, <1>4
<1>7. new \in Texts
  BY <1>1, <1>5 DEF Texts
<1>8. \A u \in Columns : last[u] = IF u \in col .. col + n - 1 THEN c ELSE t[Len(t)][u]
  BY DEF last
<1>9. \A u \in Columns, v \in Rows :
          Shown(new, u, v) =
              IF v = Len(t) - 1 /\ u \in col .. col + n - 1 THEN c ELSE Shown(t, u, v)
  BY <1>1, <1>5, <1>6, <1>8 DEF Shown, Rows
<1>10. Typed(t, col, c, n) = IF col + n = Width THEN Grow(new) ELSE new
  BY DEF Typed, new, Filled
<1> QED
  BY <1>5, <1>7, <1>9, <1>10 DEF new

\* A character printed at the cursor.
LEMMA WriteAgrees ==
    ASSUME NEW s \in Screens, NEW t \in Texts, NEW c \in Glyphs, NEW col \in Columns,
           scrolls \in BOOLEAN, s.x \in Columns
    PROVE  /\ Write(s, c) \in Screens /\ Write(s, c).x = (s.x + 1) % Width
           /\ Typed(t, col, c, 1) \in Texts
           /\ s.x = col /\ Agree(s.buf, s.y, t)
                  => Agree(Write(s, c).buf, Write(s, c).y, Typed(t, col, c, 1))
<1> DEFINE w == [s EXCEPT !.buf[Here(s)] = c, !.x = @ + 1]
           f == Filled(t, col, c, 1)
<1>1. s.buf \in Buffers /\ s.y \in Rows /\ Here(s) = CellAt(s.x, s.y) /\ Here(s) \in Cells
  BY CellIn DEF Screens, Here, CellAt
<1>2. w.x = s.x + 1 /\ w.y = s.y /\ w.buf = [s.buf EXCEPT ![Here(s)] = c]
  BY DEF Screens
<1>3. [s.buf EXCEPT ![Here(s)] = c] \in Buffers /\ s.x + 1 \in 0 .. Width
  BY <1>1, SizeFacts DEF Buffers, Columns
<1>4. w \in Screens
  BY <1>1, <1>3 DEF Screens
<1>5. Write(s, c) = IF w.x = Width THEN NewLine(w) ELSE w
  BY DEF Write
<1>6. f \in Texts /\ Typed(t, col, c, 1) = IF col + 1 = Width THEN Grow(f) ELSE f
  BY FilledFacts
<1> HIDE DEF w, f
<1>7. Write(s, c) \in Screens /\ Typed(t, col, c, 1) \in Texts
  BY <1>4, <1>5, <1>6, GrowFacts, NewLineFacts
<1>8. Write(s, c).x = (s.x + 1) % Width
  <2>1. CASE s.x + 1 = Width
    <3>1. Width % Width = 0
      BY SizeFacts
    <3> QED
      BY <1>2, <1>4, <1>5, <2>1, <3>1, NewLineFacts
  <2>2. CASE s.x + 1 # Width
    <3>1. s.x + 1 \in 0 .. Width - 1
      BY <2>2, SizeFacts DEF Columns
    <3>2. (s.x + 1) % Width = s.x + 1
      BY <3>1, SizeFacts
    <3> QED
      BY <1>2, <1>5, <2>2, <3>2
  <2> QED
    BY <2>1, <2>2
<1>9. ASSUME s.x = col, Agree(s.buf, s.y, t)
      PROVE  Agree(Write(s, c).buf, Write(s, c).y, Typed(t, col, c, 1))
  <2>1. s.y = Len(t) - 1 /\ Len(f) = Len(t)
    BY <1>9, FilledFacts DEF Agree, f
  <2>2. ASSUME NEW u \in Columns, NEW v \in Rows
        PROVE  w.buf[CellAt(u, v)] = Shown(f, u, v)
    <3>1. Shown(f, u, v) = IF v = s.y /\ u = col THEN c ELSE Shown(t, u, v)
      <4>1. u \in col .. col + 1 - 1 <=> u = col
        BY SizeFacts DEF Columns
      <4> QED
        BY <2>1, <4>1, FilledFacts DEF f
    <3>2. CellAt(u, v) = Here(s) <=> u = s.x /\ v = s.y
      BY <1>1, CellUnique
    <3>3. s.buf[CellAt(u, v)] = Shown(t, u, v)
      BY <1>9 DEF Agree
    <3>4. w.buf[CellAt(u, v)] = IF CellAt(u, v) = Here(s) THEN c ELSE s.buf[CellAt(u, v)]
      BY <1>1, <1>2, CellIn DEF Buffers
    <3> QED
      BY <1>9, <3>1, <3>2, <3>3, <3>4
  <2>3. Agree(w.buf, w.y, f)
    BY <1>2, <2>1, <2>2 DEF Agree
  <2>4. s.x + 1 = Width => Agree(NewLine(w).buf, NewLine(w).y, Grow(f))
    BY <1>4, <1>6, <2>3, NewLineAgrees
  <2> QED
    BY <1>2, <1>5, <1>6, <1>9, <2>3, <2>4
<1> QED
  BY <1>7, <1>8, <1>9

\* A tab: some spaces, or the end of the line.
LEMMA TabAgrees ==
    ASSUME NEW s \in Screens, NEW t \in Texts, scrolls \in BOOLEAN, s.x \in Columns
    PROVE  /\ Tab(s) \in Screens
           /\ Tab(s).x = IF s.x + TabStop + 1 < Width THEN s.x + TabStop ELSE 0
           /\ Tab(s).x \in Columns
           /\ Agree(s.buf, s.y, t)
                  => Agree(Tab(s).buf, Tab(s).y,
                           IF s.x + TabStop + 1 < Width THEN Typed(t, s.x, Space, TabStop)
                           ELSE Grow(t))
<1> DEFINE spaces == Here(s) .. Here(s) + TabStop - 1
           filled == [c \in Cells |-> IF c \in spaces THEN Space ELSE s.buf[c]]
           f == Filled(t, s.x, Space, TabStop)
<1>1. /\ s.buf \in Buffers /\ s.y \in Rows /\ Here(s) = CellAt(s.x, s.y)
      /\ s.x \in Nat /\ Width \in Nat /\ TabStop \in Nat \ {0}
  BY SizeFacts DEF Screens, Here, CellAt, Columns
<1>2. TabFits(s) <=> s.x + TabStop + 1 < Width
  BY <1>1 DEF TabFits
<1>3. CASE TabFits(s)
  <2>1. Tab(s) = [s EXCEPT !.x = @ + TabStop, !.buf = filled]
    BY <1>1, <1>3 DEF Tab, Screens
  <2>2. filled \in Buffers
    BY <1>1 DEF Buffers, Glyphs
  <2>3. \A u \in Columns, v \in Rows :
            filled[CellAt(u, v)] = IF CellAt(u, v) \in spaces THEN Space ELSE s.buf[CellAt(u, v)]
    BY CellIn
  <2>4. s.x + TabStop \in Columns /\ s.x + TabStop \in 0 .. Width /\ s.x + TabStop <= Width
    BY <1>1, <1>2, <1>3 DEF Columns
  <2> HIDE DEF filled
  <2>5. /\ Tab(s).x = s.x + TabStop /\ Tab(s).y = s.y /\ Tab(s).buf = filled
        /\ Tab(s) \in Screens
    BY <1>1, <2>1, <2>2, <2>4 DEF Screens
  <2>6. ASSUME Agree(s.buf, s.y, t)
        PROVE  Agree(filled, s.y, Typed(t, s.x, Space, TabStop))
    <3>1. Space \in Glyphs /\ s.x + TabStop # Width
      BY <1>1, <1>2, <1>3 DEF Glyphs
    <3>2. /\ Typed(t, s.x, Space, TabStop) = f /\ Len(f) = Len(t)
          /\ \A u \in Columns, v \in Rows :
                 Shown(f, u, v) = IF v = Len(t) - 1 /\ u \in s.x .. s.x + TabStop - 1
                                  THEN Space ELSE Shown(t, u, v)
      BY <1>1, <3>1, FilledFacts
    <3> HIDE DEF f
    <3>3. s.y = Len(t) - 1
      BY <2>6 DEF Agree
    <3>4. ASSUME NEW u \in Columns, NEW v \in Rows
          PROVE  filled[CellAt(u, v)] = Shown(f, u, v)
      <4>1. CellAt(u, v) \in spaces <=> v = s.y /\ u \in s.x .. s.x + TabStop - 1
        BY <1>1, <2>4, CellsOfRow
      <4>2. s.buf[CellAt(u, v)] = Shown(t, u, v)
        BY <2>6 DEF Agree
      <4> QED
        BY <2>3, <3>2, <3>3, <4>1, <4>2
    <3> QED
      BY <3>2, <3>3, <3>4 DEF Agree
  <2> QED
    BY <1>2, <1>3, <2>4, <2>5, <2>6
<1>4. CASE ~TabFits(s)
  <2>1. Tab(s) = NewLine(s)
    BY <1>4 DEF Tab
  <2>2. 0 \in Columns
    BY SizeFacts DEF Columns
  <2> QED
    BY <1>2, <1>4, <2>1, <2>2, NewLineFacts, NewLineAgrees
<1> QED
  BY <1>3, <1>4

LEMMA PutFacts ==
    ASSUME NEW t \in Texts, NEW col \in Columns
    PROVE  /\ Put(t, col, NUL) \in Texts /\ Len(Put(t, col, NUL)) = Len(t)
           /\ \A u \in Columns, v \in Rows :
                  Shown(Put(t, col, NUL), u, v) =
                      IF v = Len(t) - 1 /\ u = col THEN NUL ELSE Shown(t, u, v)
<1> DEFINE new == Put(t, col, NUL)
           last == [t[Len(t)] EXCEPT ![col] = NUL]
<1>1. t \in Seq(Lines) /\ Len(t) \in 1 .. Height /\ Height \in Nat /\ t[Len(t)] \in Lines
  BY SizeFacts DEF Texts
<1>2. last \in Lines
  BY <1>1 DEF Lines, Glyphs
<1>3. \A u \in Columns : last[u] = IF u = col THEN NUL ELSE t[Len(t)][u]
  BY <1>1 DEF Lines
<1>4. new = [t EXCEPT ![Len(t)] = last]
  BY DEF Put
<1> HIDE DEF new, last
<1>5. new \in Seq(Lines) /\ Len(new) = Len(t)
  BY <1>1, <1>2, <1>4
<1>6. \A k \in 1 .. Len(t) : new[k] = IF k = Len(t) THEN last ELSE t[k]
  BY <1>1, <1>4
<1>7. \A u \in Columns, v \in Rows :
          Shown(new, u, v) = IF v = Len(t) - 1 /\ u = col THEN NUL ELSE Shown(t, u, v)
  BY <1>1, <1>3, <1>5, <1>6 DEF Shown, Rows
<1> QED
  BY <1>1, <1>5, <1>7 DEF new, Texts

LEMMA BackspaceAgrees ==
    ASSUME NEW s \in Screens, NEW t \in Texts, NEW col \in Columns, s.x \in Columns
    PROVE  /\ Backspace(s) \in Screens /\ Backspace(s).x \in Columns
           /\ Erased(t, col) \in Texts
           /\ s.x = col /\ Agree(s.buf, s.y, t)
              /\ (AtOrigin(s) \/ s.buf[Here(s)] = NUL)
              /\ (col = 0 /\ Len(t) > 1 => t[Len(t)] = EmptyLine)
                  => /\ Agree(Backspace(s).buf, Backspace(s).y, Erased(t, col))
                     /\ Backspace(s).x = IF col > 0 THEN col - 1
                                         ELSE IF Len(t) > 1 THEN Width - 1 ELSE 0
<1> DEFINE front == SubSeq(t, 1, Len(t) - 1)
           moved == [s.buf EXCEPT ![Here(s) - 1] = s.buf[Here(s)]]
           b == [moved EXCEPT ![Here(s)] = NUL]
           x == IF s.x = 0 THEN Width - 1 ELSE s.x - 1
           y == IF s.x = 0 THEN s.y - 1 ELSE s.y
<1>1. /\ s.buf \in Buffers /\ s.y \in Rows /\ Here(s) = CellAt(s.x, s.y) /\ Here(s) \in Cells
      /\ Width \in Nat /\ Width > 2 /\ s.x \in Int /\ s.y \in Int
  <2>1. s.buf \in Buffers /\ s.y \in Rows
    BY DEF Screens
  <2>2. s.x \in Int /\ s.y \in Int
    BY <2>1, SizeFacts DEF Columns, Rows
  <2>3. Here(s) = CellAt(s.x, s.y)
    BY DEF Here, CellAt
  <2> QED
    BY <2>1, <2>2, <2>3, CellIn, SizeFacts
<1>2. t \in Seq(Lines) /\ Len(t) \in 1 .. Height /\ Height \in Nat
  BY SizeFacts DEF Texts
<1>3. Len(t) > 1 => front \in Texts /\ Len(front) = Len(t) - 1
  BY <1>2 DEF Texts
<1>4. Width - 1 \in Columns /\ (col > 0 => col - 1 \in Columns)
  BY SizeFacts DEF Columns
<1>5. Erased(t, col) \in Texts
  BY <1>3, <1>4, PutFacts DEF Erased
<1>6. CASE AtOrigin(s)
  <2>1. Backspace(s) = s
    BY <1>6 DEF Backspace
  <2>2. s.x = col /\ Agree(s.buf, s.y, t) => Erased(t, col) = t /\ col = 0 /\ ~(Len(t) > 1)
    BY <1>2, <1>6 DEF AtOrigin, Agree, Erased
  <2> QED
    BY <1>5, <2>1, <2>2
<1>7. CASE ~AtOrigin(s)
  <2>1. x \in Columns /\ y \in Rows
    <3>1. CASE s.x = 0
      <4>1. s.y # 0
        BY <1>7, <3>1 DEF AtOrigin
      <4>2. s.y - 1 \in Rows
        BY <1>1, <4>1, SizeFacts DEF Rows
      <4> QED
        BY <1>4, <3>1, <4>2
    <3>2. CASE s.x # 0
      BY <1>1, <3>2 DEF Columns
    <3> QED
      BY <3>1, <3>2
  <2>2. Here(s) - 1 = CellAt(x, y)
    BY <1>1, CellBefore
  <2>3. CellAt(x, y) \in Cells
    BY <2>1, CellIn
  <2>4. moved \in Buffers /\ b \in Buffers
    BY <1>1, <2>2, <2>3 DEF Buffers, Glyphs
  <2>5. \A c \in Cells : b[c] = IF c = Here(s) THEN NUL
                                ELSE IF c = CellAt(x, y) THEN s.buf[Here(s)] ELSE s.buf[c]
    BY <1>1, <2>2, <2>3, <2>4 DEF Buffers
  <2>6. /\ Back(s) \in [x : Columns, y : Rows, buf : Buffers]
        /\ Back(s).x = x /\ Back(s).y = y /\ Back(s).buf = s.buf
    BY <1>1, <2>1 DEF Back, Screens
  <2>7. Backspace(s) = [Back(s) EXCEPT !.buf[Here(s) - 1] = s.buf[Here(s)], !.buf[Here(s)] = NUL]
    BY <1>7 DEF Backspace
  <2>8. Backspace(s).x = x /\ Backspace(s).y = y /\ Backspace(s).buf = b
    BY <2>6, <2>7
  <2>9. Backspace(s) \in [x : Columns, y : Rows, buf : Buffers]
    BY <2>1, <2>4, <2>6, <2>7, <2>8
  <2>10. Backspace(s) \in Screens
    BY <1>1, <2>9 DEF Screens, Columns
  <2>11. ASSUME s.x = col, Agree(s.buf, s.y, t), s.buf[Here(s)] = NUL,
                col = 0 /\ Len(t) > 1 => t[Len(t)] = EmptyLine
         PROVE  /\ Agree(b, y, Erased(t, col))
                /\ x = IF col > 0 THEN col - 1 ELSE IF Len(t) > 1 THEN Width - 1 ELSE 0
    <3>1. s.y = Len(t) - 1
      BY <2>11 DEF Agree
    <3>2. \A u \in Columns, v \in Rows :
              b[CellAt(u, v)] = IF u = x /\ v = y THEN NUL ELSE Shown(t, u, v)
      <4> SUFFICES ASSUME NEW u \in Columns, NEW v \in Rows
                   PROVE  b[CellAt(u, v)] = IF u = x /\ v = y THEN NUL ELSE Shown(t, u, v)
        OBVIOUS
      <4>1. s.buf[CellAt(u, v)] = Shown(t, u, v)
        BY <2>11 DEF Agree
      <4>2. CellAt(u, v) = CellAt(x, y) <=> u = x /\ v = y
        BY <2>1, CellUnique
      <4>3. b[CellAt(u, v)] = IF CellAt(u, v) = CellAt(x, y) THEN NUL ELSE s.buf[CellAt(u, v)]
        BY <2>5, <2>11, CellIn
      <4> QED
        BY <4>1, <4>2, <4>3
    <3>3. CASE col > 0
      <4>1. Erased(t, col) = Put(t, col - 1, NUL) /\ x = col - 1 /\ y = s.y
        BY <1>1, <2>11, <3>3 DEF Erased, Columns
      <4> HIDE DEF b, x, y
      <4> QED
        <5>1. /\ Len(Put(t, col - 1, NUL)) = Len(t)
              /\ \A u \in Columns, v \in Rows :
                     Shown(Put(t, col - 1, NUL), u, v) =
                         IF v = Len(t) - 1 /\ u = col - 1 THEN NUL ELSE Shown(t, u, v)
          BY <1>4, <3>3, PutFacts
        <5> QED
          BY <3>1, <3>2, <3>3, <4>1, <5>1 DEF Agree
    <3>4. CASE col = 0 /\ Len(t) > 1
      <4>1. /\ Erased(t, col) = Put(front, Width - 1, NUL)
            /\ x = Width - 1 /\ y = s.y - 1
        BY <1>1, <2>11, <3>4 DEF Erased
      <4>2. \A k \in 1 .. Len(t) - 1 : front[k] = t[k]
        BY <1>2, <3>4
      <4>3. \A u \in Columns, v \in Rows : Shown(front, u, v) = Shown(t, u, v)
        <5> HIDE DEF front
        <5> QED
          <6>1. ASSUME NEW u \in Columns, NEW v \in Rows, v = Len(t) - 1
                PROVE  Shown(t, u, v) = NUL /\ Shown(front, u, v) = NUL
            <7>1. t[v + 1] = EmptyLine
              BY <1>2, <2>11, <3>4, <6>1
            <7> QED
              BY <1>2, <1>3, <3>4, <6>1, <7>1 DEF Shown, EmptyLine
          <6>2. ASSUME NEW u \in Columns, NEW v \in Rows, v # Len(t) - 1
                PROVE  Shown(t, u, v) = Shown(front, u, v)
            <7>1. CASE v < Len(t) - 1
              <8>1. v + 1 \in 1 .. Len(t) - 1 /\ v < Len(t) /\ v < Len(front)
                BY <1>2, <1>3, <3>4, <7>1 DEF Rows
              <8>2. front[v + 1] = t[v + 1]
                BY <4>2, <8>1
              <8> QED
                BY <8>1, <8>2 DEF Shown
            <7>2. CASE v > Len(t) - 1
              <8>1. ~(v < Len(t)) /\ ~(v < Len(front))
                BY <1>2, <1>3, <3>4, <7>2 DEF Rows
              <8> QED
                BY <8>1 DEF Shown
            <7>3. v < Len(t) - 1 \/ v > Len(t) - 1
              BY <1>2, <6>2 DEF Rows
            <7> QED
              BY <7>1, <7>2, <7>3
          <6> QED
            BY <6>1, <6>2
      <4>4. /\ Len(Put(front, Width - 1, NUL)) = Len(front)
            /\ \A u \in Columns, v \in Rows :
                   Shown(Put(front, Width - 1, NUL), u, v) =
                       IF v = Len(front) - 1 /\ u = Width - 1 THEN NUL ELSE Shown(front, u, v)
        BY <1>3, <1>4, <3>4, PutFacts
      <4> HIDE DEF b, x, y, front
      <4> QED
        BY <1>2, <1>3, <3>1, <3>2, <3>4, <4>1, <4>3, <4>4 DEF Agree
    <3>5. CASE col = 0 /\ Len(t) = 1
      <4>1. s.x = 0 /\ s.y = 0
        BY <2>11, <3>1, <3>5
      <4> QED
        BY <1>7, <4>1 DEF AtOrigin
    <3> QED
      <4>1. Len(t) = 1 \/ Len(t) > 1
        <5>1. \A n \in 1 .. Height : n = 1 \/ n > 1
          OBVIOUS
        <5> QED
          BY <1>2, <5>1
      <4>2. col = 0 \/ col > 0
        BY SizeFacts DEF Columns
      <4> HIDE DEF b, x, y
      <4> QED
        BY <3>3, <3>4, <3>5, <4>1, <4>2
  <2> HIDE DEF b, x, y
  <2> QED
    BY <1>5, <1>7, <2>1, <2>8, <2>10, <2>11
<1> QED
  BY <1>6, <1>7

-----------------------------------------------------------------------------
(* The invariant                                                           *)

ScreenTypes ==
    /\ pos_x \in Columns /\ pos_y \in Rows /\ buf \in Buffers
    /\ scrolls \in BOOLEAN
    /\ text \in Texts /\ column \in Columns
    /\ mangled \in BOOLEAN

Faithful == ~mangled => pos_x = column /\ Agree(buf, pos_y, text)

\* The same of a screen that is not shown.
AwayTypes == [x : Columns, y : Rows, buf : Buffers, text : Texts, column : Columns, mangled : BOOLEAN]

AwayFaithful(s) == ~s.mangled => s.x = s.column /\ Agree(s.buf, s.y, s.text)

TtysSound ==
    /\ active \in Ttys /\ refresh \subseteq Ttys
    /\ away \in [Ttys -> AwayTypes]
    /\ \A n \in Ttys : AwayFaithful(away[n])

DisplayTypes ==
    /\ booted \in BOOLEAN
    /\ vga_buf \in [Cells -> Glyphs \cup {"overlay"}]

DisplayInv == ScreenTypes /\ Faithful /\ TtysSound /\ DisplayTypes /\ DisplayShows

LEMMA BlankFacts ==
    /\ 0 \in Columns /\ 0 \in Rows /\ Blank \in Buffers
    /\ <<EmptyLine>> \in Texts /\ Agree(Blank, 0, <<EmptyLine>>)
<1>1. 0 \in Columns /\ 0 \in Rows
  BY SizeFacts DEF Columns, Rows
<1>2. <<EmptyLine>> \in Seq(Lines) /\ Len(<<EmptyLine>>) = 1
  BY EmptyLineFacts
<1>3. <<EmptyLine>> \in Texts
  BY <1>2, SizeFacts DEF Texts
<1>4. \A u \in Columns, v \in Rows :
          Blank[CellAt(u, v)] = NUL /\ Shown(<<EmptyLine>>, u, v) = NUL
  BY <1>2, CellIn DEF Blank, Shown, EmptyLine, Rows
<1> QED
  BY <1>1, <1>2, <1>3, <1>4, EmptyLineFacts DEF Agree

LEMMA NowFacts ==
    ASSUME ScreenTypes
    PROVE  Now \in Screens /\ Now.x = pos_x /\ Now.y = pos_y /\ Now.buf = buf
<1>1. pos_x \in 0 .. Width
  BY SizeFacts DEF ScreenTypes, Columns
<1> QED
  BY <1>1 DEF ScreenTypes, Now, Screens

LEMMA BecomesFacts ==
    ASSUME NEW s \in Screens, s.x \in Columns, Becomes(s)
    PROVE  /\ pos_x' = s.x /\ pos_y' = s.y /\ buf' = s.buf
           /\ pos_x' \in Columns /\ pos_y' \in Rows /\ buf' \in Buffers
BY DEF Becomes, Screens

LEMMA ExpectFacts ==
    ASSUME ScreenTypes, NEW t \in Texts, NEW col \in Columns, NEW spoiled \in BOOLEAN,
           Expect(t, col, spoiled)
    PROVE  /\ text' \in Texts /\ column' \in Columns /\ mangled' \in BOOLEAN
           /\ ~mangled' => ~mangled /\ ~spoiled /\ text' = t /\ column' = col
<1>1. mangled' = (mangled \/ spoiled) /\ mangled' \in BOOLEAN
  BY DEF Expect, ScreenTypes
<1>2. /\ text' = IF mangled' THEN <<EmptyLine>> ELSE t
      /\ column' = IF mangled' THEN 0 ELSE col
  BY DEF Expect
<1> QED
  BY <1>1, <1>2, BlankFacts DEF ScreenTypes

\* A screen and a text that agree, if those before them did, and an observer that
\* expects this text.
LEMMA StaysFaithful ==
    ASSUME ScreenTypes, Faithful, UNCHANGED scrolls,
           NEW s \in Screens, s.x \in Columns, Becomes(s),
           NEW t \in Texts, NEW col \in Columns, NEW spoiled \in BOOLEAN, Expect(t, col, spoiled),
           pos_x = column /\ Agree(buf, pos_y, text) /\ ~spoiled => s.x = col /\ Agree(s.buf, s.y, t)
    PROVE  ScreenTypes' /\ Faithful'
<1>1. /\ pos_x' = s.x /\ pos_y' = s.y /\ buf' = s.buf
      /\ pos_x' \in Columns /\ pos_y' \in Rows /\ buf' \in Buffers
  BY BecomesFacts
<1>2. /\ text' \in Texts /\ column' \in Columns /\ mangled' \in BOOLEAN
      /\ ~mangled' => ~mangled /\ ~spoiled /\ text' = t /\ column' = col
  BY ExpectFacts
<1>3. ScreenTypes'
  BY <1>1, <1>2 DEF ScreenTypes
<1>4. ASSUME ~mangled'
      PROVE  pos_x' = column' /\ Agree(buf', pos_y', text')
  BY <1>1, <1>2, <1>4 DEF Faithful
<1> QED
  BY <1>3, <1>4 DEF Faithful, Agree

LEMMA WriteFaithful ==
    ASSUME ScreenTypes, Faithful, UNCHANGED scrolls,
           NEW c \in Chars \cup {Space}, Becomes(Write(Now, c)), ExpectWrite(c)
    PROVE  ScreenTypes' /\ Faithful'
<1> DEFINE t == Typed(text, column, c, 1)
           col == (column + 1) % Width
<1>1. c \in Glyphs /\ Now \in Screens /\ Now.x \in Columns
  BY NowFacts DEF Glyphs, ScreenTypes
<1>2. \A x \in Columns : (x + 1) % Width \in Columns
  BY SizeFacts DEF Columns
<1>3. /\ Write(Now, c) \in Screens /\ Write(Now, c).x = (pos_x + 1) % Width
      /\ t \in Texts
      /\ pos_x = column /\ Agree(buf, pos_y, text) => Agree(Write(Now, c).buf, Write(Now, c).y, t)
  BY <1>1, NowFacts, WriteAgrees DEF ScreenTypes
<1>4. Expect(t, col, FALSE)
  BY DEF ExpectWrite
<1>5. Write(Now, c).x \in Columns /\ col \in Columns
  BY <1>2, <1>3 DEF ScreenTypes
<1> HIDE DEF t
<1> QED
  BY <1>3, <1>4, <1>5, StaysFaithful

LEMMA NewLineFaithful ==
    ASSUME ScreenTypes, Faithful, UNCHANGED scrolls,
           Becomes(NewLine(Now)), ExpectNewLine
    PROVE  ScreenTypes' /\ Faithful'
<1>1. 0 \in Columns /\ Now \in Screens
  BY NowFacts, SizeFacts DEF Columns
<1>2. /\ NewLine(Now) \in Screens /\ NewLine(Now).x = 0 /\ Grow(text) \in Texts
      /\ Agree(buf, pos_y, text) => Agree(NewLine(Now).buf, NewLine(Now).y, Grow(text))
  BY <1>1, NowFacts, NewLineFacts, GrowFacts, NewLineAgrees DEF ScreenTypes
<1>3. Expect(Grow(text), 0, FALSE)
  BY DEF ExpectNewLine
<1> QED
  BY <1>1, <1>2, <1>3, StaysFaithful

LEMMA TabFaithful ==
    ASSUME ScreenTypes, Faithful, UNCHANGED scrolls, Becomes(Tab(Now)), ExpectTab
    PROVE  ScreenTypes' /\ Faithful'
<1> DEFINE fits(x) == x + TabStop + 1 < Width
           after(x) == IF fits(x) THEN Typed(text, x, Space, TabStop) ELSE Grow(text)
           col(x) == IF fits(x) THEN x + TabStop ELSE 0
<1>1. Now \in Screens /\ Now.x \in Columns
  BY NowFacts DEF ScreenTypes
<1>2. /\ Tab(Now) \in Screens /\ Tab(Now).x \in Columns
      /\ Tab(Now).x = col(pos_x)
      /\ Agree(buf, pos_y, text) => Agree(Tab(Now).buf, Tab(Now).y, after(pos_x))
  BY <1>1, NowFacts, TabAgrees DEF ScreenTypes
<1>3. Expect(after(column), col(column), FALSE)
  BY DEF ExpectTab, ExpectNewLine
<1>4. col(column) \in Columns
  BY SizeFacts DEF ScreenTypes, Columns
<1>5. after(column) \in Texts
  <2>1. Space \in Glyphs /\ TabStop \in Nat
    BY SizeFacts DEF Glyphs
  <2>2. Filled(text, column, Space, TabStop) \in Texts
    BY <2>1, FilledFacts DEF ScreenTypes
  <2>3. Typed(text, column, Space, TabStop) \in Texts
    BY <2>1, <2>2, FilledFacts, GrowFacts DEF ScreenTypes
  <2> QED
    BY <2>3, GrowFacts DEF ScreenTypes
<1> HIDE DEF after, fits, col
<1>6. pos_x = column /\ Agree(buf, pos_y, text)
          => Tab(Now).x = col(column) /\ Agree(Tab(Now).buf, Tab(Now).y, after(column))
  BY <1>2
<1> QED
  BY <1>2, <1>3, <1>4, <1>5, <1>6, StaysFaithful

LEMMA BackspaceFaithful ==
    ASSUME ScreenTypes, Faithful, UNCHANGED scrolls,
           Becomes(Backspace(Now)), ExpectBackspace
    PROVE  ScreenTypes' /\ Faithful'
<1> DEFINE left == IF column > 0 THEN column - 1 ELSE IF Len(text) > 1 THEN Width - 1 ELSE 0
<1>1. Now \in Screens /\ Now.x \in Columns
  BY NowFacts DEF ScreenTypes
<1>2. /\ Backspace(Now) \in Screens /\ Backspace(Now).x \in Columns
      /\ Erased(text, column) \in Texts
      /\ pos_x = column /\ Agree(buf, pos_y, text) /\ (AtOrigin(Now) \/ buf[Here(Now)] = NUL)
         /\ (column = 0 /\ Len(text) > 1 => text[Len(text)] = EmptyLine)
             => /\ Agree(Backspace(Now).buf, Backspace(Now).y, Erased(text, column))
                /\ Backspace(Now).x = left
  BY <1>1, NowFacts, BackspaceAgrees DEF ScreenTypes
<1>3. Expect(Erased(text, column), left, BackspaceMangles)
  BY DEF ExpectBackspace
<1>4. left \in Columns
  BY SizeFacts DEF ScreenTypes, Columns
<1>5. /\ BackspaceMangles \in BOOLEAN
      /\ ~BackspaceMangles => /\ AtOrigin(Now) \/ buf[Here(Now)] = NUL
                              /\ column = 0 /\ Len(text) > 1 => text[Len(text)] = EmptyLine
  BY DEF BackspaceMangles
<1> HIDE DEF left
<1>6. pos_x = column /\ Agree(buf, pos_y, text) /\ ~BackspaceMangles
          => /\ Backspace(Now).x = left
             /\ Agree(Backspace(Now).buf, Backspace(Now).y, Erased(text, column))
  BY <1>2, <1>5
<1> QED
  BY <1>2, <1>3, <1>4, <1>5, <1>6, StaysFaithful

LEMMA ReturnFaithful ==
    ASSUME ScreenTypes, Faithful, UNCHANGED scrolls,
           Becomes(CarriageReturn(Now)), ExpectReturn
    PROVE  ScreenTypes' /\ Faithful'
<1>1. 0 \in Columns /\ 0 \in 0 .. Width /\ text \in Texts
  BY SizeFacts DEF Columns, ScreenTypes
<1>2. /\ CarriageReturn(Now).x = 0
      /\ CarriageReturn(Now).y = pos_y /\ CarriageReturn(Now).buf = buf
      /\ CarriageReturn(Now) \in Screens
  BY <1>1, NowFacts DEF CarriageReturn, Now, Screens
<1>3. Expect(text, 0, FALSE)
  BY DEF ExpectReturn
<1> QED
  BY <1>1, <1>2, <1>3, StaysFaithful

LEMMA UpdateFaithful ==
    ASSUME ScreenTypes, Faithful, Update
    PROVE  ScreenTypes' /\ Faithful'
<1>1. UNCHANGED scrolls
  BY DEF Update
<1>2. CASE \E c \in Chars \cup {Space} : Becomes(Write(Now, c)) /\ ExpectWrite(c)
  BY <1>1, <1>2, WriteFaithful
<1>3. CASE Becomes(Tab(Now)) /\ ExpectTab
  BY <1>1, <1>3, TabFaithful
<1>4. CASE Becomes(Backspace(Now)) /\ ExpectBackspace
  BY <1>1, <1>4, BackspaceFaithful
<1>5. CASE Becomes(CarriageReturn(Now)) /\ ExpectReturn
  BY <1>1, <1>5, ReturnFaithful
<1>6. CASE Becomes(NewLine(Now)) /\ ExpectNewLine
  BY <1>1, <1>6, NewLineFaithful
<1> QED
  BY <1>2, <1>3, <1>4, <1>5, <1>6 DEF Update

-----------------------------------------------------------------------------
(* The copy                                                                *)

\* The counters of the loop of tty_refresh are a column and a row of the loop
\* counter: its rounds visit every cell.
Place(i) == [x |-> i % Width, y |-> i \div Width]

LEMMA NextPlace ==
    ASSUME NEW i \in Cells, i # 0
    PROVE  i - 1 \in Cells /\ NextPosition(Place(i - 1)) = Place(i)
<1> DEFINE x == (i - 1) % Width
           y == (i - 1) \div Width
<1>1. i - 1 \in Cells /\ i \in Int
  BY SizeFacts DEF Cells
<1>2. x \in Columns /\ y \in Rows /\ i - 1 = CellAt(x, y)
  BY <1>1, EveryCell
<1>3. Place(i - 1) = [x |-> x, y |-> y]
  BY DEF Place
<1> HIDE DEF x, y
<1>4. x \in Int /\ y \in Int /\ x < Width
  BY <1>2, SizeFacts DEF Columns, Rows
<1>5. CASE x + 1 < Width
  <2>1. x + 1 \in Columns /\ CellAt(x + 1, y) = i
    BY <1>1, <1>2, <1>4, <1>5, SizeFacts DEF CellAt, Columns
  <2>2. i % Width = x + 1 /\ i \div Width = y
    BY <1>2, <2>1, PlaceOfCell
  <2>3. NextPosition(Place(i - 1)) = [x |-> x + 1, y |-> y]
    BY <1>3, <1>5 DEF NextPosition
  <2> QED
    BY <1>1, <2>2, <2>3 DEF Place
<1>6. CASE x + 1 = Width
  <2>1. CellAt(x, y) + 1 = CellAt(0, y + 1)
    BY <1>4, <1>6, SizeFacts DEF CellAt
  <2>2. y # Height - 1
    <3>1. ASSUME y = Height - 1 PROVE FALSE
      <4>1. CellAt(x, y) = Width * Height - 1
        BY <1>4, <1>6, <3>1, SizeFacts DEF CellAt
      <4> QED
        BY <1>1, <1>2, <4>1, SizeFacts DEF Cells
    <3> QED
      BY <3>1
  <2>3. 0 \in Columns /\ y + 1 \in Rows
    BY <1>2, <2>2, SizeFacts DEF Columns, Rows
  <2>4. CellAt(0, y + 1) = i
    BY <1>1, <1>2, <2>1
  <2>5. i % Width = 0 /\ i \div Width = y + 1
    BY <2>3, <2>4, PlaceOfCell
  <2>6. NextPosition(Place(i - 1)) = [x |-> 0, y |-> y + 1]
    BY <1>3, <1>4, <1>6, <2>2, SizeFacts DEF NextPosition
  <2> QED
    BY <1>1, <2>5, <2>6 DEF Place
<1> QED
  BY <1>4, <1>5, <1>6, SizeFacts

\* The recursion has a solution, and any solution has these places.
LEMMA PositionIsPlace ==
    ASSUME NEW i \in Cells
    PROVE  Position[i] = Place(i)
<1> DEFINE Solves(f) ==
               f = [j \in Cells |-> IF j = 0 THEN [x |-> 0, y |-> 0] ELSE NextPosition(f[j - 1])]
           places == [j \in Cells |-> Place(j)]
<1>1. Place(0) = [x |-> 0, y |-> 0]
  <2>1. 0 % Width = 0 /\ 0 \div Width = 0
    BY SizeFacts
  <2> QED
    BY <2>1 DEF Place
<1>2. Solves(places)
  <2>1. ASSUME NEW j \in Cells
        PROVE  Place(j) = IF j = 0 THEN [x |-> 0, y |-> 0] ELSE NextPosition(places[j - 1])
    BY <1>1, NextPlace
  <2> QED
    BY <2>1
<1>3. Solves(Position)
  <2>1. Position = CHOOSE f : Solves(f)
    BY DEF Position
  <2> HIDE DEF Solves
  <2> QED
    BY <1>2, <2>1
<1>4. /\ \A j \in Cells : j = 0 => Position[j] = Place(0)
      /\ \A j \in Cells : j # 0 => Position[j] = NextPosition(Position[j - 1])
  BY <1>1, <1>3
<1> HIDE DEF Solves, places
<1> DEFINE wrong == {j \in Cells : Position[j] # Place(j)}
<1>5. ASSUME wrong # {} PROVE FALSE
  <2>1. wrong \subseteq Nat
    BY SizeFacts DEF Cells
  <2>2. PICK m \in wrong : \A k \in wrong : m <= k
    BY <1>5, <2>1, LeastElement
  <2>3. m \in Cells /\ m \in Nat /\ m # 0
    BY <1>4, <2>1, <2>2
  <2>4. m - 1 \in Cells /\ NextPosition(Place(m - 1)) = Place(m)
    BY <2>3, NextPlace
  <2>5. m - 1 \notin wrong
    BY <2>2, <2>3
  <2>6. Position[m - 1] = Place(m - 1)
    BY <2>4, <2>5
  <2> QED
    BY <1>4, <2>2, <2>3, <2>4, <2>6
<1> QED
  BY <1>5

LEMMA DrawnEverywhere == Drawn = Cells
<1>1. ASSUME NEW i \in Cells
      PROVE  Width * Position[i].y + Position[i].x = i
  <2>1. Position[i] = [x |-> i % Width, y |-> i \div Width]
    BY PositionIsPlace DEF Place
  <2> QED
    BY <2>1, EveryCell DEF CellAt
<1> QED
  BY <1>1 DEF Drawn

-----------------------------------------------------------------------------
(* Safety                                                                  *)

LEMMA BlankScreenFacts == BlankScreen \in AwayTypes /\ AwayFaithful(BlankScreen)
BY BlankFacts DEF BlankScreen, AwayTypes, AwayFaithful

LEMMA KeptFacts == ScreenTypes /\ Faithful => Kept \in AwayTypes /\ AwayFaithful(Kept)
BY DEF Kept, AwayTypes, AwayFaithful, ScreenTypes, Faithful

LEMMA ShowFaithful ==
    ASSUME NEW s \in AwayTypes, AwayFaithful(s), Show(s), scrolls' \in BOOLEAN
    PROVE  ScreenTypes' /\ Faithful'
<1>1. /\ pos_x' = s.x /\ pos_y' = s.y /\ buf' = s.buf
      /\ text' = s.text /\ column' = s.column /\ mangled' = s.mangled
  BY DEF Show
<1>2. ScreenTypes'
  BY <1>1 DEF ScreenTypes, AwayTypes
<1>3. Faithful'
  BY <1>1 DEF Faithful, AwayFaithful, Agree
<1> QED
  BY <1>2, <1>3

LEMMA InitDisplayInv == DisplayInit => DisplayInv
<1> SUFFICES ASSUME DisplayInit PROVE DisplayInv
  OBVIOUS
<1>1. /\ pos_x = 0 /\ pos_y = 0 /\ buf = Blank /\ vga_buf = Blank
      /\ scrolls = FALSE /\ booted = FALSE /\ mangled = FALSE
      /\ text = <<EmptyLine>> /\ column = 0
      /\ active = 0 /\ refresh = {0} /\ away = [n \in Ttys |-> BlankScreen]
  BY DEF DisplayInit, Init
<1>2. ScreenTypes /\ Faithful
  BY <1>1, BlankFacts DEF ScreenTypes, Faithful
<1>3. vga_buf \in [Cells -> Glyphs \cup {"overlay"}]
  BY <1>1, EmptyLineFacts DEF Buffers
<1>4. TtysSound
  BY <1>1, BlankScreenFacts, DisplayAssumption DEF TtysSound
<1> QED
  BY <1>1, <1>2, <1>3, <1>4 DEF DisplayInv, DisplayTypes, DisplayShows

\* What a callback draws is within the part of the display that it is excused for.
LEMMA OverlayStep ==
    ASSUME DisplayInv, NEW cells, Overlay(cells),
           cells \subseteq Corner \/ (active = 0 /\ cells \subseteq ListArea)
    PROVE  DisplayInv'
<1>1. /\ booted /\ booted' /\ active \notin refresh
      /\ vga_buf' = [c \in Cells |-> IF c \in cells THEN "overlay" ELSE vga_buf[c]]
      /\ UNCHANGED <<vars, ttys>>
  BY DEF Overlay, DisplayInv, DisplayTypes
<1>2. ScreenTypes' /\ Faithful' /\ TtysSound'
  BY <1>1 DEF DisplayInv, ScreenTypes, Faithful, TtysSound, vars, ttys
<1>3. DisplayTypes'
  BY <1>1 DEF DisplayInv, DisplayTypes
<1>4. ASSUME NEW c \in Cells, vga_buf'[c] # buf'[c]
      PROVE  /\ booted' /\ vga_buf'[c] = "overlay"
             /\ c \in Corner \/ (active' = 0 /\ c \in ListArea)
  <2>1. vga_buf'[c] = (IF c \in cells THEN "overlay" ELSE vga_buf[c]) /\ buf'[c] = buf[c]
        /\ active' = active
    BY <1>1 DEF vars, ttys
  <2>2. c \notin cells => vga_buf[c] = "overlay" /\ (c \in Corner \/ (active = 0 /\ c \in ListArea))
    BY <1>1, <1>4, <2>1 DEF DisplayInv, DisplayShows
  <2> QED
    BY <1>1, <2>1, <2>2
<1>5. DisplayShows'
  BY <1>4 DEF DisplayShows
<1> QED
  BY <1>2, <1>3, <1>5 DEF DisplayInv

LEMMA SelectStep ==
    ASSUME DisplayInv, NEW n \in Ttys, tty_select(n)
    PROVE  DisplayInv'
<1> USE DEF DisplayInv
<1>1. /\ active' = n /\ refresh' = refresh \cup {n} /\ booted' = booted
      /\ vga_buf' = vga_buf /\ scrolls' = scrolls /\ scrolls' \in BOOLEAN
  BY DEF tty_select, ScreenTypes
<1>2. DisplayTypes'
  BY <1>1 DEF DisplayTypes
<1>3. CASE booted
  <2>1. Show(away[n]) /\ away' = [away EXCEPT ![active] = Kept, ![n] = BlankScreen]
    BY <1>3 DEF tty_select
  <2>2. ScreenTypes' /\ Faithful'
    BY <1>1, <2>1, ShowFaithful DEF TtysSound
  <2>3. /\ active' \in Ttys /\ refresh' \subseteq Ttys /\ away' \in [Ttys -> AwayTypes]
        /\ \A m \in Ttys : away'[m] = IF m = n THEN BlankScreen
                                      ELSE IF m = active THEN Kept ELSE away[m]
    BY <1>1, <2>1, KeptFacts, BlankScreenFacts DEF TtysSound
  <2>4. \A m \in Ttys : AwayFaithful(away'[m])
    BY <2>3, KeptFacts, BlankScreenFacts DEF TtysSound
  <2>5. TtysSound'
    BY <2>3, <2>4 DEF TtysSound, AwayFaithful, Agree
  <2>6. DisplayShows'
    BY <1>1, <1>3 DEF DisplayShows
  <2> QED
    BY <1>2, <2>2, <2>5, <2>6
<1>4. CASE ~booted
  <2>1. UNCHANGED <<pos_x, pos_y, buf, text, column, mangled, away>>
    BY <1>4 DEF tty_select
  <2>2. ScreenTypes' /\ Faithful' /\ TtysSound'
    BY <1>1, <2>1 DEF ScreenTypes, Faithful, TtysSound
  <2>3. DisplayShows'
    BY <1>1, <1>4, <2>1 DEF DisplayShows
  <2> QED
    BY <1>2, <2>2, <2>3
<1> QED
  BY <1>3, <1>4 DEF DisplayTypes

LEMMA RefreshStep ==
    ASSUME DisplayInv, tty_refresh
    PROVE  DisplayInv'
<1> USE DEF DisplayInv
<1>1. /\ booted /\ booted' /\ refresh' = refresh \ {active}
      /\ UNCHANGED <<active, away>>
  BY DEF tty_refresh, DisplayTypes
<1>2. TtysSound'
  BY <1>1 DEF TtysSound
<1>3. ScreenTypes' /\ Faithful' /\ vga_buf' = Copied(buf', vga_buf)
  <2>1. CASE active \in Busy /\ Update /\ vga_buf' = Copied(buf', vga_buf)
    BY <2>1, UpdateFaithful
  <2>2. CASE active \in refresh /\ UNCHANGED vars /\ vga_buf' = Copied(buf, vga_buf)
    BY <2>2 DEF vars, ScreenTypes, Faithful
  <2> QED
    BY <2>1, <2>2 DEF tty_refresh
<1>4. vga_buf' = buf'
  BY <1>3, DrawnEverywhere DEF Copied, ScreenTypes, Buffers
<1>5. DisplayTypes'
  BY <1>1, <1>3, <1>4 DEF DisplayTypes, ScreenTypes, Buffers
<1>6. DisplayShows'
  BY <1>4 DEF DisplayShows
<1> QED
  BY <1>2, <1>3, <1>5, <1>6

LEMMA NextDisplayInv == DisplayInv /\ [Next]_allVars => DisplayInv'
<1> SUFFICES ASSUME DisplayInv, [Next]_allVars PROVE DisplayInv'
  OBVIOUS
<1> USE DEF DisplayInv
<1>1. CASE vga_putc
  <2>1. ~booted /\ ~booted' /\ Update /\ vga_buf' = buf' /\ UNCHANGED ttys
    BY <1>1 DEF vga_putc
  <2>2. ScreenTypes' /\ Faithful'
    BY <2>1, UpdateFaithful
  <2>3. TtysSound'
    BY <2>1 DEF TtysSound, ttys
  <2>4. DisplayTypes'
    BY <1>1, <2>1, <2>2 DEF DisplayTypes, ScreenTypes, Buffers, vga_putc
  <2>5. DisplayShows'
    BY <2>1 DEF DisplayShows
  <2> QED
    BY <2>2, <2>3, <2>4, <2>5
<1>2. CASE BootEnds
  <2>1. /\ vga_buf' = Blank /\ scrolls' = TRUE /\ booted' = TRUE
        /\ Show(BlankScreen) /\ UNCHANGED ttys
    BY <1>2 DEF BootEnds
  <2>2. ScreenTypes' /\ Faithful'
    BY <2>1, BlankScreenFacts, ShowFaithful
  <2>3. TtysSound'
    BY <2>1 DEF TtysSound, ttys
  <2>4. DisplayTypes'
    BY <2>1, EmptyLineFacts DEF DisplayTypes, Buffers
  <2>5. buf' = vga_buf'
    BY <2>1 DEF Show, BlankScreen
  <2>6. DisplayShows'
    BY <2>5 DEF DisplayShows
  <2> QED
    BY <2>2, <2>3, <2>4, <2>6
<1>3. CASE \E n \in Ttys : tty_select(n)
  BY <1>3, SelectStep
<1>4. CASE tty_refresh
  BY <1>4, RefreshStep
<1>5. CASE test_spinner
  BY <1>5, OverlayStep DEF test_spinner, Corner
<1>6. CASE test_timer
  BY <1>6, OverlayStep DEF test_timer, Corner
<1>7. CASE test_proc_list
  <2>1. PICK cells \in Listings : active = 0 /\ Overlay(Header \cup cells)
    BY <1>7 DEF test_proc_list
  <2>2. Header \cup cells \subseteq ListArea
    BY DisplayAssumption DEF ListArea
  <2> QED
    BY <2>1, <2>2, OverlayStep
<1>8. CASE UNCHANGED allVars
  BY <1>8 DEF allVars, vars, ttys, ScreenTypes, Faithful, TtysSound, DisplayTypes, DisplayShows
<1> QED
  BY <1>1, <1>2, <1>3, <1>4, <1>5, <1>6, <1>7, <1>8 DEF Next

\* The screen, its text and the display stay sound whatever is written to them.
THEOREM DisplaySafety == Spec => []DisplayInv
BY InitDisplayInv, NextDisplayInv, PTL DEF Spec

\* tty_update and vga_putc keep the cursor inside the screen, so that they write
\* no cell outside its buffer, for every character in every state.
THEOREM CursorStaysInside == Spec => []ScreenTypeOK
<1>1. DisplayInv => ScreenTypeOK
  BY DEF DisplayInv, ScreenTypes, ScreenTypeOK, Rows, Buffers, Glyphs
<1> QED
  BY <1>1, DisplaySafety, PTL

\* Until a backspace spoils it, a screen shows the text that was written to it:
\* wrapping, scrolling, tabs and backspaces lose and misplace nothing.
THEOREM ScreenShowsText == Spec => []ShowsText
<1>1. DisplayInv => ShowsText
  <2> SUFFICES ASSUME ScreenTypes, Faithful, ~mangled
               PROVE  /\ pos_x = column /\ pos_y = Len(text) - 1
                      /\ \A c \in Cells :
                             LET row == c \div Width + 1
                             IN  buf[c] = IF row <= Len(text) THEN text[row][c % Width] ELSE NUL
    BY DEF DisplayInv, ShowsText
  <2>1. pos_x = column /\ Agree(buf, pos_y, text)
    BY DEF Faithful
  <2>2. ASSUME NEW c \in Cells
        PROVE  LET row == c \div Width + 1
               IN  buf[c] = IF row <= Len(text) THEN text[row][c % Width] ELSE NUL
    <3>1. /\ c % Width \in Columns /\ c \div Width \in Rows
          /\ c = CellAt(c % Width, c \div Width)
      BY EveryCell
    <3>2. buf[c] = Shown(text, c % Width, c \div Width)
      BY <2>1, <3>1 DEF Agree
    <3>3. c \div Width \in Int /\ Len(text) \in Int
      BY <3>1, SizeFacts DEF Rows, ScreenTypes, Texts
    <3>4. c \div Width < Len(text) <=> c \div Width + 1 <= Len(text)
      BY <3>3
    <3> QED
      BY <3>2, <3>4 DEF Shown
  <2> QED
    BY <2>1, <2>2 DEF Agree
<1> QED
  BY <1>1, DisplaySafety, PTL

\* The copy of tty_refresh reaches every cell.  So, unless a refresh is due, the
\* display is the screen of the active TTY, whichever TTYs are selected and written
\* to, but for the corner with the seconds and the spinner and, on TTY 0, for the
\* cells that the process list has; during the boot it is what main wrote.
THEOREM DisplayShowsScreen == Spec => []DisplayShows
<1>1. DisplayInv => DisplayShows
  BY DEF DisplayInv
<1> QED
  BY <1>1, DisplaySafety, PTL

=============================================================================
