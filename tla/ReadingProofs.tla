---------------------------- MODULE ReadingProofs ----------------------------
(***************************************************************************)
(* What is read and shown: the screen of `tpp tui`, for any terminal,      *)
(* frames and presses; the tables of a plan document, for any document of  *)
(* plain words; what the Stop gate and `tpp check` say of a plan, for any  *)
(* files, plans and sessions; and the keys of `tpp tui`, however their     *)
(* bytes arrive.                                                           *)
(***************************************************************************)
EXTENDS Terminal, Session, SequenceTheorems, WellFoundedInduction, TLAPS

----------------------------------------------------------------------------
(***************************************************************************)
(* The screen.                                                             *)
(***************************************************************************)

\* The lines that may be drawn on some rows.
Allowed(rows, m) == Most(rows, IF m = "planning" THEN Acknowledgement ELSE 2)

\* What redraw keeps: the selected row exists, the frame is not empty, and the
\* offset and the page were computed for the height of that redraw: an offset
\* means that the frame was cut, and the page is then the rows above the help.
ScreenInv ==
  /\ height \in Heights
  /\ menuSel \in 0..3
  /\ frame \in Nat \ {0}
  /\ scroll \in Nat /\ page \in Nat \ {0} /\ scroll + page <= frame
  /\ drawn.rows \in Nat /\ drawn.lines \in Nat \ {0}
  /\ drawn.rows > 0 => drawn.lines <= Allowed(drawn.rows, mode)
  /\ scroll > 0 => drawn.rows > 0 /\ page = Most(drawn.rows - 1, 1)

\* viewport, for every body, every offset and every height.
LEMMA ViewportFits ==
  ASSUME NEW lines \in Nat \ {0}, NEW offset \in Int, NEW rows \in Nat
  PROVE  LET shown == Viewport(lines, offset, rows) IN
         /\ shown.scroll \in Nat /\ shown.page \in Nat \ {0}
         /\ shown.scroll + shown.page <= lines
         /\ shown.lines \in Nat \ {0}
         /\ rows > 0 => shown.lines <= Most(rows, 2)
         /\ shown.scroll > 0 => rows > 0 /\ shown.page = Most(rows - 1, 1)
<1> DEFINE fits == IF rows - 1 > 1 THEN rows - 1 ELSE 1
           up == IF offset > 0 THEN offset ELSE 0
           down == IF up < lines - 1 - fits THEN up ELSE lines - 1 - fits
<1>1. CASE rows <= 0 \/ lines <= rows
  <2>1. Viewport(lines, offset, rows) = [lines |-> lines, scroll |-> 0, page |-> lines]
    BY <1>1 DEF Viewport
  <2>2. QED  BY <1>1, <2>1 DEF Most
<1>2. CASE ~(rows <= 0 \/ lines <= rows)
  <2>1. Viewport(lines, offset, rows) = [lines |-> fits + 1, scroll |-> down, page |-> fits]
    BY <1>2 DEF Viewport, Least, Most
  <2>2. fits \in Nat \ {0} /\ lines - 1 - fits \in Nat /\ fits + 1 <= Most(rows, 2)
        /\ rows > 0 /\ fits = Most(rows - 1, 1)
    BY <1>2 DEF Most
  <2>3. down \in Nat /\ down + fits <= lines
    BY <2>2
  <2> HIDE DEF fits, up, down
  <2>4. QED  BY <2>1, <2>2, <2>3
<1>3. QED  BY <1>1, <1>2

\* redraw keeps the invariant from wherever the view asks it to draw.
LEMMA RedrawKeeps ==
  ASSUME ScreenInv, NEW lines \in Nat \ {0}, NEW offset \in Int,
         Redraw(lines, offset), height' = height, menuSel' \in 0..3
  PROVE  ScreenInv'
<1>1. height \in Nat
  BY TerminalAssumption DEF ScreenInv
<1> DEFINE shown == Viewport(lines, offset, height)
<1>2. /\ shown.scroll \in Nat /\ shown.page \in Nat \ {0}
      /\ shown.scroll + shown.page <= lines
      /\ shown.lines \in Nat \ {0}
      /\ height > 0 => shown.lines <= Most(height, 2)
      /\ shown.scroll > 0 => height > 0 /\ shown.page = Most(height - 1, 1)
  BY <1>1, ViewportFits
<1>3. /\ frame' = lines /\ scroll' = shown.scroll /\ page' = shown.page
      /\ drawn' = [rows |-> height, lines |-> shown.lines]
      /\ mode' \in {"on", "failed"}
  BY DEF Redraw
<1>4. drawn'.rows = height /\ drawn'.lines = shown.lines
  BY <1>3
<1>5. mode' # "planning" /\ Allowed(height, mode') = Most(height, 2)
  BY <1>3 DEF Allowed
<1> HIDE DEF shown
<1>6. height' \in Heights
  BY DEF ScreenInv
<1>7. QED  BY <1>1, <1>2, <1>3, <1>4, <1>5, <1>6 DEF ScreenInv

LEMMA ScreenInit == ASSUME TerminalInit PROVE ScreenInv
<1>1. height \in Nat /\ frame \in Nat \ {0} /\ height \in Heights /\ menuSel = 0
  BY TerminalAssumption DEF TerminalInit, Views
<1> DEFINE shown == Viewport(frame, 0, height)
<1>0. 0 \in Int
  OBVIOUS
<1>2. /\ shown.scroll \in Nat /\ shown.page \in Nat \ {0}
      /\ shown.scroll + shown.page <= frame
      /\ shown.lines \in Nat \ {0}
      /\ height > 0 => shown.lines <= Most(height, 2)
      /\ shown.scroll > 0 => height > 0 /\ shown.page = Most(height - 1, 1)
  BY <1>0, <1>1, ViewportFits
<1>3. scroll = shown.scroll /\ page = shown.page
      /\ drawn = [rows |-> height, lines |-> shown.lines]
  BY DEF TerminalInit
<1>4. drawn.rows = height /\ drawn.lines = shown.lines
  BY <1>3
<1>5. Allowed(height, mode) = Most(height, 2)
  BY DEF TerminalInit, Allowed
<1> HIDE DEF shown
<1>6. QED  BY <1>1, <1>2, <1>3, <1>4, <1>5 DEF ScreenInv

\* A frame of a view has at least one line.
LEMMA FramesHaveLines ==
  ASSUME NEW v \in Views, NEW n \in Frames[v] PROVE n \in Nat \ {0}
  BY TerminalAssumption

\* The moves of handleScroll: never further than the page, and only page up goes
\* back by more than a line.
LEMMA ScrollsBy ==
  ASSUME ScreenInv, HandleScroll
  PROVE  /\ \E offset \in Int : Redraw(frame, offset)
         /\ \E move \in Int :
              /\ Redraw(frame, scroll + move)
              /\ move <= page /\ move >= 0 - page
              /\ move < 0 - 1 => Head(keys) = "pgup"
<1> DEFINE move == CASE Head(keys) = "up" -> 0 - 1
                     [] Head(keys) = "down" -> 1
                     [] Head(keys) = "pgup" -> 0 - PageStep
                     [] Head(keys) \in {"pgdn", "space"} -> PageStep
                     [] OTHER -> 0
<1>1. PageStep = page /\ page \in Nat \ {0} /\ scroll \in Int
  BY DEF Most, ScreenInv, PageStep
<1>2. move \in Int /\ move <= page /\ move >= 0 - page /\ (move < 0 - 1 => Head(keys) = "pgup")
  BY <1>1
<1>3. Redraw(frame, scroll + move)
  BY DEF HandleScroll
<1> HIDE DEF move
<1>4. scroll + move \in Int
  BY <1>1, <1>2
<1>5. QED  BY <1>2, <1>3, <1>4

LEMMA ScreenStep == ASSUME ScreenInv, [TerminalNext]_TerminalVars PROVE ScreenInv'
<1>1. CASE UNCHANGED TerminalVars
  BY <1>1 DEF TerminalVars, screenVars, ScreenInv
<1>2. CASE Press \/ Close \/ ReadLoop \/ TakeChunk \/ Flush
  BY <1>2 DEF Press, Close, ReadLoop, TakeChunk, Flush, screenVars, ScreenInv
<1>3. CASE Resize
  BY <1>3, TerminalAssumption DEF Resize, screenVars, ScreenInv
<1>4. CASE Quit
  <2>1. mode = "on" /\ mode' # "planning" /\ height' = height /\ UNCHANGED screenVars
    BY <1>4 DEF Quit, Takes
  <2>2. Allowed(drawn.rows, mode') = Allowed(drawn.rows, mode)
    BY <2>1 DEF Allowed
  <2>3. QED  BY <2>1, <2>2 DEF screenVars, ScreenInv
<1>5. CASE HandleMenu
  <2>1. height' = height /\ scroll \in Int /\ frame \in Nat \ {0} /\ menuSel \in 0..3
    BY <1>5 DEF HandleMenu, Takes, ScreenInv
  <2>2. menuSel' \in 0..3
    BY <1>5, <2>1 DEF HandleMenu, Most, Least
  <2>3. CASE Head(keys) = "enter" /\ menuSel # 2
    <3>1. menuSel < 3 /\ view' = <<"status", "features", "plan">>[menuSel + 1]
      BY <1>5, <2>3 DEF HandleMenu, Takes
    <3>2. view' \in Views
      BY <2>1, <3>1 DEF Views
    <3>3. PICK n \in Frames[view'] : Redraw(n, 0)
      BY <1>5, <2>3 DEF HandleMenu
    <3>4. n \in Nat \ {0}
      BY <3>2, <3>3, FramesHaveLines
    <3>5. QED  BY <2>1, <2>2, <3>3, <3>4, RedrawKeeps
  <2>4. CASE Head(keys) # "enter"
    <3>1. Redraw(frame, scroll)
      BY <1>5, <2>4 DEF HandleMenu
    <3>2. QED  BY <2>1, <2>2, <3>1, RedrawKeeps
  <2>5. CASE Head(keys) = "enter" /\ menuSel = 2
    <3>1. /\ mode' = "planning" /\ scroll' = 0 /\ UNCHANGED <<frame, page>>
          /\ drawn' = [rows |-> height, lines |-> Acknowledgement]
      BY <1>5, <2>5 DEF HandleMenu
    <3>2. drawn'.rows = height /\ drawn'.lines = 3
      BY <3>1 DEF Acknowledgement
    <3>3. height \in Nat
      BY TerminalAssumption DEF ScreenInv
    <3>4. 3 <= Allowed(height, mode')
      BY <3>1, <3>3 DEF Allowed, Acknowledgement, Most
    <3>5. height' \in Heights /\ frame' \in Nat \ {0} /\ page' \in Nat \ {0}
          /\ scroll' + page' <= frame'
      BY <2>1, <3>1 DEF ScreenInv
    <3>6. QED  BY <2>2, <3>1, <3>2, <3>3, <3>4, <3>5 DEF ScreenInv
  <2>6. QED  BY <2>3, <2>4, <2>5
<1>6. CASE Leave
  <2>1. height' = height /\ scroll \in Int /\ menuSel' \in 0..3
    BY <1>6 DEF Leave, Takes, ScreenInv
  <2>2. PICK n \in Frames["menu"] : Redraw(n, scroll)
    BY <1>6 DEF Leave
  <2>3. n \in Nat \ {0}
    BY <2>2, FramesHaveLines DEF Views
  <2>4. QED  BY <2>1, <2>2, <2>3, RedrawKeeps
<1>7. CASE HandleFeatures
  <2>1. height' = height /\ scroll \in Int /\ frame \in Nat \ {0} /\ menuSel' \in 0..3
    BY <1>7 DEF HandleFeatures, Takes, ScreenInv
  <2>2. \/ \E n \in Frames["features"] : Redraw(n, scroll)
        \/ Redraw(frame, scroll)
    BY <1>7 DEF HandleFeatures
  <2>3. \A n \in Frames["features"] : n \in Nat \ {0}
    BY FramesHaveLines DEF Views
  <2>4. QED  BY <2>1, <2>2, <2>3, RedrawKeeps
<1>8. CASE HandleScroll
  <2>1. height' = height /\ frame \in Nat \ {0} /\ menuSel' \in 0..3
    BY <1>8 DEF HandleScroll, Takes, ScreenInv
  <2>2. PICK offset \in Int : Redraw(frame, offset)
    BY <1>8, ScrollsBy
  <2>3. QED  BY <2>1, <2>2, RedrawKeeps
<1>9. CASE Planned
  <2>1. height' = height /\ scroll \in Int /\ menuSel' \in 0..3
    BY <1>9 DEF Planned, ScreenInv
  <2>2. PICK n \in Frames["plan"] : Redraw(n, scroll)
    BY <1>9 DEF Planned
  <2>3. n \in Nat \ {0}
    BY <2>2, FramesHaveLines DEF Views
  <2>4. QED  BY <2>1, <2>2, <2>3, RedrawKeeps
<1>10. QED
  BY <1>1, <1>2, <1>3, <1>4, <1>5, <1>6, <1>7, <1>8, <1>9 DEF TerminalNext, Handle

\* On every terminal of a known size, whatever is pressed and however its size
\* changes between two redraws, what is drawn while the loop waits for a key fits
\* the rows it was drawn for, two lines on a terminal of one row; the three lines
\* that announce a dry run stay for as long as it runs, and are the only ones that
\* can be more; and the offset stays within the body (viewport, redraw, handleMenu).
THEOREM ScreenAlwaysFits == TerminalSpec => []ScreenFits
<1>1. TerminalInit => ScreenInv
  BY ScreenInit
<1>2. ScreenInv /\ [TerminalNext]_TerminalVars => ScreenInv'
  BY ScreenStep
<1>3. ScreenInv => ScreenFits
  BY DEF ScreenInv, ScreenFits, Allowed
<1>4. QED  BY <1>1, <1>2, <1>3, PTL DEF TerminalSpec

\* One key in a scrolled view, for any two heights before and after it.
LEMMA NextScreenTouches ==
  ASSUME NEW lines \in Nat \ {0}, NEW s \in Nat, NEW p \in Nat \ {0}, s + p <= lines,
         NEW before \in Nat, NEW rows \in Nat,
         s > 0 => before > 0 /\ p = Most(before - 1, 1),
         NEW move \in Int, move <= p, move >= 0 - p,
         move < 0 - 1 => ~(rows < before)
  PROVE  LET shown == Viewport(lines, s + move, rows) IN
         shown.scroll <= s + p /\ s <= shown.scroll + shown.page
<1> DEFINE fits == Most(rows - 1, 1)
           up == Most(s + move, 0)
           down == Least(up, lines - 1 - fits)
<1>1. CASE rows <= 0 \/ lines <= rows
  <2>1. Viewport(lines, s + move, rows) = [lines |-> lines, scroll |-> 0, page |-> lines]
    BY <1>1 DEF Viewport
  <2>2. QED  BY <2>1
<1>2. CASE ~(rows <= 0 \/ lines <= rows)
  <2>1. Viewport(lines, s + move, rows) = [lines |-> fits + 1, scroll |-> down, page |-> fits]
    BY <1>2 DEF Viewport
  <2>2. fits \in Nat \ {0} /\ rows > 0 /\ (rows >= 2 => fits = rows - 1)
    BY <1>2 DEF Most
  <2>3. up \in Nat /\ up <= s + p /\ (up = s + move \/ (up = 0 /\ s + move < 0))
    BY DEF Most
  <2>4. down \in Int /\ down <= up /\ (down = up \/ down = lines - 1 - fits)
    BY <2>2, <2>3 DEF Least
  <2>5. s <= up + fits
    <3>1. CASE s = 0
      BY <2>2, <2>3, <3>1
    <3>2. CASE move >= 0 - 1
      BY <2>2, <2>3, <3>2
    <3>3. CASE s > 0 /\ move < 0 - 1
      <4>1. p <= fits
        BY <3>3, <2>2 DEF Most
      <4>2. QED  BY <2>2, <2>3, <4>1
    <3>4. QED  BY <3>1, <3>2, <3>3
  <2> HIDE DEF fits, up, down
  <2>6. down <= s + p /\ s <= down + fits
    BY <2>2, <2>3, <2>4, <2>5
  <2>7. QED  BY <2>1, <2>6
<1>3. QED  BY <1>1, <1>2

\* However long the report, a reader who scrolls through it sees every line of it,
\* on a terminal of any size and one that is resized between keys (NoLineIsSkipped).
THEOREM NoLineIsLost == TerminalSpec => NoLineIsSkipped
<1> DEFINE Touches == Scrolls => scroll' <= scroll + page /\ scroll <= scroll' + page'
<1>1. ASSUME ScreenInv, [TerminalNext]_TerminalVars PROVE [Touches]_TerminalVars
  <2> SUFFICES ASSUME Scrolls PROVE scroll' <= scroll + page /\ scroll <= scroll' + page'
    OBVIOUS
  <2>1. scroll \in Nat /\ page \in Nat \ {0}
    BY <1>1 DEF ScreenInv
  <2>2. view \in {"status", "plan"} /\ view' = view /\ handled' # handled
    BY DEF Scrolls
  <2>3. CASE Quit
    BY <2>1, <2>3 DEF Quit, screenVars
  <2>4. CASE HandleScroll
    <3>1. PICK move \in Int : /\ Redraw(frame, scroll + move) /\ move <= page /\ move >= 0 - page
                              /\ move < 0 - 1 => Head(keys) = "pgup"
      BY <1>1, <2>4, ScrollsBy
    <3>2. height \in Nat /\ frame \in Nat \ {0} /\ scroll + page <= frame /\ drawn.rows \in Nat
          /\ (scroll > 0 => drawn.rows > 0 /\ page = Most(drawn.rows - 1, 1))
      BY <1>1, TerminalAssumption DEF ScreenInv
    <3>3. move < 0 - 1 => ~(height < drawn.rows)
      BY <3>1 DEF Scrolls
    <3> DEFINE shown == Viewport(frame, scroll + move, height)
    <3>4. shown.scroll <= scroll + page /\ scroll <= shown.scroll + shown.page
      BY <2>1, <3>1, <3>2, <3>3, NextScreenTouches
    <3>5. scroll' = shown.scroll /\ page' = shown.page
      BY <3>1 DEF Redraw
    <3>6. QED  BY <3>4, <3>5
  <2>5. ~(HandleMenu \/ Leave \/ HandleFeatures)
    BY <2>2 DEF HandleMenu, Leave, HandleFeatures
  <2>6. ~(Press \/ Close \/ Resize \/ ReadLoop \/ TakeChunk \/ Flush \/ Planned)
    BY <2>2 DEF Press, Close, Resize, ReadLoop, TakeChunk, Flush, Planned
  <2>7. ~UNCHANGED TerminalVars
    BY <2>2 DEF TerminalVars
  <2>8. QED  BY <1>1, <2>3, <2>4, <2>5, <2>6, <2>7 DEF TerminalNext, Handle
<1>2. TerminalInit => ScreenInv
  BY ScreenInit
<1>3. ScreenInv /\ [TerminalNext]_TerminalVars => ScreenInv'
  BY ScreenStep
<1>4. QED  BY <1>1, <1>2, <1>3, PTL DEF TerminalSpec, NoLineIsSkipped

----------------------------------------------------------------------------
(***************************************************************************)
(* Induction upwards, least elements and recursive functions.              *)
(***************************************************************************)

\* A set of numbers that is not empty has a least one.
LEMMA LeastExists ==
  ASSUME NEW S \in SUBSET Nat, S # {}
  PROVE  \E n \in S : \A m \in S : n <= m
<1>1. \E n \in S : \A m \in S : <<m, n>> \notin OpToRel(<, Nat)
  BY WFMin, NatLessThanWellFounded, S \subseteq Nat
<1>2. PICK n \in S : \A m \in S : <<m, n>> \notin OpToRel(<, Nat)
  BY <1>1
<1>3. \A m \in S : ~(m < n)
  BY <1>2 DEF OpToRel
<1> QED
  BY <1>3

\* What holds at a, and at every number after one up to b where it holds, holds
\* from a to b.
LEMMA Upwards ==
  ASSUME NEW a \in Nat, NEW b \in Nat, NEW T, a \in T,
         \A i \in a..b : i \in T /\ i < b => i + 1 \in T
  PROVE  \A i \in a..b : i \in T
<1> SUFFICES ASSUME (a..b) \ T # {} PROVE FALSE
  OBVIOUS
<1>1. (a..b) \ T \in SUBSET Nat
  OBVIOUS
<1>2. PICK n \in (a..b) \ T : \A m \in (a..b) \ T : n <= m
  BY <1>1, LeastExists
<1>3. n - 1 \in a..b /\ n - 1 \in T
  BY <1>2
<1> QED
  BY <1>2, <1>3

LEMMA MinIs ==
  ASSUME NEW S \in SUBSET Nat, S # {}
  PROVE  Min(S) \in S /\ \A m \in S : Min(S) <= m
BY LeastExists DEF Min

\* First is the least element, and 0 when there is none.
LEMMA FirstIs ==
  ASSUME NEW S \in SUBSET (Nat \ {0})
  PROVE  /\ S = {} <=> First(S) = 0
         /\ S # {} => First(S) \in S /\ First(S) = Min(S)
         /\ \A m \in S : First(S) <= m
         /\ First(S) \in Nat
BY MinIs DEF First

----------------------------------------------------------------------------
(***************************************************************************)
(* Fences.                                                                 *)
(***************************************************************************)

\* The fence open after line i, when `before` was open before it.
FenceAfter(doc, i, before) ==
  IF doc[i].kind # "fence" THEN before
  ELSE IF before = NoFence THEN [mark |-> doc[i].mark, line |-> i]
  ELSE IF doc[i].mark = before.mark THEN NoFence ELSE before

FencesUpTo(doc, from, to, f) ==
  f = [i \in (from - 1)..to |-> IF i < from THEN NoFence ELSE FenceAfter(doc, i, f[i - 1])]

\* A walk down a region knows its fences at every line.
LEMMA FencesExist ==
  ASSUME NEW doc, NEW from \in Nat \ {0}, NEW to \in Nat, from - 1 <= to
  PROVE  \E f : FencesUpTo(doc, from, to, f)
<1> DEFINE T == {n \in (from - 1)..to : \E f : FencesUpTo(doc, from, n, f)}
<1>1. from - 1 \in T
  <2> DEFINE f == [i \in (from - 1)..(from - 1) |-> NoFence]
  <2>1. FencesUpTo(doc, from, from - 1, f)
    BY DEF FencesUpTo
  <2> QED
    BY <2>1
<1>2. ASSUME NEW n \in (from - 1)..to, n \in T, n < to PROVE n + 1 \in T
  <2>1. PICK f : FencesUpTo(doc, from, n, f)
    BY <1>2
  <2> DEFINE g == [i \in (from - 1)..(n + 1) |-> IF i <= n THEN f[i] ELSE FenceAfter(doc, i, f[n])]
  <2>2. \A i \in (from - 1)..n : f[i] = IF i < from THEN NoFence ELSE FenceAfter(doc, i, f[i - 1])
    BY <2>1 DEF FencesUpTo
  <2>3. \A i \in (from - 1)..(n + 1) : g[i] = IF i < from THEN NoFence ELSE FenceAfter(doc, i, g[i - 1])
    <3> SUFFICES ASSUME NEW i \in (from - 1)..(n + 1)
                 PROVE  g[i] = IF i < from THEN NoFence ELSE FenceAfter(doc, i, g[i - 1])
      OBVIOUS
    <3>1. CASE i < from
      BY <2>2, <3>1
    <3>2. CASE i >= from /\ i <= n
      <4>1. g[i] = f[i] /\ g[i - 1] = f[i - 1] /\ i \in (from - 1)..n
        BY <3>2
      <4> QED
        BY <4>1, <3>2, <2>2
    <3>3. CASE i = n + 1
      <4>1. i >= from /\ g[i - 1] = f[n] /\ g[i] = FenceAfter(doc, i, f[n])
        BY <3>3
      <4> QED
        BY <4>1, <3>3
    <3> QED
      BY <3>1, <3>2, <3>3
  <2>4. FencesUpTo(doc, from, n + 1, g)
    BY <2>3 DEF FencesUpTo
  <2> QED
    BY <1>2, <2>4
<1>3. \A n \in (from - 1)..to : n \in T
  <2> HIDE DEF T
  <2> QED
    BY <1>1, <1>2, Upwards, from - 1 \in Nat
<1> QED
  BY <1>3

\* OpenFence is what the walk knows.
LEMMA FenceSteps ==
  ASSUME NEW doc, NEW from \in Nat \ {0}, NEW to \in Nat, from - 1 <= to
  PROVE  /\ OpenFence(doc, from, to)[from - 1] = NoFence
         /\ \A i \in from..to :
              OpenFence(doc, from, to)[i] = FenceAfter(doc, i, OpenFence(doc, from, to)[i - 1])
<1> DEFINE G == CHOOSE f : FencesUpTo(doc, from, to, f)
<1>1. OpenFence(doc, from, to) = G
  BY DEF OpenFence, FencesUpTo, FenceAfter
<1>2. FencesUpTo(doc, from, to, G)
  BY FencesExist
<1> HIDE DEF G
<1>3. \A i \in (from - 1)..to : G[i] = IF i < from THEN NoFence ELSE FenceAfter(doc, i, G[i - 1])
  BY <1>2 DEF FencesUpTo
<1> QED
  BY <1>1, <1>3

\* The fence known at a line was opened at a line of the region.
LEMMA FenceLine ==
  ASSUME NEW doc, NEW from \in Nat \ {0}, NEW to \in Nat, from - 1 <= to,
         NEW i \in (from - 1)..to
  PROVE  \/ OpenFence(doc, from, to)[i] = NoFence
         \/ OpenFence(doc, from, to)[i].line # 0
<1> DEFINE open == OpenFence(doc, from, to)
           T == {k \in (from - 1)..to : open[k] = NoFence \/ open[k].line # 0}
<1> HIDE DEF open
<1>1. open[from - 1] = NoFence /\ \A k \in from..to : open[k] = FenceAfter(doc, k, open[k - 1])
  BY FenceSteps DEF open
<1>2. ASSUME NEW k \in (from - 1)..to, k \in T, k < to PROVE k + 1 \in T
  <2>1. open[k + 1] = FenceAfter(doc, k + 1, open[k])
    BY <1>1, <1>2
  <2> QED
    BY <1>2, <2>1 DEF FenceAfter
<1>3. from - 1 \in T
  BY <1>1
<1>4. \A k \in (from - 1)..to : k \in T
  <2> HIDE DEF T
  <2> QED
    BY <1>2, <1>3, Upwards, from - 1 \in Nat
<1> QED
  BY <1>4 DEF open

\* A region that starts below a line outside every fence knows the fences of the
\* region around it.
LEMMA SameFences ==
  ASSUME NEW doc, NEW from \in Nat \ {0}, NEW to \in Nat, NEW a \in from..to, NEW b \in a..to,
         OpenFence(doc, from, to)[a] = NoFence
  PROVE  \A i \in a..b : OpenFence(doc, a + 1, b)[i] = OpenFence(doc, from, to)[i]
<1> DEFINE outer == OpenFence(doc, from, to)
           inner == OpenFence(doc, a + 1, b)
           T == {i \in a..b : inner[i] = outer[i]}
<1> HIDE DEF outer, inner
<1>1. \A i \in from..to : outer[i] = FenceAfter(doc, i, outer[i - 1])
  BY FenceSteps DEF outer
<1>2. inner[a] = NoFence /\ \A i \in (a + 1)..b : inner[i] = FenceAfter(doc, i, inner[i - 1])
  <2>1. a + 1 \in Nat \ {0} /\ b \in Nat /\ (a + 1) - 1 <= b /\ (a + 1) - 1 = a
    OBVIOUS
  <2>2. /\ OpenFence(doc, a + 1, b)[(a + 1) - 1] = NoFence
        /\ \A i \in (a + 1)..b :
              OpenFence(doc, a + 1, b)[i] = FenceAfter(doc, i, OpenFence(doc, a + 1, b)[i - 1])
    BY <2>1, FenceSteps
  <2> QED
    BY <2>1, <2>2 DEF inner
<1>3. a \in T
  BY <1>2 DEF outer
<1>4. ASSUME NEW i \in a..b, i \in T, i < b PROVE i + 1 \in T
  <2>1. inner[i + 1] = FenceAfter(doc, i + 1, inner[i]) /\ outer[i + 1] = FenceAfter(doc, i + 1, outer[i])
    BY <1>1, <1>2, <1>4
  <2> QED
    BY <1>4, <2>1
<1>5. \A i \in a..b : i \in T
  <2> HIDE DEF T
  <2> QED
    BY <1>3, <1>4, Upwards
<1> QED
  BY <1>5 DEF inner, outer

\* No fence is open behind a line that is seen.
LEMMA OpenBehindSeen ==
  ASSUME NEW doc, NEW from \in Nat \ {0}, NEW to \in Nat, NEW a \in Visible(doc, from, to)
  PROVE  OpenFence(doc, from, to)[a] = NoFence
<1>1. a \in from..to /\ OpenFence(doc, from, to)[a - 1] = NoFence /\ doc[a].kind # "fence"
  BY DEF Visible
<1>2. OpenFence(doc, from, to)[a] = FenceAfter(doc, a, OpenFence(doc, from, to)[a - 1])
  BY <1>1, FenceSteps, from - 1 <= to
<1> QED
  BY <1>1, <1>2 DEF FenceAfter

\* The lines such a region sees are those that are seen from outside.
LEMMA SameLines ==
  ASSUME NEW doc, NEW from \in Nat \ {0}, NEW to \in Nat,
         NEW a \in Visible(doc, from, to), NEW b \in a..to
  PROVE  Visible(doc, a + 1, b) = {i \in Visible(doc, from, to) : a < i /\ i <= b}
<1>1. a \in from..to
  BY DEF Visible
<1>2. OpenFence(doc, from, to)[a] = NoFence
  BY OpenBehindSeen
<1>3. \A i \in a..b : OpenFence(doc, a + 1, b)[i] = OpenFence(doc, from, to)[i]
  BY <1>1, <1>2, SameFences
<1> QED
  BY <1>1, <1>2, <1>3 DEF Visible

----------------------------------------------------------------------------
(***************************************************************************)
(* Sections: where the reader and the scan look.                           *)
(***************************************************************************)

\* The lines a reader sees, and the headings that end sections.
Seen(doc) == Visible(doc, 1, Len(doc))
Heads(doc) == {i \in DOMAIN doc : IsHeading(doc[i], 2)}

LEMMA Documents ==
  ASSUME NEW Lines, NEW doc \in Seq(Lines)
  PROVE  /\ Len(doc) \in Nat /\ DOMAIN doc = 1..Len(doc)
         /\ Seen(doc) \subseteq DOMAIN doc
         /\ \A i \in DOMAIN doc : doc[i] \in Lines
BY DEF Seen, Visible

\* A section that a reader sees, unless an example hides it: its first line is the
\* one the scan takes for it.  The region of the scan ends with the section, or
\* inside a fence.
LEMMA SameSection ==
  ASSUME NEW Lines, NEW doc \in Seq(Lines), NEW name, ~ExampleHides(doc, name),
         NEW r \in RenderedSection(doc, name)
  PROVE  LET region == SectionRegion(doc, name)
             section == RenderedSection(doc, name)
         IN  /\ region.head \in Seen(doc) /\ region.head < r
             /\ region.last \in region.head..Len(doc)
             /\ \A i \in section : i \in Seen(doc) /\ region.head < i
             /\ \A i \in Seen(doc) : region.head < i /\ i <= region.last => i \in section
             /\ region.last < r => /\ OpenFence(doc, 1, Len(doc))[region.last] # NoFence
                                   /\ ~\E i \in section : i <= region.last /\ doc[i].kind = "heading"
<1> DEFINE heads == {i \in Seen(doc) : IsHeading(doc[i], 2)}
           named == {i \in heads : doc[i].name = name}
           h == First(named)
           section == RenderedSection(doc, name)
<1>0. /\ Len(doc) \in Nat /\ DOMAIN doc = 1..Len(doc) /\ Seen(doc) \subseteq DOMAIN doc
      /\ Seen(doc) \subseteq Nat \ {0} /\ DOMAIN doc \subseteq Nat \ {0}
  BY Documents
<1>1. /\ h # 0
      /\ section = {i \in Seen(doc) : i > h /\ ~\E g \in heads : g \in (h + 1)..i}
  BY DEF RenderedSection, Seen
<1>2. h \in named
  BY <1>0, <1>1, FirstIs, named \in SUBSET (Nat \ {0})
<1>3. {i \in DOMAIN doc : IsHeading(doc[i], 2) /\ doc[i].name = name} = named
  <2>1. ASSUME NEW i \in DOMAIN doc, IsHeading(doc[i], 2), doc[i].name = name PROVE i \in Seen(doc)
    BY <2>1 DEF ExampleHides, Fenced, Seen
  <2> QED
    BY <1>0, <2>1
<1> DEFINE next == {i \in DOMAIN doc : i > h /\ IsHeading(doc[i], 2)}
           last == IF next = {} THEN Len(doc) ELSE Min(next) - 1
<1>4. SectionRegion(doc, name) = [head |-> h, last |-> last]
  BY <1>3 DEF SectionRegion
<1>5. h \in Nat /\ h \in Seen(doc) /\ h \in 1..Len(doc)
  BY <1>0, <1>2
<1>6. next # {} => Min(next) \in next /\ \A i \in next : Min(next) <= i
  BY <1>0, MinIs, next \in SUBSET Nat
<1>7. last \in h..Len(doc) /\ (next # {} => Min(next) = last + 1)
  BY <1>0, <1>5, <1>6
<1>8. ASSUME NEW g \in heads, g > h PROVE g > last
  <2>1. g \in next
    BY <1>0, <1>8
  <2>2. Min(next) <= g /\ Min(next) = last + 1
    BY <1>6, <1>7, <2>1
  <2> HIDE DEF last
  <2> QED
    BY <1>0, <1>5, <1>7, <2>2
<1> HIDE DEF h, named, last, section
<1>9. ASSUME NEW i \in Seen(doc), h < i, i <= last PROVE i \in section
  <2>1. ~\E g \in heads : g \in (h + 1)..i
    BY <1>0, <1>5, <1>7, <1>8, <1>9
  <2> QED
    BY <1>1, <1>9, <2>1
<1>10. ASSUME last < r
       PROVE  /\ OpenFence(doc, 1, Len(doc))[last] # NoFence
              /\ ~\E i \in section : i <= last /\ doc[i].kind = "heading"
  <2>1. r \in Seen(doc) /\ r \in 1..Len(doc) /\ r > h /\ ~\E g \in heads : g \in (h + 1)..r
    BY <1>0, <1>1 DEF section
  <2>2. next # {} /\ last + 1 \in DOMAIN doc /\ IsHeading(doc[last + 1], 2) /\ last + 1 <= r /\ last + 1 > h
    BY <1>0, <1>5, <1>6, <1>7, <1>10, <2>1 DEF last
  <2>3. last + 1 \notin Seen(doc)
    BY <1>0, <1>5, <2>1, <2>2
  <2>4. doc[last + 1].kind # "fence"
    BY <2>2 DEF IsHeading
  <2>5. OpenFence(doc, 1, Len(doc))[last] # NoFence
    BY <1>0, <1>5, <1>7, <2>2, <2>3, <2>4 DEF Seen, Visible
  <2>6. ASSUME NEW i \in section, i <= last, doc[i].kind = "heading" PROVE FALSE
    <3>1. last + 1 \in Fenced(doc)
      BY <2>2, <2>3 DEF Fenced, Seen
    <3>2. i \in Seen(doc) /\ i > h
      BY <1>1, <2>6
    <3>3. ~\E g \in Seen(doc) : g \in i..(last + 1) /\ IsHeading(doc[g], 2)
      <4> SUFFICES ASSUME NEW g \in Seen(doc), g \in i..(last + 1), IsHeading(doc[g], 2) PROVE FALSE
        OBVIOUS
      <4>1. g \in heads /\ g > h
        BY <1>0, <1>5, <3>2
      <4>2. g > last
        BY <1>8, <4>1
      <4>3. g = last + 1
        BY <1>0, <4>2, <1>7
      <4> QED
        BY <2>3, <4>3
    <3>4. i < last + 1
      BY <1>0, <1>7, <2>6, <3>2
    <3> QED
      BY <2>2, <2>6, <3>1, <3>3, <3>4 DEF ExampleHides, Seen, section
  <2> QED
    BY <2>5, <2>6
<1>11. \A i \in section : i \in Seen(doc) /\ h < i
  BY <1>0, <1>1, <1>5
<1> QED
  BY <1>4, <1>5, <1>7, <1>9, <1>10, <1>11 DEF section

\* An owed row that a reader sees is a row of the table that was read, or the scan
\* says that it has not read everything (scanTable, tableUnderSubheading).
LEMMA OwedIsFound ==
  ASSUME NEW Lines, NEW doc \in Seq(Lines), PlainWords(Lines), NEW name, NEW run,
         ~ExampleHides(doc, name), NEW r \in PlainlyOwed(doc, name, run)
  PROVE  LET table == ScanSection(doc, name)
         IN  \/ Interrupted(table)
             \/ /\ r \in table.rows
                /\ \E k \in DOMAIN doc : IsRow(doc[k]) /\ table.header = doc[k].cells
<1> DEFINE section == RenderedSection(doc, name)
           region == SectionRegion(doc, name)
           h == region.head
           last == region.last
           rows == {i \in section : IsRow(doc[i])}
           open == OpenFence(doc, 1, Len(doc))
           table == ScanSection(doc, name)
<1>0. /\ Len(doc) \in Nat /\ DOMAIN doc = 1..Len(doc) /\ Seen(doc) \subseteq 1..Len(doc)
      /\ \A i \in 1..Len(doc) : doc[i] \in Lines
  BY Documents
<1>1. /\ r \in rows /\ "pending" \in Words(doc[r]) /\ r # Min(rows)
      /\ \A c \in section : c \in Min(rows)..r /\ doc[c].kind = "heading" =>
           LET below == {i \in section : i > c}
               top == First({i \in below : IsRow(doc[i])})
               next == First({i \in below : i > top})
           IN  ~(top # 0 /\ next # 0 /\ IsSeparator(doc[next]))
  BY DEF PlainlyOwed
<1>2. /\ h \in Seen(doc) /\ h < r /\ last \in h..Len(doc)
      /\ \A i \in section : i \in Seen(doc) /\ h < i
      /\ \A i \in Seen(doc) : h < i /\ i <= last => i \in section
      /\ last < r => open[last] # NoFence /\ ~\E i \in section : i <= last /\ doc[i].kind = "heading"
  BY <1>1, SameSection
<1> HIDE DEF region, h, last, section, rows, open
<1>3. h \in 1..Len(doc) /\ r \in 1..Len(doc) /\ open[h] = NoFence
  <2>1. r \in 1..Len(doc) /\ h \in 1..Len(doc)
    BY <1>0, <1>1, <1>2 DEF rows
  <2>2. 1 \in Nat \ {0} /\ h \in Visible(doc, 1, Len(doc)) /\ last \in h..Len(doc)
    BY <1>2 DEF Seen
  <2>3. OpenFence(doc, 1, Len(doc))[h] = NoFence
    BY <1>0, <2>2, OpenBehindSeen
  <2> QED
    BY <2>1, <2>3 DEF open
<1> DEFINE seen == Visible(doc, h + 1, last)
           left == OpenFence(doc, h + 1, last)[last].line
           head == First({i \in seen : IsRow(doc[i])})
           closer == First({i \in seen : i > head /\ ~IsRow(doc[i]) /\ doc[i].kind # "blank"})
<1>4. h < last
  BY <1>0, <1>2, <1>3
<1>5. seen = {i \in Seen(doc) : h < i /\ i <= last} /\ seen = {i \in section : i <= last}
  <2>1. 1 \in Nat \ {0} /\ h \in Visible(doc, 1, Len(doc)) /\ last \in h..Len(doc)
    BY <1>2 DEF Seen
  <2>2. Visible(doc, h + 1, last) = {i \in Visible(doc, 1, Len(doc)) : h < i /\ i <= last}
    BY <1>0, <2>1, SameLines
  <2> QED
    BY <1>2, <2>2 DEF Seen
<1>6. table = TableOver(doc, seen, head, closer, last, left)
  BY <1>0, <1>2, <1>3, <1>4
  DEF ScanSection, ScanRegion, ScanTable, ScanSeen, ScanRows, region, h, last
<1>7. OpenFence(doc, h + 1, last)[last] = open[last]
  <2>1. 1 \in Nat \ {0} /\ h \in 1..Len(doc) /\ last \in h..Len(doc) /\ OpenFence(doc, 1, Len(doc))[h] = NoFence
    BY <1>2, <1>3 DEF open
  <2> QED
    BY <1>0, <2>1, SameFences DEF open
<1> HIDE DEF seen, left, head, closer, table
<1>8. last < r => left # 0
  <2>1. h + 1 \in Nat \ {0} /\ last \in Nat /\ (h + 1) - 1 <= last /\ last \in ((h + 1) - 1)..last
    BY <1>0, <1>3, <1>4, <1>2
  <2>2. OpenFence(doc, h + 1, last)[last] = NoFence \/ OpenFence(doc, h + 1, last)[last].line # 0
    BY <2>1, FenceLine
  <2> QED
    BY <1>2, <1>7, <2>2 DEF left
<1>9. /\ seen \subseteq 1..Len(doc) /\ seen \subseteq Nat \ {0}
      /\ head = 0 <=> {i \in seen : IsRow(doc[i])} = {}
      /\ head # 0 => head \in seen /\ IsRow(doc[head]) /\ \A i \in seen : IsRow(doc[i]) => head <= i
      /\ head \in Nat
  <2>1. seen \subseteq 1..Len(doc) /\ seen \subseteq Nat \ {0}
    <3>1. seen \subseteq 1..Len(doc)
      BY <1>0, <1>5
    <3> QED
      BY <3>1, <1>0
  <2>2. {i \in seen : IsRow(doc[i])} \in SUBSET (Nat \ {0})
    BY <2>1
  <2> QED
    BY <2>1, <2>2, FirstIs DEF head
<1>10. /\ closer \in Nat
       /\ closer # 0 => closer \in seen /\ closer > head /\ ~IsRow(doc[closer]) /\ doc[closer].kind # "blank"
       /\ \A i \in seen : i > head /\ ~IsRow(doc[i]) /\ doc[i].kind # "blank" => closer # 0 /\ closer <= i
  <2>1. {i \in seen : i > head /\ ~IsRow(doc[i]) /\ doc[i].kind # "blank"} \in SUBSET (Nat \ {0})
    BY <1>9
  <2> QED
    BY <2>1, FirstIs DEF closer
<1>11. CASE last < r
  <2>1. CASE head = 0
    BY <1>6, <1>8, <1>11, <2>1 DEF TableOver, Interrupted, NoTable, table
  <2>2. CASE head # 0
    <3>1. ~(closer # 0 /\ doc[closer].kind = "heading" /\ doc[closer].level > 2)
      BY <1>2, <1>5, <1>10, <1>11
    <3>2. table.fenceLine = left
      BY <1>6, <2>2, <3>1 DEF TableOver
    <3> QED
      BY <1>8, <1>11, <3>2 DEF Interrupted, table
  <2> QED
    BY <2>1, <2>2
<1>12. CASE ~(last < r)
  <2>1. r \in seen /\ IsRow(doc[r]) /\ r \in section
    BY <1>1, <1>2, <1>3, <1>5, <1>12 DEF rows
  <2>2. head # 0 /\ head \in seen /\ IsRow(doc[head])
    BY <1>9, <2>1
  <2>3. head = Min(rows)
    <3>1. rows \in SUBSET Nat /\ rows # {}
      BY <1>0, <1>2, <2>1 DEF rows
    <3>2. Min(rows) \in rows /\ \A i \in rows : Min(rows) <= i
      BY <3>1, MinIs
    <3>3. head \in rows
      BY <1>5, <2>2 DEF rows
    <3>4. Min(rows) <= head /\ head <= last
      BY <3>2, <3>3, <1>5, <2>2
    <3>5. Min(rows) \in seen /\ IsRow(doc[Min(rows)])
      BY <3>1, <3>2, <3>4, <1>5, <1>2, <1>3, <1>9 DEF rows
    <3>6. head <= Min(rows)
      BY <1>9, <2>2, <3>5
    <3>7. Min(rows) \in Nat
      BY <3>1, <3>2
    <3> QED
      BY <3>4, <3>6, <3>7, <1>9
  <2>4. head < r
    BY <1>1, <1>3, <1>9, <2>1, <2>2, <2>3
  <2>5. CASE closer = 0 \/ r < closer
    <3>1. r \in (head + 1)..(IF closer = 0 THEN last ELSE closer - 1)
      BY <1>3, <1>5, <1>9, <1>10, <2>1, <2>4, <2>5
    <3>2. ~IsSeparator(doc[r])
      BY <1>1 DEF IsSeparator, Words
    <3>3. Cell(doc[r].cells, 1) \notin Placeholders
      BY <1>0, <1>1, <1>3, <2>1 DEF PlainWords
    <3>4. r \in table.rows /\ table.header = doc[head].cells
      BY <1>6, <2>1, <2>2, <3>1, <3>2, <3>3 DEF TableOver
    <3> QED
      BY <1>0, <1>9, <2>2, <3>4 DEF table
  <2>6. CASE closer # 0 /\ closer < r
    <3>1. CASE ~(doc[closer].kind = "heading" /\ doc[closer].level > 2)
      <4>1. First({i \in seen : i > closer /\ IsRow(doc[i])}) # 0
        <5>1. {i \in seen : i > closer /\ IsRow(doc[i])} \in SUBSET (Nat \ {0})
          BY <1>9
        <5>2. r \in {i \in seen : i > closer /\ IsRow(doc[i])}
          BY <2>1, <2>6, <1>3, <1>10
        <5> QED
          BY <5>1, <5>2, FirstIs
      <4>2. table.resumed # 0
        BY <1>6, <2>2, <2>6, <3>1, <4>1 DEF TableOver
      <4> QED
        BY <4>2 DEF Interrupted, table
    <3>2. CASE doc[closer].kind = "heading" /\ doc[closer].level > 2
      <4> DEFINE under == Visible(doc, closer + 1, last)
                 below == {i \in section : i > closer}
                 top == First({i \in below : IsRow(doc[i])})
                 next == First({i \in below : i > top})
                 row == First({i \in under : IsRow(doc[i])})
                 after == {i \in under : i > row}
      <4>1. under = {i \in below : i <= last}
        <5>1. closer \in Visible(doc, 1, Len(doc)) /\ last \in closer..Len(doc) /\ 1 \in Nat \ {0}
          BY <1>0, <1>2, <1>5, <1>9, <1>10, <2>6 DEF Seen
        <5>2. under = {i \in Seen(doc) : closer < i /\ i <= last}
          BY <1>0, <5>1, SameLines DEF Seen
        <5>3. h < closer
          BY <1>5, <1>10, <2>6
        <5> QED
          BY <1>0, <1>2, <1>3, <1>9, <1>10, <5>2, <5>3
      <4>2. closer \in section /\ closer \in Min(rows)..r
        BY <1>3, <1>5, <1>9, <1>10, <2>2, <2>3, <2>6
      <4>3. ~(top # 0 /\ next # 0 /\ IsSeparator(doc[next]))
        BY <1>1, <3>2, <4>2
      <4> HIDE DEF under
      <4>4. below \subseteq 1..Len(doc) /\ r \in below
        BY <1>0, <1>2, <2>1, <2>6
      <4>5. /\ top # 0 /\ top \in below /\ IsRow(doc[top]) /\ top <= r /\ top \in Nat
            /\ \A i \in below : IsRow(doc[i]) => top <= i
        <5>1. {i \in below : IsRow(doc[i])} \in SUBSET (Nat \ {0}) /\ r \in {i \in below : IsRow(doc[i])}
          BY <2>1, <4>4
        <5> HIDE DEF below
        <5> QED
          BY <5>1, FirstIs
      <4>6. row = top
        <5>1. {i \in under : IsRow(doc[i])} \in SUBSET (Nat \ {0})
          BY <4>1, <4>4
        <5>2. top \in {i \in under : IsRow(doc[i])}
          BY <4>1, <4>4, <4>5, <1>2, <1>3, <1>12
        <5> HIDE DEF below, top
        <5>3. row \in {i \in under : IsRow(doc[i])} /\ row <= top /\ row \in Nat
          BY <5>1, <5>2, FirstIs
        <5>4. top <= row
          BY <4>1, <4>5, <5>3
        <5> QED
          BY <4>5, <5>3, <5>4
      <4>7. after # {} => next # 0 /\ Min(after) = next
        <5> SUFFICES ASSUME after # {} PROVE next # 0 /\ Min(after) = next
          OBVIOUS
        <5>1. {i \in below : i > top} \in SUBSET (Nat \ {0}) /\ after \in SUBSET Nat
          BY <4>1, <4>4
        <5>2. after = {i \in below : i > top /\ i <= last}
          BY <4>1, <4>6
        <5> HIDE DEF below, top, after, row
        <5>3. Min(after) \in after /\ \A i \in after : Min(after) <= i
          BY <5>1, MinIs
        <5>4. next # 0 /\ next \in {i \in below : i > top} /\ \A i \in {i \in below : i > top} : next <= i
          BY <5>1, <5>2, <5>3, FirstIs
        <5>5. next <= Min(after) /\ next \in Nat /\ Min(after) \in Nat /\ Min(after) <= last
          BY <5>1, <5>2, <5>3, <5>4
        <5>6. next \in after
          BY <5>2, <5>4, <5>5, <1>2, <1>3
        <5> QED
          BY <5>3, <5>4, <5>5, <5>6
      <4>8. CutRow(doc, under) = row /\ row # 0
        <5> HIDE DEF top, next
        <5>1. row # 0
          BY <4>5, <4>6
        <5>2. ~(after # {} /\ IsSeparator(doc[Min(after)]))
          BY <4>3, <4>5, <4>7
        <5>3. CutRow(doc, under) = IF row # 0 /\ after # {} /\ IsSeparator(doc[Min(after)]) THEN 0 ELSE row
          BY DEF CutRow
        <5> QED
          BY <5>1, <5>2, <5>3
      <4>9. table.resumed = CutRow(doc, under)
        BY <1>6, <2>2, <2>6, <3>2 DEF TableOver, under
      <4> QED
        BY <4>8, <4>9 DEF Interrupted, table
    <3> QED
      BY <3>1, <3>2 DEF table
  <2>7. r # closer
    <3>1. closer # 0 => ~IsRow(doc[closer])
      BY <1>10
    <3>2. r # 0
      BY <2>1, <1>9
    <3> QED
      BY <2>1, <3>1, <3>2
  <2> QED
    BY <1>3, <1>10, <2>5, <2>6, <2>7
<1> QED
  BY <1>11, <1>12 DEF table

\* A table that was not read to the end, has a row the run owes, or cannot tell whose
\* its rows are.
Told(doc, table, run) ==
  \/ Interrupted(table)
  \/ /\ HasTable(table)
     /\ \/ Owed(doc, table, run) # {}
        \/ run # "" /\ RunProblem(doc, table, run)

\* The scan tells of every owed row that a reader sees.
LEMMA OwedIsTold ==
  ASSUME NEW Lines, NEW doc \in Seq(Lines), PlainWords(Lines), NEW name,
         NEW run \in Runs \union {""},
         ~ExampleHides(doc, name), PlainlyOwed(doc, name, run) # {}
  PROVE  Told(doc, ScanSection(doc, name), run)
<1> DEFINE table == ScanSection(doc, name)
<1>1. PICK r \in PlainlyOwed(doc, name, run) : TRUE
  OBVIOUS
<1>2. SUFFICES ASSUME ~Interrupted(table)
               PROVE  /\ HasTable(table)
                      /\ \/ Owed(doc, table, run) # {}
                         \/ run # "" /\ RunProblem(doc, table, run)
  BY DEF Told
<1>3. r \in table.rows /\ \E k \in DOMAIN doc : IsRow(doc[k]) /\ table.header = doc[k].cells
  BY <1>1, <1>2, OwedIsFound
<1>4. PICK k \in DOMAIN doc : IsRow(doc[k]) /\ table.header = doc[k].cells
  BY <1>3
<1>5. /\ IsRow(doc[r]) /\ r \in DOMAIN doc /\ "pending" \in Words(doc[r])
      /\ run = "" \/ run \in Words(doc[r])
  <2>1. /\ r \in RenderedSection(doc, name) /\ IsRow(doc[r]) /\ "pending" \in Words(doc[r])
        /\ run = "" \/ run \in Words(doc[r])
    BY <1>1 DEF PlainlyOwed
  <2>2. RenderedSection(doc, name) \subseteq Seen(doc)
    BY DEF RenderedSection, Seen
  <2> QED
    BY <2>1, <2>2, Documents
<1>6. doc[r] \in Lines /\ doc[k] \in Lines
  BY <1>4, <1>5, Documents
<1> HIDE DEF table
<1>7. HasTable(table)
  BY <1>4, <1>6 DEF PlainWords, HasTable
<1>8. At(doc, table, r, "status") \notin DoneStatus \union NaStatus
  <2>1. At(doc, table, r, "status") \in Words(doc[r]) \union {""}
    BY DEF At, Cell, Words
  <2>2. Words(doc[r]) \intersect (DoneStatus \union NaStatus) = {}
    BY <1>5, <1>6 DEF PlainWords
  <2> QED
    BY <2>1, <2>2 DEF DoneStatus, NaStatus
<1>9. CASE run = ""
  BY <1>3, <1>7, <1>8, <1>9 DEF Owed, OwnedRows
<1>10. CASE run # "" /\ Column(table.header, "run") = 0
  BY <1>7, <1>10 DEF RunProblem
<1>11. CASE run # "" /\ Column(table.header, "run") # 0
  <2>1. At(doc, table, r, "run") = run
    <3>1. run \in Runs \intersect Words(doc[r])
      BY <1>5, <1>11
    <3> QED
      BY <1>4, <1>5, <1>6, <1>11, <3>1 DEF PlainWords, At
  <2> QED
    BY <1>3, <1>7, <1>8, <1>11, <2>1 DEF Owed, OwnedRows
<1> QED
  BY <1>9, <1>10, <1>11

\* The counts of a document report what a reader sees of its layer matrix.
LEMMA LayersAreReported ==
  ASSUME NEW Lines, NEW doc \in Seq(Lines), PlainWords(Lines), NEW run \in Runs \union {""},
         ~ExampleHides(doc, "Layer matrix"), PlainlyOwed(doc, "Layer matrix", run) # {}
  PROVE  AnyGap(GapsForRun(doc, run))
<1> DEFINE layers == ScanSection(doc, "Layer matrix")
           ranked == ScanSection(doc, "Ranked targets")
           micro == ~HasTable(layers) /\ MicroActivated(doc)
           gaps == GapsOf(doc, run, layers, ranked, micro)
<1>1. \/ Interrupted(layers)
      \/ HasTable(layers) /\ (Owed(doc, layers, run) # {} \/ (run # "" /\ RunProblem(doc, layers, run)))
  <2>1. Told(doc, layers, run)
    BY OwedIsTold
  <2> QED
    BY <2>1 DEF Told
<1>2. GapsForRun(doc, run) = gaps
  BY DEF GapsForRun
<1> HIDE DEF layers, ranked, micro
<1>3. CASE Interrupted(layers)
  <2>1. layers \in gaps.interrupted
    BY <1>3 DEF GapsOf
  <2> QED
    BY <1>2, <2>1 DEF AnyGap
<1>4. CASE HasTable(layers) /\ Owed(doc, layers, run) # {}
  <2>1. gaps.unswept = Owed(doc, layers, run)
    BY DEF GapsOf
  <2> HIDE DEF gaps
  <2> QED
    BY <1>2, <1>4, <2>1 DEF AnyGap
<1>5. CASE HasTable(layers) /\ run # "" /\ RunProblem(doc, layers, run)
  <2>1. gaps.runProblems
    BY <1>5 DEF GapsOf
  <2> HIDE DEF gaps
  <2> QED
    BY <1>2, <2>1 DEF AnyGap
<1> QED
  BY <1>1, <1>3, <1>4, <1>5

\* However a draft is continued, the counts report every owed row of its layer matrix
\* that a reader sees, for a run and for no run (GapsForRun, scanTable).
THEOREM OwedRowsAreTold == DocSpec => []OwedRowsAreReported
<1> DEFINE Inv == draft \in Seq(DraftLines)
<1>1. DocInit => Inv
  BY PlanDocAssumption DEF DocInit
<1>2. Inv /\ [WriteLine]_draft => Inv'
  BY DEF WriteLine
<1>3. Inv => OwedRowsAreReported
  BY PlanDocAssumption, LayersAreReported DEF OwedRowsAreReported
<1> QED
  BY <1>1, <1>2, <1>3, PTL DEF DocSpec

----------------------------------------------------------------------------
(***************************************************************************)
(* The gate and the check.                                                 *)
(***************************************************************************)

\* What the gate says of a plan it has nothing to ask of.
CleanLines == {"owes nothing", "micro owes nothing"}

\* What "owes nothing" is said of.
LEMMA AuditSays ==
  ASSUME NEW gaps
  PROVE  /\ AuditLine(gaps) \in CleanLines <=>
              /\ gaps.unswept = {} /\ gaps.pending = {} /\ gaps.interrupted = {}
              /\ ~gaps.noLayerMatrix
         /\ AuditLine(gaps) = "owes nothing" => ~gaps.micro
         /\ AuditLine(gaps) = "micro owes nothing" => gaps.micro
BY DEF AuditLine, CleanLines

\* The counts of a whole document have no run to miss.
LEMMA WholeGaps ==
  ASSUME NEW doc
  PROVE  AnyGap(GapsIn(doc)) <=>
           LET gaps == GapsIn(doc)
           IN  ~(/\ gaps.unswept = {} /\ gaps.pending = {} /\ gaps.interrupted = {}
                 /\ ~gaps.noLayerMatrix)
<1> DEFINE layers == ScanSection(doc, "Layer matrix")
           ranked == ScanSection(doc, "Ranked targets")
           micro == ~HasTable(layers) /\ MicroActivated(doc)
           gaps == GapsOf(doc, "", layers, ranked, micro)
<1>1. GapsIn(doc) = gaps
  BY DEF GapsIn, GapsForRun
<1> HIDE DEF layers, ranked, micro
<1>2. ~gaps.runMissing /\ ~gaps.runProblems
  BY DEF GapsOf
<1> HIDE DEF gaps
<1> QED
  BY <1>1, <1>2 DEF AnyGap

PlansOK == plans \in [Places -> Docs \union {NoPlan}]

LEMMA ThePlanIs ==
  ASSUME PlansOK
  PROVE  ThePlan \in Docs \union {NoPlan}
BY DEF PlansOK, ThePlan, PlanPlace, Places

\* What an audit hears, by case.
LEMMA AuditHears ==
  ASSUME NEW e
  PROVE  /\ declaration = "bad" =>
              Audit(e).heard = [line |-> "declaration", doc |-> NoPlan]
         /\ declaration # "bad" /\ ThePlan = NoPlan => Audit(e).heard = Silence
         /\ declaration # "bad" /\ ThePlan # NoPlan =>
              Audit(e).heard = [line |-> AuditLine(Gaps[ThePlan]), doc |-> ThePlan]
BY DEF Audit

\* It has nothing to ask only of a plan that it has read.
LEMMA AuditIsClean ==
  ASSUME NEW e
  PROVE  Audit(e).heard.line \in CleanLines <=>
           /\ declaration # "bad" /\ ThePlan # NoPlan
           /\ AuditLine(Gaps[ThePlan]) \in CleanLines
<1> DEFINE said == Audit(e).heard
<1>1. CASE declaration = "bad"
  <2>1. said = [line |-> "declaration", doc |-> NoPlan]
    BY <1>1, AuditHears
  <2> HIDE DEF said
  <2>2. said.line = "declaration"
    BY <2>1
  <2>3. "declaration" \notin CleanLines
    BY DEF CleanLines
  <2>4. said.line \notin CleanLines
    BY <2>2, <2>3
  <2> QED
    BY <1>1, <2>4 DEF said
<1>2. CASE declaration # "bad" /\ ThePlan = NoPlan
  <2>1. said = Silence
    BY <1>2, AuditHears
  <2> HIDE DEF said
  <2>2. said.line = ""
    BY <2>1 DEF Silence
  <2>3. "" \notin CleanLines
    BY DEF CleanLines
  <2>4. said.line \notin CleanLines
    BY <2>2, <2>3
  <2> QED
    BY <1>2, <2>4 DEF said
<1>3. CASE declaration # "bad" /\ ThePlan # NoPlan
  <2>1. said = [line |-> AuditLine(Gaps[ThePlan]), doc |-> ThePlan]
    BY <1>3, AuditHears
  <2> HIDE DEF said
  <2>2. said.line = AuditLine(Gaps[ThePlan])
    BY <2>1
  <2> QED
    BY <1>3, <2>2 DEF said
<1> QED
  BY <1>1, <1>2, <1>3

\* A stop says "owes nothing" only by an audit.
LEMMA JudgeHears ==
  ASSUME NEW git, NEW continued,
         Decide(git, continued).heard.line \in CleanLines
  PROVE  \E e : Decide(git, continued) = Audit(e)
<1> DEFINE line == [NoEntry EXCEPT !.files = ChangedSources, !.optedOut = optOut]
<1>1. ~continued /\ Decide(git, continued) = Judge(git)
  BY DEF Decide, Silence, CleanLines
<1>2. Judge(git).heard.line \in CleanLines
  BY <1>1
<1>3. Judge(git) = Audit(line)
  BY <1>2 DEF Judge, Silence, CleanLines
<1> QED
  BY <1>1, <1>3

\* The gate says so only of the plan it has counted.
LEMMA DecideSays ==
  ASSUME PlansOK, NEW git, NEW continued,
         Decide(git, continued).heard.line \in CleanLines
  PROVE  LET heardNow == Decide(git, continued).heard
         IN  heardNow.doc \in Docs /\ AuditLine(GapsIn(heardNow.doc)) = heardNow.line
<1>1. PICK e : Decide(git, continued) = Audit(e)
  BY JudgeHears
<1> DEFINE said == Decide(git, continued).heard
<1>2. declaration # "bad" /\ ThePlan # NoPlan
  BY <1>1, AuditIsClean
<1>3. said = [line |-> AuditLine(Gaps[ThePlan]), doc |-> ThePlan]
  BY <1>1, <1>2, AuditHears
<1> HIDE DEF said
<1>4. said.line = AuditLine(Gaps[ThePlan]) /\ said.doc = ThePlan
  BY <1>3
<1>5. ThePlan \in Docs
  BY <1>2, ThePlanIs
<1>6. Gaps[ThePlan] = GapsIn(ThePlan)
  BY <1>5 DEF Gaps
<1> QED
  BY <1>4, <1>5, <1>6 DEF said

\* Plans are written by the agent alone.
LEMMA PlansStay ==
  ASSUME PlansOK, [SessionNext]_SessionVars
  PROVE  PlansOK'
<1>1. CASE WritePlan
  BY <1>1 DEF WritePlan, PlansOK
<1>2. CASE UNCHANGED plans
  BY <1>2 DEF PlansOK
<1>3. CASE RunStopHook
  BY <1>2, <1>3 DEF RunStopHook
<1>4. CASE StopUnread \/ AskToStop \/ NewSession
  BY <1>2, <1>4 DEF StopUnread, AskToStop, NewSession
<1>5. CASE Commit \/ LoadSkill \/ Configure
  BY <1>2, <1>5 DEF Commit, LoadSkill, Configure
<1>6. CASE \E f \in SourceFiles : Edit(f) \/ Rearrange(f)
  BY <1>2, <1>6 DEF Edit, Rearrange
<1> QED
  BY <1>1, <1>2, <1>3, <1>4, <1>5, <1>6 DEF SessionNext, SessionVars

\* A change that the gate judges is answered alike by both.
LEMMA AnswersAgree ==
  ASSUME PlansOK
  PROVE  GateAndCheckAgree
<1> SUFFICES ASSUME ChangedSources # {}, ~optOut, DisciplineRan,
                    ~(Cardinality(StatusEntries) > MaxStatusEntries)
             PROVE  (CheckRun("ok") = 0) <=> (Decide("ok", FALSE).heard.line \in CleanLines)
  BY DEF GateAndCheckAgree, CleanLines
<1> DEFINE e == [NoEntry EXCEPT !.files = ChangedSources, !.optedOut = optOut]
           said == Decide("ok", FALSE).heard.line \in CleanLines
<1>1. Decide("ok", FALSE) = Audit(e)
  <2>1. Decide("ok", FALSE) = Judge("ok")
    BY DEF Decide
  <2>2. Judge("ok") = Audit(e)
    BY DEF Judge
  <2> QED
    BY <2>1, <2>2
<1>2. StatusEntries \intersect Production # {}
  BY DEF ChangedSources
<1>3. said <=> /\ declaration # "bad" /\ ThePlan # NoPlan
               /\ AuditLine(Gaps[ThePlan]) \in CleanLines
  BY <1>1, AuditIsClean
<1> HIDE DEF e
<1>4. CASE declaration = "bad" \/ ThePlan = NoPlan
  <2>1. CheckRun("ok") = 1
    BY <1>2, <1>4 DEF CheckRun
  <2>2. CheckRun("ok") # 0
    BY <2>1
  <2>3. ~said
    BY <1>3, <1>4
  <2> HIDE DEF said
  <2> QED
    BY <2>2, <2>3 DEF said
<1>5. CASE declaration # "bad" /\ ThePlan # NoPlan
  <2>1. CheckRun("ok") = IF AnyGap(Gaps[ThePlan]) THEN 1 ELSE 0
    BY <1>2, <1>5 DEF CheckRun
  <2>2. Gaps[ThePlan] = GapsIn(ThePlan)
    BY <1>5, ThePlanIs DEF Gaps
  <2>3. (CheckRun("ok") = 0) <=> ~AnyGap(GapsIn(ThePlan))
    BY <2>1, <2>2
  <2>4. AuditLine(GapsIn(ThePlan)) \in CleanLines <=> ~AnyGap(GapsIn(ThePlan))
    BY AuditSays, WholeGaps
  <2>5. said <=> ~AnyGap(GapsIn(ThePlan))
    BY <1>3, <1>5, <2>2, <2>4
  <2> HIDE DEF said
  <2> QED
    BY <2>3, <2>5 DEF said
<1> QED
  BY <1>4, <1>5

\* The gate and the check answer every tree alike, whatever the agent did, whatever
\* its plan is, for any files and any limits (Decide, auditLine, check.Run).
THEOREM AnswersAlwaysAgree == SessionSpec => []GateAndCheckAgree
<1>1. SessionInit => PlansOK
  BY DEF SessionInit, SessionAt, PlansOK
<1>2. PlansOK /\ [SessionNext]_SessionVars => PlansOK'
  BY PlansStay
<1>3. PlansOK => GateAndCheckAgree
  BY AnswersAgree
<1> QED
  BY <1>1, <1>2, <1>3, PTL DEF SessionSpec

\* A plan that owes nothing by the counts owes nothing that a reader sees, and a micro
\* plan breaks no rule.
LEMMA CleanCountsAreTrue ==
  ASSUME NEW doc \in Docs,
         AuditLine(GapsIn(doc)) \in CleanLines
  PROVE  /\ \A name \in {"Layer matrix", "Ranked targets"} :
              PlainlyOwed(doc, name, "") = {} \/ ExampleHides(doc, name)
         /\ AuditLine(GapsIn(doc)) = "owes nothing" => HasTable(ScanSection(doc, "Layer matrix"))
         /\ AuditLine(GapsIn(doc)) = "micro owes nothing" => CheckDocument(doc) = {}
<1> DEFINE lines == {doc[i] : i \in DOMAIN doc}
           layers == ScanSection(doc, "Layer matrix")
           ranked == ScanSection(doc, "Ranked targets")
           micro == ~HasTable(layers) /\ MicroActivated(doc)
           gaps == GapsOf(doc, "", layers, ranked, micro)
<1>1. doc \in Seq(lines) /\ PlainWords(lines)
  BY SessionAssumption
<1>2. GapsIn(doc) = gaps
  BY DEF GapsIn, GapsForRun
<1>3. gaps.unswept = {} /\ gaps.pending = {} /\ gaps.interrupted = {} /\ ~gaps.noLayerMatrix
  BY <1>2, AuditSays
<1>4. /\ AuditLine(gaps) = "owes nothing" => ~gaps.micro
      /\ AuditLine(gaps) = "micro owes nothing" => gaps.micro
  BY AuditSays
<1> HIDE DEF layers, ranked, micro, lines
<1>5. /\ gaps.micro = micro /\ gaps.noLayerMatrix = (~HasTable(layers) /\ ~micro)
      /\ gaps.unswept = Owed(doc, layers, "")
      /\ ~micro \/ HasTable(ranked) => gaps.pending = Owed(doc, ranked, "")
      /\ Interrupted(layers) => layers \in gaps.interrupted
      /\ (~micro \/ HasTable(ranked)) /\ Interrupted(ranked) => ranked \in gaps.interrupted
  BY DEF GapsOf
<1> HIDE DEF gaps
<1>6. micro => CheckDocument(doc) = {} /\ ~HasTable(layers)
  BY DEF micro, MicroActivated
<1>7. micro => ~Interrupted(ranked)
  <2> SUFFICES ASSUME micro, Interrupted(ranked) PROVE FALSE
    OBVIOUS
  <2> DEFINE findings == ScanSection(doc, "Findings")
             ledger == ScanSection(doc, "Evidence ledger")
  <2>1. Breaches(doc, findings, ledger, ranked, layers) = {}
    BY <1>6 DEF CheckDocument, ranked, layers
  <2> HIDE DEF findings, ledger
  <2>2. CASE ~HasTable(findings)
    BY <2>1, <2>2 DEF Breaches, Breach
  <2>3. CASE HasTable(findings)
    <3> DEFINE broken == UNION {IF Interrupted(t) THEN Breach("interrupted", {t.ended, t.fenceLine}) ELSE {} :
                                  t \in {findings, ledger, ranked, layers}}
    <3>1. broken = {}
      BY <2>1, <2>3 DEF Breaches
    <3>2. Breach("interrupted", {ranked.ended, ranked.fenceLine}) \subseteq broken
      OBVIOUS
    <3>3. <<"interrupted", ranked.ended>> \in Breach("interrupted", {ranked.ended, ranked.fenceLine})
      BY DEF Breach
    <3> QED
      BY <3>1, <3>2, <3>3
  <2> QED
    BY <2>2, <2>3
<1>8. ASSUME NEW name, ~ExampleHides(doc, name), PlainlyOwed(doc, name, "") # {}
      PROVE  Told(doc, ScanSection(doc, name), "")
  <2>1. "" \in Runs \union {""}
    OBVIOUS
  <2> QED
    BY <1>1, <1>8, <2>1, OwedIsTold
<1>9. ASSUME ~ExampleHides(doc, "Layer matrix"), PlainlyOwed(doc, "Layer matrix", "") # {} PROVE FALSE
  <2>1. Told(doc, ScanSection(doc, "Layer matrix"), "")
    BY <1>8, <1>9
  <2>2. Interrupted(layers) \/ (HasTable(layers) /\ Owed(doc, layers, "") # {})
    BY <2>1 DEF layers, Told
  <2> QED
    BY <1>3, <1>5, <2>2
<1>10. ASSUME ~ExampleHides(doc, "Ranked targets"), PlainlyOwed(doc, "Ranked targets", "") # {} PROVE FALSE
  <2>1. Told(doc, ScanSection(doc, "Ranked targets"), "")
    BY <1>8, <1>10
  <2>2. Interrupted(ranked) \/ (HasTable(ranked) /\ Owed(doc, ranked, "") # {})
    BY <2>1 DEF ranked, Told
  <2> QED
    BY <1>3, <1>5, <1>7, <2>2
<1>11. AuditLine(GapsIn(doc)) = "owes nothing" => HasTable(layers)
  BY <1>2, <1>3, <1>4, <1>5
<1>12. AuditLine(GapsIn(doc)) = "micro owes nothing" => CheckDocument(doc) = {}
  BY <1>2, <1>4, <1>5, <1>6
<1> QED
  BY <1>9, <1>10, <1>11, <1>12 DEF layers

\* What was heard last was true of the plan it was about.
HeardOK ==
  heard.line \in CleanLines =>
    heard.doc \in Docs /\ AuditLine(GapsIn(heard.doc)) = heard.line

\* What the gate says of a plan is true of it, for any plans of plain words, any files,
\* sessions and stops (auditLine, GapsForRun, microTarget).
THEOREM OwesNothingIsNotALie == SessionSpec => []OwesNothingIsTrue
<1> DEFINE Inv == PlansOK /\ HeardOK
<1>1. SessionInit => Inv
  <2> SUFFICES ASSUME SessionInit PROVE Inv
    OBVIOUS
  <2>1. PlansOK
    BY DEF SessionInit, SessionAt, PlansOK
  <2>2. heard = Silence
    BY DEF SessionInit, SessionAt
  <2>3. heard.line \notin CleanLines
    BY <2>2 DEF Silence, CleanLines
  <2> QED
    BY <2>1, <2>3 DEF HeardOK
<1>2. Inv /\ [SessionNext]_SessionVars => Inv'
  <2> SUFFICES ASSUME Inv, [SessionNext]_SessionVars PROVE Inv'
    OBVIOUS
  <2>1. PlansOK'
    BY PlansStay
  <2>2. CASE RunStopHook
    <3>1. PICK git \in {"ok", "failed", "no repository"} : heard' = Decide(git, active).heard
      BY <2>2 DEF RunStopHook
    <3> QED
      BY <2>1, <3>1, DecideSays DEF HeardOK
  <2>3. CASE StopUnread
    BY <2>1, <2>3 DEF StopUnread, HeardOK, Silence, CleanLines
  <2>4. CASE UNCHANGED heard
    BY <2>1, <2>4 DEF HeardOK
  <2> QED
    BY <2>2, <2>3, <2>4
    DEF SessionNext, SessionVars, Rest, Edit, Rearrange, Commit, LoadSkill, WritePlan, Configure, AskToStop, NewSession
<1>3. Inv => OwesNothingIsTrue
  <2> SUFFICES ASSUME HeardOK, heard.line \in CleanLines
               PROVE  OwesNothingIsTrue
    BY DEF OwesNothingIsTrue, CleanLines
  <2>1. heard.doc \in Docs /\ AuditLine(GapsIn(heard.doc)) = heard.line
    BY DEF HeardOK
  <2> QED
    BY <2>1, CleanCountsAreTrue DEF OwesNothingIsTrue
<1> QED
  BY <1>1, <1>2, <1>3, PTL DEF SessionSpec

----------------------------------------------------------------------------
(***************************************************************************)
(* The keys. Recursive functions over a sequence are walks: at each place  *)
(* they give out something and go on further right.                        *)
(***************************************************************************)

\* A number is in T when all later ones up to b are.
Descends(a, b, T) == \A i \in a..b : (\A j \in (i + 1)..b : j \in T) => i \in T

\* What holds at every number when it holds at all later ones up to b.
LEMMA Downwards ==
  ASSUME NEW a \in Nat, NEW b \in Nat, NEW T, Descends(a, b, T)
  PROVE  \A i \in a..b : i \in T
<1> SUFFICES ASSUME (a..b) \ T # {} PROVE FALSE
  OBVIOUS
<1> DEFINE S == {b - i : i \in (a..b) \ T}
<1>1. S \in SUBSET Nat /\ S # {}
  OBVIOUS
<1>2. PICK n \in S : \A m \in S : n <= m
  BY <1>1, LeastExists
<1>3. PICK i \in (a..b) \ T : n = b - i
  BY <1>2
<1>4. ASSUME NEW j \in (i + 1)..b, j \notin T PROVE FALSE
  <2>1. b - j \in S /\ b - j < n
    BY <1>3, <1>4
  <2> HIDE DEF S
  <2>2. b - j \in Nat /\ n \in Nat
    BY <1>1, <1>2, <2>1
  <2> QED
    BY <1>2, <2>1, <2>2
<1> QED
  BY <1>3, <1>4 DEF Descends

\* A walk from a position to the end of n things: what it gives out at each, and
\* where it goes on.
Then(s, t) == s \o t
Onward(n, to) == \A i \in 1..n : to[i] \in (i + 1)..(n + 1)
Parts(n, out, S) == \A i \in 1..n : out[i] \in Seq(S)
WalkOf(n, out, to, f) ==
  f = [i \in 1..(n + 1) |-> IF i > n THEN <<>> ELSE Then(out[i], f[to[i]])]

\* Concatenation, under a name the provers do not open.
LEMMA ThenAssociates ==
  ASSUME NEW S, NEW s \in Seq(S), NEW t \in Seq(S), NEW u \in Seq(S)
  PROVE  Then(s, Then(t, u)) = Then(Then(s, t), u)
BY ConcatAssociative DEF Then

\* There is such a walk, for any parts.
LEMMA WalkExists ==
  ASSUME NEW n \in Nat, NEW out, NEW to, Onward(n, to)
  PROVE  \E f : WalkOf(n, out, to, f)
<1> DEFINE at(a, f) == f = [i \in a..(n + 1) |-> IF i > n THEN <<>> ELSE Then(out[i], f[to[i]])]
           T == {a \in 1..(n + 1) : \E f : at(a, f)}
<1>1. ASSUME NEW a \in 1..(n + 1), a = n + 1 \/ a + 1 \in T PROVE a \in T
  <2>1. CASE a = n + 1
    <3> DEFINE f == [i \in a..(n + 1) |-> <<>>]
    <3>1. f = [i \in a..(n + 1) |-> IF i > n THEN <<>> ELSE Then(out[i], f[to[i]])]
      <4>1. \A i \in a..(n + 1) : i > n
        BY <2>1
      <4> HIDE DEF f
      <4>2. \A i \in a..(n + 1) : (IF i > n THEN <<>> ELSE Then(out[i], f[to[i]])) = <<>>
        BY <4>1
      <4> QED
        BY <4>2 DEF f
    <3> QED
      BY <3>1
  <2>2. CASE a # n + 1
    <3>0. a \in 1..n
      BY <2>2
    <3>1. PICK f : at(a + 1, f)
      BY <1>1, <2>2
    <3> DEFINE g == [i \in a..(n + 1) |-> IF i = a THEN Then(out[a], f[to[a]]) ELSE f[i]]
    <3>2. \A i \in (a + 1)..(n + 1) : f[i] = IF i > n THEN <<>> ELSE Then(out[i], f[to[i]])
      BY <3>1
    <3>3. ASSUME NEW i \in a..(n + 1) PROVE g[i] = IF i > n THEN <<>> ELSE Then(out[i], g[to[i]])
      <4>1. CASE i = a
        <5>1. to[a] \in (a + 1)..(n + 1)
          BY <3>0 DEF Onward
        <5>2. g[to[a]] = f[to[a]] /\ g[a] = Then(out[a], f[to[a]])
          BY <3>0, <5>1
        <5> QED
          BY <3>0, <4>1, <5>2
      <4>2. CASE i # a /\ i <= n
        <5>1. to[i] \in (i + 1)..(n + 1)
          BY <3>0, <4>2 DEF Onward
        <5>2. g[to[i]] = f[to[i]] /\ g[i] = f[i]
          BY <3>0, <4>2, <5>1
        <5>3. i \in (a + 1)..(n + 1) /\ ~(i > n)
          BY <3>0, <4>2
        <5> QED
          BY <3>2, <5>2, <5>3
      <4>3. CASE i # a /\ i > n
        <5>1. i \in (a + 1)..(n + 1) /\ g[i] = f[i]
          BY <3>0, <4>3
        <5> QED
          BY <3>2, <4>3, <5>1
      <4> QED
        BY <4>1, <4>2, <4>3
    <3>4. at(a, g)
      BY <3>3
    <3> QED
      BY <3>4
  <2> QED
    BY <2>1, <2>2
<1> HIDE DEF T
<1>2. Descends(1, n + 1, T)
  <2> SUFFICES ASSUME NEW a \in 1..(n + 1), \A j \in (a + 1)..(n + 1) : j \in T
               PROVE  a \in T
    BY DEF Descends
  <2>1. a = n + 1 \/ a + 1 \in T
    OBVIOUS
  <2> QED
    BY <1>1, <2>1
<1>3. 1 \in T
  <2>1. n + 1 \in Nat /\ 1 \in 1..(n + 1)
    OBVIOUS
  <2> QED
    BY <1>2, <2>1, Downwards
<1> QED
  BY <1>3 DEF WalkOf, T

\* One step of a walk.
LEMMA WalkSteps ==
  ASSUME NEW n \in Nat, NEW out, NEW to, NEW f, WalkOf(n, out, to, f),
         NEW i \in 1..(n + 1)
  PROVE  f[i] = IF i > n THEN <<>> ELSE Then(out[i], f[to[i]])
BY DEF WalkOf

\* What a walk gives out is of the kind of its parts.
LEMMA WalkIsSeq ==
  ASSUME NEW n \in Nat, NEW out, NEW to, NEW f, WalkOf(n, out, to, f), NEW S,
         Onward(n, to), Parts(n, out, S)
  PROVE  \A i \in 1..(n + 1) : f[i] \in Seq(S)
<1> DEFINE T == {i \in 1..(n + 1) : f[i] \in Seq(S)}
<1>1. ASSUME NEW i \in 1..(n + 1), \A j \in (i + 1)..(n + 1) : j \in T PROVE i \in T
  <2>0. f[i] = IF i > n THEN <<>> ELSE Then(out[i], f[to[i]])
    BY DEF WalkOf
  <2>1. CASE i > n
    <3>1. f[i] = <<>> /\ <<>> \in Seq(S)
      BY <2>0, <2>1, EmptySeq
    <3> QED
      BY <3>1
  <2>2. CASE i <= n
    <3>0. to[i] \in (i + 1)..(n + 1) /\ out[i] \in Seq(S)
      BY <2>2 DEF Onward, Parts
    <3>1. f[to[i]] \in Seq(S)
      BY <1>1, <3>0
    <3>2. f[i] = Then(out[i], f[to[i]])
      BY <2>0, <2>2
    <3>3. Then(out[i], f[to[i]]) \in Seq(S)
      BY <3>0, <3>1, ConcatProperties DEF Then
    <3> QED
      BY <3>2, <3>3
  <2> QED
    BY <2>1, <2>2
<1> HIDE DEF T
<1>2. Descends(1, n + 1, T)
  BY <1>1 DEF Descends
<1>3. \A i \in 1..(n + 1) : i \in T
  BY <1>2, Downwards, n + 1 \in Nat
<1> QED
  BY <1>3 DEF T

\* A walk from the middle on is a walk of what is left.
LEMMA WalkOn ==
  ASSUME NEW n \in Nat, NEW out, NEW to, NEW f, WalkOf(n, out, to, f),
         NEW m \in Nat, NEW k \in Nat, n = k + m,
         NEW out2, NEW to2, NEW g, WalkOf(m, out2, to2, g), Onward(m, to2),
         \A i \in 1..m : out2[i] = out[k + i] /\ to[k + i] = k + to2[i]
  PROVE  \A i \in 1..(m + 1) : g[i] = f[k + i]
<1> DEFINE T == {i \in 1..(m + 1) : g[i] = f[k + i]}
<1>1. ASSUME NEW i \in 1..(m + 1), \A j \in (i + 1)..(m + 1) : j \in T PROVE i \in T
  <2>1. k + i \in 1..(n + 1)
    OBVIOUS
  <2>2. g[i] = (IF i > m THEN <<>> ELSE Then(out2[i], g[to2[i]]))
    BY WalkSteps
  <2>3. f[k + i] = (IF k + i > n THEN <<>> ELSE Then(out[k + i], f[to[k + i]]))
    BY <2>1, WalkSteps
  <2>4. CASE i > m
    BY <2>2, <2>3, <2>4
  <2>5. CASE i <= m
    <3>0. to2[i] \in (i + 1)..(m + 1)
      BY <2>5 DEF Onward
    <3>1. g[to2[i]] = f[k + to2[i]]
      BY <1>1, <3>0
    <3>2. out2[i] = out[k + i] /\ to[k + i] = k + to2[i]
      BY <2>5
    <3> QED
      BY <2>2, <2>3, <2>5, <3>1, <3>2
  <2> QED
    BY <2>4, <2>5
<1> HIDE DEF T
<1>2. Descends(1, m + 1, T)
  BY <1>1 DEF Descends
<1>3. \A i \in 1..(m + 1) : i \in T
  BY <1>2, Downwards, m + 1 \in Nat
<1> QED
  BY <1>3 DEF T

\* A walk is the walk up to the middle and what comes after it.
LEMMA WalkTo ==
  ASSUME NEW n \in Nat, NEW out, NEW to, NEW f, WalkOf(n, out, to, f), NEW S,
         Onward(n, to), Parts(n, out, S),
         NEW k \in 0..n, NEW out2, NEW to2, NEW g, WalkOf(k, out2, to2, g),
         Onward(k, to2), \A i \in 1..k : out2[i] = out[i] /\ to[i] = to2[i]
  PROVE  \A i \in 1..(k + 1) : f[i] = Then(g[i], f[k + 1])
<1> DEFINE T == {i \in 1..(k + 1) : f[i] = Then(g[i], f[k + 1])}
<1>1. \A i \in 1..(n + 1) : f[i] \in Seq(S)
  BY WalkIsSeq
<1>2. \A i \in 1..(k + 1) : g[i] \in Seq(S)
  <2>1. Parts(k, out2, S)
    BY DEF Parts
  <2> QED
    BY <2>1, WalkIsSeq, k \in Nat
<1>3. ASSUME NEW i \in 1..(k + 1), \A j \in (i + 1)..(k + 1) : j \in T PROVE i \in T
  <2>1. g[i] = (IF i > k THEN <<>> ELSE Then(out2[i], g[to2[i]]))
    BY WalkSteps, k \in Nat
  <2>4. f[k + 1] \in Seq(S) /\ f[i] \in Seq(S)
    BY <1>1
  <2>2. CASE i = k + 1
    <3>1. g[i] = <<>> /\ f[i] = f[k + 1]
      BY <2>1, <2>2
    <3>2. Then(<<>>, f[k + 1]) = f[k + 1]
      BY <2>4, ConcatEmptySeq DEF Then
    <3> QED
      BY <3>1, <3>2
  <2>3. CASE i <= k
    <3>0. to2[i] \in (i + 1)..(k + 1) /\ out[i] \in Seq(S) /\ i \in 1..n
      BY <2>3 DEF Onward, Parts
    <3>1. f[to2[i]] = Then(g[to2[i]], f[k + 1])
      BY <1>3, <3>0
    <3>2. f[i] = Then(out[i], f[to[i]])
      <4>1. i \in 1..(n + 1) /\ ~(i > n)
        BY <3>0
      <4> QED
        BY <4>1, WalkSteps
    <3>3. out2[i] = out[i] /\ to[i] = to2[i]
      BY <2>3
    <3>4. g[i] = Then(out[i], g[to2[i]])
      BY <2>1, <2>3, <3>3
    <3>5. g[to2[i]] \in Seq(S)
      BY <1>2, <3>0
    <3>6. Then(out[i], Then(g[to2[i]], f[k + 1])) = Then(Then(out[i], g[to2[i]]), f[k + 1])
      BY <2>4, <3>0, <3>5, ThenAssociates
    <3> QED
      BY <3>1, <3>2, <3>3, <3>4, <3>6
  <2> QED
    BY <2>2, <2>3
<1> HIDE DEF T
<1>4. Descends(1, k + 1, T)
  BY <1>3 DEF Descends
<1>5. \A i \in 1..(k + 1) : i \in T
  BY <1>4, Downwards, k + 1 \in Nat
<1> QED
  BY <1>5 DEF T

----------------------------------------------------------------------------
(* Presses and their bytes. *)

\* What is pressed after the first k presses.
After(ps, k) == SubSeq(ps, k + 1, Len(ps))

PlainPresses == {"enter", "space", "q", "ctrlc", "x"}

\* The bytes of every press.
LEMMA BytesTable ==
  /\ Bytes("up") = <<"E", "[", "A">> /\ Bytes("down") = <<"E", "O", "B">>
  /\ Bytes("pgup") = <<"E", "[", "5", "~">> /\ Bytes("pgdn") = <<"E", "[", "6", "~">>
  /\ Bytes("home") = <<"E", "[", "H">> /\ Bytes("esc") = <<"E">>
  /\ \A p \in PlainPresses : Bytes(p) = <<p>>
<1>1. Bytes("up") = <<"E", "[", "A">>
  BY DEF Bytes
<1>2. Bytes("down") = <<"E", "O", "B">>
  BY DEF Bytes
<1>3. Bytes("pgup") = <<"E", "[", "5", "~">>
  BY DEF Bytes
<1>4. Bytes("pgdn") = <<"E", "[", "6", "~">>
  BY DEF Bytes
<1>5. Bytes("home") = <<"E", "[", "H">>
  BY DEF Bytes
<1>6. Bytes("esc") = <<"E">>
  BY DEF Bytes
<1>7. ASSUME NEW p \in PlainPresses PROVE Bytes(p) = <<p>>
  BY <1>7 DEF Bytes, PlainPresses
<1> QED
  BY <1>1, <1>2, <1>3, <1>4, <1>5, <1>6, <1>7

\* A press is a sequence or one byte.
LEMMA KnownAre ==
  ASSUME NEW p \in KnownPresses
  PROVE  p \in {"up", "down", "pgup", "pgdn", "home", "esc"} \/ p \in PlainPresses
BY DEF KnownPresses, PlainPresses

\* Every byte there is.
AllBytes == {"E", "[", "O", "A", "B", "H", "5", "6", "~"} \cup PlainPresses

\* Tuples are sequences.
LEMMA Tuples ==
  ASSUME NEW S, NEW a \in S, NEW b \in S, NEW c \in S, NEW d \in S
  PROVE  /\ <<a>> \in Seq(S) /\ Len(<<a>>) = 1
         /\ <<a, b, c>> \in Seq(S) /\ Len(<<a, b, c>>) = 3
         /\ <<a, b, c, d>> \in Seq(S) /\ Len(<<a, b, c, d>>) = 4
OBVIOUS

\* A press has one to four bytes.
LEMMA BytesAre ==
  ASSUME NEW p \in KnownPresses
  PROVE  Bytes(p) \in Seq(AllBytes) /\ Len(Bytes(p)) \in 1..4
<1>0. "E" \in AllBytes /\ "[" \in AllBytes /\ "O" \in AllBytes /\ "A" \in AllBytes /\ "B" \in AllBytes
      /\ "H" \in AllBytes /\ "5" \in AllBytes /\ "6" \in AllBytes /\ "~" \in AllBytes
  BY DEF AllBytes
<1>1. CASE p = "up"
  <2>1. <<"E", "[", "A">> \in Seq(AllBytes) /\ Len(<<"E", "[", "A">>) = 3
    BY <1>0, Tuples
  <2>2. Bytes(p) = <<"E", "[", "A">>
    BY <1>1, BytesTable
  <2> QED
    BY <2>1, <2>2
<1>2. CASE p = "down"
  <2>1. <<"E", "O", "B">> \in Seq(AllBytes) /\ Len(<<"E", "O", "B">>) = 3
    BY <1>0, Tuples
  <2>2. Bytes(p) = <<"E", "O", "B">>
    BY <1>2, BytesTable
  <2> QED
    BY <2>1, <2>2
<1>3. CASE p = "pgup"
  <2>1. <<"E", "[", "5", "~">> \in Seq(AllBytes) /\ Len(<<"E", "[", "5", "~">>) = 4
    BY <1>0, Tuples
  <2>2. Bytes(p) = <<"E", "[", "5", "~">>
    BY <1>3, BytesTable
  <2> QED
    BY <2>1, <2>2
<1>4. CASE p = "pgdn"
  <2>1. <<"E", "[", "6", "~">> \in Seq(AllBytes) /\ Len(<<"E", "[", "6", "~">>) = 4
    BY <1>0, Tuples
  <2>2. Bytes(p) = <<"E", "[", "6", "~">>
    BY <1>4, BytesTable
  <2> QED
    BY <2>1, <2>2
<1>5. CASE p = "home"
  <2>1. <<"E", "[", "H">> \in Seq(AllBytes) /\ Len(<<"E", "[", "H">>) = 3
    BY <1>0, Tuples
  <2>2. Bytes(p) = <<"E", "[", "H">>
    BY <1>5, BytesTable
  <2> QED
    BY <2>1, <2>2
<1>6. CASE p = "esc"
  <2>1. <<"E">> \in Seq(AllBytes) /\ Len(<<"E">>) = 1
    BY <1>0, Tuples
  <2>2. Bytes(p) = <<"E">>
    BY <1>6, BytesTable
  <2> QED
    BY <2>1, <2>2
<1>7. CASE p \in PlainPresses
  <2>1. p \in AllBytes
    BY <1>7 DEF AllBytes
  <2>2. <<p>> \in Seq(AllBytes) /\ Len(<<p>>) = 1
    BY <2>1, Tuples
  <2>3. Bytes(p) = <<p>>
    BY <1>7, BytesTable
  <2> QED
    BY <2>2, <2>3
<1> QED
  BY <1>1, <1>2, <1>3, <1>4, <1>5, <1>6, <1>7, KnownAre

Outs(ps) == [i \in 1..Len(ps) |-> Bytes(ps[i])]
Nexts(n) == [i \in 1..n |-> i + 1]

\* Sent is the first value of a walk over the presses.
LEMMA SentIsWalk ==
  ASSUME NEW ps \in Seq(KnownPresses)
  PROVE  /\ Onward(Len(ps), Nexts(Len(ps))) /\ Parts(Len(ps), Outs(ps), AllBytes)
         /\ \E f : WalkOf(Len(ps), Outs(ps), Nexts(Len(ps)), f) /\ Sent(ps) = f[1]
<1> DEFINE n == Len(ps)
           F(f) == f = [i \in 1..(n + 1) |-> IF i > n THEN <<>> ELSE Bytes(ps[i]) \o f[i + 1]]
           G == CHOOSE f : F(f)
<1>0. n \in Nat /\ \A i \in 1..n : ps[i] \in KnownPresses
  OBVIOUS
<1>1. Onward(n, Nexts(n))
  BY <1>0 DEF Onward, Nexts
<1>2. Parts(n, Outs(ps), AllBytes)
  BY <1>0, BytesAre DEF Parts, Outs
<1>3. PICK f : WalkOf(n, Outs(ps), Nexts(n), f)
  BY <1>0, <1>1, WalkExists
<1>4. ASSUME NEW g PROVE F(g) <=> WalkOf(n, Outs(ps), Nexts(n), g)
  <2>1. \A i \in 1..(n + 1) : (IF i > n THEN <<>> ELSE Bytes(ps[i]) \o g[i + 1])
                           = (IF i > n THEN <<>> ELSE Then(Outs(ps)[i], g[Nexts(n)[i]]))
    <3> SUFFICES ASSUME NEW i \in 1..(n + 1), ~(i > n)
                 PROVE  Bytes(ps[i]) \o g[i + 1] = Then(Outs(ps)[i], g[Nexts(n)[i]])
      BY <1>0
    <3>1. i \in 1..n
      BY <1>0
    <3>2. Outs(ps)[i] = Bytes(ps[i]) /\ Nexts(n)[i] = i + 1
      BY <3>1 DEF Outs, Nexts
    <3> QED
      BY <3>2 DEF Then
  <2> QED
    BY <2>1 DEF WalkOf
<1>5. Sent(ps) = G[1]
  BY DEF Sent
<1>6. F(G)
  BY <1>3, <1>4
<1>7. WalkOf(n, Outs(ps), Nexts(n), G)
  BY <1>4, <1>6
<1> QED
  BY <1>1, <1>2, <1>5, <1>7

\* The first k presses and those after them.
LEMMA PartsOfPresses ==
  ASSUME NEW ps \in Seq(KnownPresses), NEW k \in 0..Len(ps)
  PROVE  /\ SubSeq(ps, 1, k) \in Seq(KnownPresses) /\ Len(SubSeq(ps, 1, k)) = k
         /\ \A i \in 1..k : SubSeq(ps, 1, k)[i] = ps[i]
         /\ After(ps, k) \in Seq(KnownPresses) /\ Len(After(ps, k)) = Len(ps) - k
         /\ \A i \in 1..(Len(ps) - k) : After(ps, k)[i] = ps[k + i]
<1>1. \A i \in 1..Len(ps) : ps[i] \in KnownPresses
  OBVIOUS
<1>2. Len(ps) \in Nat /\ k \in Int /\ k + 1 \in Int
  OBVIOUS
<1>3. \A i \in 1..k : ps[i] \in KnownPresses
  BY <1>1, <1>2
<1>4. \A i \in (k + 1)..Len(ps) : ps[i] \in KnownPresses
  BY <1>1, <1>2
<1>5. /\ SubSeq(ps, 1, k) \in Seq(KnownPresses)
      /\ Len(SubSeq(ps, 1, k)) = IF 1 <= k THEN k - 1 + 1 ELSE 0
      /\ \A i \in 1..(k - 1 + 1) : SubSeq(ps, 1, k)[i] = ps[1 + i - 1]
  BY <1>2, <1>3, SubSeqProperties
<1>6. /\ After(ps, k) \in Seq(KnownPresses)
      /\ Len(After(ps, k)) = IF k + 1 <= Len(ps) THEN Len(ps) - (k + 1) + 1 ELSE 0
      /\ \A i \in 1..(Len(ps) - (k + 1) + 1) : After(ps, k)[i] = ps[k + 1 + i - 1]
  BY <1>2, <1>4, SubSeqProperties DEF After
<1> QED
  BY <1>2, <1>5, <1>6

\* The bytes of all presses are those of the first k and those of the others.
LEMMA SentSplits ==
  ASSUME NEW ps \in Seq(KnownPresses)
  PROVE  \E f :
           /\ WalkOf(Len(ps), Outs(ps), Nexts(Len(ps)), f)
           /\ \A k \in 0..Len(ps) : /\ Sent(After(ps, k)) = f[k + 1]
                                    /\ Sent(ps) = Sent(SubSeq(ps, 1, k)) \o f[k + 1]
           /\ \A i \in 1..(Len(ps) + 1) : f[i] \in Seq(AllBytes)
<1> DEFINE n == Len(ps)
<1>0. n \in Nat
  OBVIOUS
<1>1. PICK f : WalkOf(n, Outs(ps), Nexts(n), f) /\ Sent(ps) = f[1]
  BY SentIsWalk
<1>2. Onward(n, Nexts(n)) /\ Parts(n, Outs(ps), AllBytes)
  BY SentIsWalk
<1> HIDE DEF n
<1>3. \A i \in 1..(n + 1) : f[i] \in Seq(AllBytes)
  BY <1>0, <1>1, <1>2, WalkIsSeq
<1>4. ASSUME NEW k \in 0..n PROVE Sent(After(ps, k)) = f[k + 1]
  <2> DEFINE qs == After(ps, k)
             m == n - k
  <2>1. qs \in Seq(KnownPresses) /\ Len(qs) = m /\ \A i \in 1..m : qs[i] = ps[k + i]
    BY PartsOfPresses DEF n
  <2>2. m \in Nat /\ k \in Nat /\ n = k + m
    BY <1>0
  <2> HIDE DEF qs, m
  <2>3. PICK g : WalkOf(m, Outs(qs), Nexts(m), g) /\ Sent(qs) = g[1]
    BY <2>1, SentIsWalk
  <2>4. Onward(m, Nexts(m))
    BY <2>1, SentIsWalk
  <2>5. \A i \in 1..m : Outs(qs)[i] = Outs(ps)[k + i] /\ Nexts(n)[k + i] = k + Nexts(m)[i]
    BY <2>1, <2>2 DEF Outs, Nexts, n
  <2>6. \A i \in 1..(m + 1) : g[i] = f[k + i]
    BY <1>0, <1>1, <2>2, <2>3, <2>4, <2>5, WalkOn
  <2> QED
    BY <2>2, <2>3, <2>6 DEF qs
<1>5. ASSUME NEW k \in 0..n PROVE Sent(ps) = Sent(SubSeq(ps, 1, k)) \o f[k + 1]
  <2> DEFINE qs == SubSeq(ps, 1, k)
  <2>1. qs \in Seq(KnownPresses) /\ Len(qs) = k /\ \A i \in 1..k : qs[i] = ps[i]
    BY PartsOfPresses DEF n
  <2> HIDE DEF qs
  <2>3. PICK g : WalkOf(k, Outs(qs), Nexts(k), g) /\ Sent(qs) = g[1]
    BY <2>1, SentIsWalk
  <2>4. Onward(k, Nexts(k))
    BY <2>1, SentIsWalk
  <2>5. \A i \in 1..k : Outs(qs)[i] = Outs(ps)[i] /\ Nexts(n)[i] = Nexts(k)[i]
    BY <1>0, <2>1 DEF Outs, Nexts, n
  <2>6. \A i \in 1..(k + 1) : f[i] = Then(g[i], f[k + 1])
    BY <1>0, <1>1, <1>2, <2>3, <2>4, <2>5, WalkTo
  <2>7. 1 \in 1..(k + 1)
    BY <1>0
  <2> QED
    BY <1>1, <2>3, <2>6, <2>7 DEF qs, Then
<1> QED
  BY <1>1, <1>3, <1>4, <1>5 DEF n

\* ... and they come one press after the other.
LEMMA SentFirst ==
  ASSUME NEW ps \in Seq(KnownPresses)
  PROVE  /\ \A k \in 0..Len(ps) :
              /\ Sent(After(ps, k)) \in Seq(AllBytes)
              /\ Sent(SubSeq(ps, 1, k)) \in Seq(AllBytes)
              /\ Sent(ps) = Sent(SubSeq(ps, 1, k)) \o Sent(After(ps, k))
         /\ \A k \in 0..(Len(ps) - 1) :
              Sent(After(ps, k)) = Bytes(ps[k + 1]) \o Sent(After(ps, k + 1))
         /\ Sent(After(ps, Len(ps))) = <<>>
<1> DEFINE n == Len(ps)
<1>0. n \in Nat
  OBVIOUS
<1>1. PICK f : /\ WalkOf(n, Outs(ps), Nexts(n), f)
               /\ \A k \in 0..n : /\ Sent(After(ps, k)) = f[k + 1]
                                  /\ Sent(ps) = Sent(SubSeq(ps, 1, k)) \o f[k + 1]
               /\ \A i \in 1..(n + 1) : f[i] \in Seq(AllBytes)
  BY SentSplits
<1>2. ASSUME NEW k \in 0..n
      PROVE  /\ Sent(After(ps, k)) \in Seq(AllBytes)
             /\ Sent(SubSeq(ps, 1, k)) \in Seq(AllBytes)
             /\ Sent(ps) = Sent(SubSeq(ps, 1, k)) \o Sent(After(ps, k))
  <2>1. Sent(After(ps, k)) = f[k + 1] /\ Sent(ps) = Sent(SubSeq(ps, 1, k)) \o f[k + 1]
    BY <1>1
  <2>2. k + 1 \in 1..(n + 1)
    BY <1>0
  <2>3. SubSeq(ps, 1, k) \in Seq(KnownPresses)
    BY PartsOfPresses
  <2>4. \A qs \in Seq(KnownPresses) : Sent(qs) \in Seq(AllBytes)
    <3> SUFFICES ASSUME NEW qs \in Seq(KnownPresses) PROVE Sent(qs) \in Seq(AllBytes)
      OBVIOUS
    <3>1. PICK g : WalkOf(Len(qs), Outs(qs), Nexts(Len(qs)), g) /\ Sent(qs) = g[1]
      BY SentIsWalk
    <3>2. Len(qs) \in Nat /\ 1 \in 1..(Len(qs) + 1)
      OBVIOUS
    <3>3. Onward(Len(qs), Nexts(Len(qs))) /\ Parts(Len(qs), Outs(qs), AllBytes)
      BY SentIsWalk
    <3>4. \A i \in 1..(Len(qs) + 1) : g[i] \in Seq(AllBytes)
      BY <3>1, <3>2, <3>3, WalkIsSeq
    <3> QED
      BY <3>1, <3>2, <3>4
  <2> QED
    BY <1>1, <2>1, <2>2, <2>3, <2>4
<1>3. ASSUME NEW k \in 0..(n - 1)
      PROVE  Sent(After(ps, k)) = Bytes(ps[k + 1]) \o Sent(After(ps, k + 1))
  <2>1. k \in 0..n /\ k + 1 \in 0..n /\ k + 1 \in 1..n /\ k + 1 \in 1..(n + 1) /\ ~(k + 1 > n)
    BY <1>0
  <2>2. f[k + 1] = Then(Outs(ps)[k + 1], f[Nexts(n)[k + 1]])
    BY <1>0, <1>1, <2>1, WalkSteps
  <2>3. Outs(ps)[k + 1] = Bytes(ps[k + 1]) /\ Nexts(n)[k + 1] = k + 1 + 1
    BY <2>1 DEF Outs, Nexts
  <2>4. Sent(After(ps, k)) = f[k + 1] /\ Sent(After(ps, k + 1)) = f[k + 1 + 1]
    BY <1>1, <2>1
  <2> QED
    BY <2>2, <2>3, <2>4 DEF Then
<1>4. Sent(After(ps, n)) = <<>>
  <2>1. n \in 0..n /\ n + 1 \in 1..(n + 1) /\ n + 1 > n
    BY <1>0
  <2>2. f[n + 1] = <<>>
    BY <1>0, <1>1, <2>1, WalkSteps
  <2> QED
    BY <1>1, <2>1, <2>2
<1> QED
  BY <1>2, <1>3, <1>4

\* Sequences of one length with the same elements are the same.
LEMMA SameSeqs ==
  ASSUME NEW S, NEW s \in Seq(S), NEW t \in Seq(S), NEW n \in Nat, Len(s) = n, Len(t) = n,
         \A i \in 1..n : s[i] = t[i]
  PROVE  s = t
BY SeqEqual

\* All presses are those after none.
LEMMA SentIsSeq ==
  ASSUME NEW ps \in Seq(KnownPresses)
  PROVE  Sent(ps) \in Seq(AllBytes) /\ Sent(ps) = Sent(After(ps, 0)) /\ SubSeq(ps, 1, Len(ps)) = ps
<1>1. 0 \in 0..Len(ps) /\ Len(ps) \in 0..Len(ps) /\ Len(ps) \in Nat
  OBVIOUS
<1>2. After(ps, 0) = ps /\ SubSeq(ps, 1, Len(ps)) = ps
  BY SubSeqFull DEF After
<1>3. Sent(After(ps, 0)) \in Seq(AllBytes)
  BY <1>1, SentFirst
<1> QED
  BY <1>2, <1>3

\* The bytes of one press more at the end.
LEMMA SentGrows ==
  ASSUME NEW ps \in Seq(KnownPresses), NEW k \in 0..(Len(ps) - 1)
  PROVE  Sent(SubSeq(ps, 1, k + 1)) = Sent(SubSeq(ps, 1, k)) \o Bytes(ps[k + 1])
<1> DEFINE qs == SubSeq(ps, 1, k + 1)
<1>0. Len(ps) \in Nat /\ k \in 0..Len(ps) /\ k + 1 \in 0..Len(ps) /\ k \in Nat /\ k + 1 \in 1..(k + 1)
  OBVIOUS
<1>1. qs \in Seq(KnownPresses) /\ Len(qs) = k + 1 /\ \A i \in 1..(k + 1) : qs[i] = ps[i]
  BY <1>0, PartsOfPresses
<1> HIDE DEF qs
<1>2. k \in 0..Len(qs) /\ k \in 0..(Len(qs) - 1)
  BY <1>0, <1>1
<1>3. SubSeq(qs, 1, k) = SubSeq(ps, 1, k)
  <2>1. /\ SubSeq(qs, 1, k) \in Seq(KnownPresses) /\ Len(SubSeq(qs, 1, k)) = k
        /\ \A i \in 1..k : SubSeq(qs, 1, k)[i] = qs[i]
    BY <1>1, <1>2, PartsOfPresses
  <2>2. /\ SubSeq(ps, 1, k) \in Seq(KnownPresses) /\ Len(SubSeq(ps, 1, k)) = k
        /\ \A i \in 1..k : SubSeq(ps, 1, k)[i] = ps[i]
    BY <1>0, PartsOfPresses
  <2>3. \A i \in 1..k : SubSeq(qs, 1, k)[i] = SubSeq(ps, 1, k)[i]
    BY <1>0, <1>1, <2>1, <2>2
  <2> QED
    BY <1>0, <2>1, <2>2, <2>3, SameSeqs
<1>4. Sent(qs) = Sent(SubSeq(ps, 1, k)) \o Sent(After(qs, k))
  BY <1>1, <1>2, <1>3, SentFirst
<1>5. Sent(After(qs, k)) = Bytes(ps[k + 1]) \o <<>>
  <2>1. Sent(After(qs, k)) = Bytes(qs[k + 1]) \o Sent(After(qs, k + 1))
    BY <1>1, <1>2, SentFirst
  <2>2. Sent(After(qs, k + 1)) = <<>>
    BY <1>1, SentFirst
  <2> QED
    BY <1>0, <1>1, <2>1, <2>2
<1>6. Bytes(ps[k + 1]) \o <<>> = Bytes(ps[k + 1])
  <2>1. ps[k + 1] \in KnownPresses
    BY <1>0
  <2> QED
    BY <2>1, BytesAre, ConcatEmptySeq
<1> QED
  BY <1>4, <1>5, <1>6 DEF qs

\* One press more.
LEMMA SentAppended ==
  ASSUME NEW ps \in Seq(KnownPresses), NEW p \in KnownPresses, NEW k \in 0..Len(ps)
  PROVE  Sent(After(Append(ps, p), k)) = Sent(After(ps, k)) \o Bytes(p)
<1> DEFINE all == Append(ps, p)
           rs == After(all, k)
           m == Len(ps) - k
<1>0. Len(ps) \in Nat /\ m \in Nat /\ k \in Nat
  OBVIOUS
<1>1. /\ all \in Seq(KnownPresses) /\ Len(all) = Len(ps) + 1
      /\ \A i \in 1..Len(ps) : all[i] = ps[i]
      /\ all[Len(ps) + 1] = p
  BY AppendProperties
<1> HIDE DEF all
<1>2. k \in 0..Len(all)
  BY <1>0, <1>1
<1>3. /\ rs \in Seq(KnownPresses) /\ Len(rs) = Len(all) - k
      /\ \A i \in 1..(Len(all) - k) : rs[i] = all[k + i]
  BY <1>1, <1>2, PartsOfPresses
<1> HIDE DEF rs
<1>4. Len(rs) = m + 1 /\ m \in 0..(Len(rs) - 1) /\ m \in 0..Len(rs)
  BY <1>0, <1>1, <1>3
<1>5. Sent(SubSeq(rs, 1, m + 1)) = Sent(SubSeq(rs, 1, m)) \o Bytes(rs[m + 1])
  BY <1>3, <1>4, SentGrows
<1>6. SubSeq(rs, 1, m + 1) = rs
  BY <1>3, <1>4, SubSeqFull
<1>7. rs[m + 1] = p
  <2>1. m + 1 \in 1..(Len(all) - k) /\ k + (m + 1) = Len(ps) + 1
    BY <1>0, <1>1
  <2> QED
    BY <1>1, <1>3, <2>1
<1>8. SubSeq(rs, 1, m) = After(ps, k)
  <2>1. /\ SubSeq(rs, 1, m) \in Seq(KnownPresses) /\ Len(SubSeq(rs, 1, m)) = m
        /\ \A i \in 1..m : SubSeq(rs, 1, m)[i] = rs[i]
    BY <1>3, <1>4, PartsOfPresses
  <2>2. /\ After(ps, k) \in Seq(KnownPresses) /\ Len(After(ps, k)) = m
        /\ \A i \in 1..m : After(ps, k)[i] = ps[k + i]
    BY PartsOfPresses
  <2>3. \A i \in 1..m : i \in 1..(Len(all) - k) /\ k + i \in 1..Len(ps)
    BY <1>0, <1>1
  <2>4. \A i \in 1..m : SubSeq(rs, 1, m)[i] = After(ps, k)[i]
    BY <1>1, <1>3, <2>1, <2>2, <2>3
  <2> QED
    BY <1>0, <2>1, <2>2, <2>4, SameSeqs
<1> QED
  BY <1>5, <1>6, <1>7, <1>8 DEF rs, all

----------------------------------------------------------------------------
(* Decoding. *)

Key(s, i) ==
  IF s[i] = "E" THEN DecodeEscape(SubSeq(s, i, Len(s))).key
  ELSE IF s[i] \in Plain THEN s[i] ELSE "unknown"
Took(s, i) == IF s[i] = "E" THEN DecodeEscape(SubSeq(s, i, Len(s))).took ELSE 1

KeyOuts(s) == [i \in 1..Len(s) |-> <<Key(s, i)>>]
KeyNexts(s) == [i \in 1..Len(s) |-> i + Took(s, i)]

\* decodeEscape: an ESC alone, and a page key.
Alone(s) == Len(s) = 1 \/ s[2] \notin {"[", "O"}
PageKey(s) == s[3] \in {"5", "6"} /\ s[2] = "[" /\ Len(s) > 3 /\ s[4] = "~"

\* The arms of decodeEscape, in their order.
LEMMA EscapeCases ==
  ASSUME NEW s
  PROVE  /\ Alone(s) => DecodeEscape(s) = [key |-> "esc", took |-> 1]
         /\ ~Alone(s) /\ Len(s) = 2 => DecodeEscape(s) = [key |-> "unknown", took |-> 2]
         /\ ~Alone(s) /\ Len(s) # 2 /\ s[3] = "A" => DecodeEscape(s) = [key |-> "up", took |-> 3]
         /\ ~Alone(s) /\ Len(s) # 2 /\ s[3] = "B" => DecodeEscape(s) = [key |-> "down", took |-> 3]
         /\ ~Alone(s) /\ Len(s) # 2 /\ s[3] \notin {"A", "B"} /\ PageKey(s) =>
              DecodeEscape(s) = [key |-> IF s[3] = "5" THEN "pgup" ELSE "pgdn", took |-> 4]
         /\ ~Alone(s) /\ Len(s) # 2 /\ s[3] \notin {"A", "B"} /\ ~PageKey(s) =>
              DecodeEscape(s) = [key |-> "unknown", took |-> 3]
BY DEF DecodeEscape, Alone, PageKey

\* decodeEscape takes at least one byte and not more than there are.
LEMMA EscapeTakes ==
  ASSUME NEW s \in Seq(AllBytes), Len(s) >= 1
  PROVE  DecodeEscape(s).took \in 1..Len(s)
<1> DEFINE d == DecodeEscape(s)
<1>0. Len(s) \in Nat
  OBVIOUS
<1>1. \/ d.took = 1
      \/ d.took = 2 /\ Len(s) = 2
      \/ d.took = 3 /\ Len(s) # 1 /\ Len(s) # 2
      \/ d.took = 4 /\ Len(s) > 3
  <2>1. CASE Alone(s)
    <3>1. d = [key |-> "esc", took |-> 1]
      BY <2>1, EscapeCases
    <3> HIDE DEF d
    <3> QED
      BY <3>1
  <2>2. CASE ~Alone(s) /\ Len(s) = 2
    <3>1. d = [key |-> "unknown", took |-> 2]
      BY <2>2, EscapeCases
    <3> HIDE DEF d
    <3> QED
      BY <2>2, <3>1
  <2>3. CASE ~Alone(s) /\ Len(s) # 2 /\ ~(s[3] \notin {"A", "B"} /\ PageKey(s))
    <3>1. \/ d = [key |-> "up", took |-> 3] \/ d = [key |-> "down", took |-> 3]
          \/ d = [key |-> "unknown", took |-> 3]
      BY <2>3, EscapeCases
    <3>2. Len(s) # 1
      BY <2>3 DEF Alone
    <3> HIDE DEF d
    <3> QED
      BY <2>3, <3>1, <3>2
  <2>4. CASE ~Alone(s) /\ Len(s) # 2 /\ s[3] \notin {"A", "B"} /\ PageKey(s)
    <3>1. d = [key |-> IF s[3] = "5" THEN "pgup" ELSE "pgdn", took |-> 4]
      BY <2>4, EscapeCases
    <3>2. Len(s) > 3
      BY <2>4 DEF PageKey
    <3> HIDE DEF d
    <3> QED
      BY <3>1, <3>2
  <2> HIDE DEF d
  <2> QED
    BY <2>1, <2>2, <2>3, <2>4
<1>2. ASSUME NEW t, NEW n \in Nat, n >= 1,
             t = 1 \/ (t = 2 /\ n = 2) \/ (t = 3 /\ n # 1 /\ n # 2) \/ (t = 4 /\ n > 3)
      PROVE  t \in 1..n
  BY <1>2
<1> HIDE DEF d
<1>3. d.took \in 1..Len(s)
  BY <1>0, <1>1, <1>2
<1> QED
  BY <1>3 DEF d

\* DecodeComplete is the first value of a walk over the bytes.
LEMMA DecodeIsWalk ==
  ASSUME NEW s \in Seq(AllBytes)
  PROVE  /\ Onward(Len(s), KeyNexts(s))
         /\ \E f : WalkOf(Len(s), KeyOuts(s), KeyNexts(s), f) /\ DecodeComplete(s) = f[1]
<1> DEFINE n == Len(s)
           F(f) == f = [i \in 1..(n + 1) |->
                          IF i > n THEN <<>>
                          ELSE IF s[i] = "E"
                          THEN LET first == DecodeEscape(SubSeq(s, i, n)) IN
                               <<first.key>> \o f[i + first.took]
                          ELSE <<IF s[i] \in Plain THEN s[i] ELSE "unknown">> \o f[i + 1]]
           G == CHOOSE f : F(f)
<1>0. n \in Nat /\ \A i \in 1..n : s[i] \in AllBytes
  OBVIOUS
<1>1. Onward(n, KeyNexts(s))
  <2> SUFFICES ASSUME NEW i \in 1..n PROVE KeyNexts(s)[i] \in (i + 1)..(n + 1)
    BY DEF Onward
  <2>1. KeyNexts(s)[i] = i + Took(s, i)
    BY DEF KeyNexts
  <2>2. Took(s, i) \in 1..(n - i + 1)
    <3>1. CASE s[i] = "E"
      <4>1. /\ SubSeq(s, i, n) \in Seq(AllBytes)
            /\ Len(SubSeq(s, i, n)) = IF i <= n THEN n - i + 1 ELSE 0
        <5>1. \A j \in i..n : s[j] \in AllBytes
          BY <1>0
        <5>2. i \in Int /\ n \in Int
          BY <1>0
        <5> QED
          BY <5>1, <5>2, SubSeqProperties
      <4>2. Len(SubSeq(s, i, n)) = n - i + 1 /\ n - i + 1 >= 1
        BY <1>0, <4>1
      <4>3. DecodeEscape(SubSeq(s, i, n)).took \in 1..(n - i + 1)
        BY <4>1, <4>2, EscapeTakes
      <4> QED
        BY <3>1, <4>3 DEF Took
    <3>2. CASE s[i] # "E"
      <4>1. Took(s, i) = 1
        BY <3>2 DEF Took
      <4> QED
        BY <1>0, <4>1
    <3> QED
      BY <3>1, <3>2
  <2> QED
    BY <1>0, <2>1, <2>2
<1>3. PICK f : WalkOf(n, KeyOuts(s), KeyNexts(s), f)
  BY <1>0, <1>1, WalkExists
<1>4. ASSUME NEW g PROVE F(g) <=> WalkOf(n, KeyOuts(s), KeyNexts(s), g)
  <2>1. ASSUME NEW i \in 1..(n + 1), ~(i > n)
        PROVE  (IF s[i] = "E"
                THEN LET first == DecodeEscape(SubSeq(s, i, n)) IN
                     <<first.key>> \o g[i + first.took]
                ELSE <<IF s[i] \in Plain THEN s[i] ELSE "unknown">> \o g[i + 1])
               = Then(KeyOuts(s)[i], g[KeyNexts(s)[i]])
    <3>1. i \in 1..n
      BY <1>0, <2>1
    <3>2. KeyOuts(s)[i] = <<Key(s, i)>> /\ KeyNexts(s)[i] = i + Took(s, i)
      BY <3>1 DEF KeyOuts, KeyNexts
    <3>3. CASE s[i] = "E"
      <4>1. Key(s, i) = DecodeEscape(SubSeq(s, i, n)).key /\ Took(s, i) = DecodeEscape(SubSeq(s, i, n)).took
        BY <3>3 DEF Key, Took
      <4> QED
        BY <3>2, <3>3, <4>1 DEF Then
    <3>4. CASE s[i] # "E"
      <4>1. Key(s, i) = (IF s[i] \in Plain THEN s[i] ELSE "unknown") /\ Took(s, i) = 1
        BY <3>4 DEF Key, Took
      <4> QED
        BY <3>2, <3>4, <4>1 DEF Then
    <3> QED
      BY <3>3, <3>4
  <2> QED
    BY <2>1 DEF WalkOf
<1>5. DecodeComplete(s) = G[1]
  BY DEF DecodeComplete
<1>6. F(G)
  BY <1>3, <1>4
<1>7. WalkOf(n, KeyOuts(s), KeyNexts(s), G)
  BY <1>4, <1>6
<1> QED
  BY <1>1, <1>5, <1>7

\* The bytes behind a press are those of other presses, or none.
Begins(z) == z = <<>> \/ z[1] \notin {"[", "O"}

\* No press begins with the second byte of a sequence.
LEMMA BytesBegin ==
  ASSUME NEW p \in KnownPresses
  PROVE  /\ Bytes(p)[1] \notin {"[", "O"}
         /\ Bytes(p)[1] = "E" \/ p \in PlainPresses
<1>1. CASE p \in PlainPresses
  <2>1. Bytes(p) = <<p>>
    BY <1>1, BytesTable
  <2>2. Bytes(p)[1] = p
    BY <2>1
  <2> QED
    BY <1>1, <2>2 DEF PlainPresses
<1>2. CASE p \notin PlainPresses
  <2>1. p \in {"up", "down", "pgup", "pgdn", "home", "esc"}
    BY <1>2, KnownAre
  <2>2. Bytes("up")[1] = "E" /\ Bytes("down")[1] = "E"
    BY BytesTable
  <2>3. Bytes("pgup")[1] = "E" /\ Bytes("pgdn")[1] = "E"
    BY BytesTable
  <2>4. Bytes("home")[1] = "E" /\ Bytes("esc")[1] = "E"
    BY BytesTable
  <2>5. Bytes(p)[1] = "E"
    BY <2>1, <2>2, <2>3, <2>4
  <2> QED
    BY <2>5
<1> QED
  BY <1>1, <1>2

\* The elements of a concatenation.
LEMMA Concats ==
  ASSUME NEW S, NEW s \in Seq(S), NEW t \in Seq(S)
  PROVE  /\ s \o t \in Seq(S) /\ Len(s) \in Nat /\ Len(t) \in Nat
         /\ Len(s \o t) = Len(s) + Len(t)
         /\ \A i \in 1..Len(s) : (s \o t)[i] = s[i]
         /\ \A i \in 1..Len(t) : (s \o t)[Len(s) + i] = t[i]
<1>1. Len(s) \in Nat /\ Len(t) \in Nat
  OBVIOUS
<1>2. /\ s \o t \in Seq(S) /\ Len(s \o t) = Len(s) + Len(t)
      /\ \A i \in 1..(Len(s) + Len(t)) : (s \o t)[i] = IF i <= Len(s) THEN s[i] ELSE t[i - Len(s)]
  BY ConcatProperties
<1>3. ASSUME NEW i \in 1..Len(s) PROVE (s \o t)[i] = s[i]
  <2>1. i \in 1..(Len(s) + Len(t)) /\ i <= Len(s)
    BY <1>1
  <2> QED
    BY <1>2, <2>1
<1>4. ASSUME NEW i \in 1..Len(t) PROVE (s \o t)[Len(s) + i] = t[i]
  <2>1. Len(s) + i \in 1..(Len(s) + Len(t)) /\ ~(Len(s) + i <= Len(s)) /\ Len(s) + i - Len(s) = i
    BY <1>1
  <2> QED
    BY <1>2, <2>1
<1> QED
  BY <1>1, <1>2, <1>3, <1>4

Joined(S, s, t, u) ==
  /\ u \in Seq(S) /\ Len(s) \in Nat /\ Len(t) \in Nat /\ Len(u) = Len(s) + Len(t)
  /\ \A i \in 1..Len(s) : u[i] = s[i]
  /\ \A i \in 1..Len(t) : u[Len(s) + i] = t[i]

\* ... under a name.
LEMMA Joins ==
  ASSUME NEW S, NEW s \in Seq(S), NEW t \in Seq(S)
  PROVE  Joined(S, s, t, s \o t)
BY Concats DEF Joined

\* A press has a first byte and a last one.
LEMMA HasFirst ==
  ASSUME NEW S, NEW s, s \in Seq(S), Len(s) \in 1..4
  PROVE  s \in Seq(S) /\ 1 \in 1..Len(s) /\ Len(s) \in 1..Len(s)
<1>1. \A n \in 1..4 : 1 \in 1..n /\ n \in 1..n
  OBVIOUS
<1> QED
  BY <1>1

\* The second of two sequences is what is left of both behind the first.
LEMMA JoinedTail ==
  ASSUME NEW S, NEW s, NEW t, NEW u, t \in Seq(S), Joined(S, s, t, u), t # <<>>
  PROVE  /\ Len(s) + 1 \in 1..Len(u) /\ Len(s) + 1 \in 1..(Len(u) + 1) /\ ~(Len(s) + 1 > Len(u))
         /\ SubSeq(u, Len(s) + 1, Len(u)) = t
         /\ u[Len(s) + 1] = t[1] /\ 1 \in 1..Len(t)
<1>1. Len(s) \in Nat /\ Len(t) \in Nat /\ Len(t) # 0 /\ Len(u) = Len(s) + Len(t)
  BY DEF Joined
<1>2. \A j \in (Len(s) + 1)..Len(u) : u[j] \in S
  <2>1. u \in Seq(S)
    BY DEF Joined
  <2> QED
    BY <1>1, <2>1
<1>3. \A i \in 1..Len(t) : u[Len(s) + i] = t[i]
  BY DEF Joined
<1> DEFINE i == Len(s) + 1
           v == SubSeq(u, i, Len(u))
<1>4. v \in Seq(S) /\ Len(v) = Len(t) /\ \A j \in 1..Len(t) : v[j] = u[Len(s) + j]
  <2>1. i \in Int /\ Len(u) \in Int
    BY <1>1
  <2>2. /\ v \in Seq(S)
        /\ Len(v) = IF i <= Len(u) THEN Len(u) - i + 1 ELSE 0
        /\ \A j \in 1..(Len(u) - i + 1) : v[j] = u[i + j - 1]
    BY <1>2, <2>1, SubSeqProperties
  <2> HIDE DEF v
  <2>3. i <= Len(u) /\ Len(u) - i + 1 = Len(t) /\ \A j \in 1..Len(t) : i + j - 1 = Len(s) + j
    BY <1>1
  <2> HIDE DEF i
  <2> QED
    BY <2>2, <2>3
<1> HIDE DEF v
<1>5. v = t
  BY <1>1, <1>3, <1>4, SameSeqs
<1>6. i \in 1..Len(u) /\ i \in 1..(Len(u) + 1) /\ ~(i > Len(u)) /\ 1 \in 1..Len(t)
  BY <1>1
<1> QED
  BY <1>3, <1>5, <1>6 DEF v

\* A press is decoded as what it is meant to be, whatever follows.
LEMMA PressDecodes ==
  ASSUME NEW p \in KnownPresses, NEW z \in Seq(AllBytes), Begins(z),
         NEW c, c = Bytes(p) \o z
  PROVE  /\ c \in Seq(AllBytes) /\ Len(c) = Len(Bytes(p)) + Len(z)
         /\ c[1] = "E" => /\ DecodeEscape(c).key = Meant(p)
                          /\ DecodeEscape(c).took = Len(Bytes(p))
         /\ c[1] # "E" => /\ (IF c[1] \in Plain THEN c[1] ELSE "unknown") = Meant(p)
                          /\ Len(Bytes(p)) = 1
<1> DEFINE b == Bytes(p)
           d == DecodeEscape(c)
<1>1. b \in Seq(AllBytes) /\ Len(b) \in 1..4
  BY BytesAre
<1>2. /\ c \in Seq(AllBytes) /\ Len(c) = Len(b) + Len(z) /\ Len(z) \in Nat
      /\ \A i \in 1..Len(b) : c[i] = b[i]
      /\ \A i \in 1..Len(z) : c[Len(b) + i] = z[i]
  <2> HIDE DEF b
  <2> QED
    BY <1>1, Concats DEF b
<1>3. CASE p \in {"up", "down", "home"}
  <2>1. b \in {<<"E", "[", "A">>, <<"E", "O", "B">>, <<"E", "[", "H">>}
    BY <1>3, BytesTable
  <2>2. Len(b) = 3 /\ b[1] = "E" /\ b[2] \in {"[", "O"}
    BY <2>1
  <2>3. b[3] = IF p = "up" THEN "A" ELSE IF p = "down" THEN "B" ELSE "H"
    <3>1. CASE p = "up"
      BY <3>1, BytesTable
    <3>2. CASE p = "down"
      BY <3>2, BytesTable
    <3>3. CASE p = "home"
      BY <3>3, BytesTable
    <3> QED
      BY <1>3, <3>1, <3>2, <3>3
  <2> HIDE DEF b
  <2>4. Len(c) >= 3 /\ c[1] = "E" /\ c[2] \in {"[", "O"} /\ c[3] = b[3]
    BY <1>2, <2>2
  <2>5. ~Alone(c) /\ Len(c) # 2
    <3>1. Len(c) # 1 /\ Len(c) # 2
      BY <1>1, <1>2, <2>2
    <3> QED
      BY <2>4, <3>1 DEF Alone
  <2>6. d = [key |-> IF p = "up" THEN "up" ELSE IF p = "down" THEN "down" ELSE "unknown", took |-> 3]
    <3>1. CASE p = "up"
      BY <2>3, <2>4, <2>5, <3>1, EscapeCases
    <3>2. CASE p = "down"
      BY <2>3, <2>4, <2>5, <3>2, EscapeCases
    <3>3. CASE p = "home"
      <4>1. c[3] = "H"
        BY <2>3, <2>4, <3>3
      <4>2. c[3] \notin {"A", "B"} /\ ~PageKey(c)
        BY <4>1 DEF PageKey
      <4> QED
        BY <2>5, <3>3, <4>2, EscapeCases
    <3> QED
      BY <1>3, <3>1, <3>2, <3>3
  <2> HIDE DEF d
  <2>7. d.took = 3 /\ d.key = Meant(p)
    BY <1>3, <2>6 DEF Meant
  <2> QED
    BY <1>2, <2>2, <2>4, <2>7 DEF b, d
<1>4. CASE p \in {"pgup", "pgdn"}
  <2>1. b \in {<<"E", "[", "5", "~">>, <<"E", "[", "6", "~">>}
    BY <1>4, BytesTable
  <2>2. Len(b) = 4 /\ b[1] = "E" /\ b[2] = "[" /\ b[4] = "~"
    BY <2>1
  <2>3. b[3] = IF p = "pgup" THEN "5" ELSE "6"
    <3>1. CASE p = "pgup"
      BY <3>1, BytesTable
    <3>2. CASE p = "pgdn"
      BY <3>2, BytesTable
    <3> QED
      BY <1>4, <3>1, <3>2
  <2> HIDE DEF b
  <2>4. c[1] = "E" /\ c[2] = "[" /\ c[3] = b[3] /\ c[4] = "~"
    BY <1>2, <2>2
  <2>5. Len(c) # 1 /\ Len(c) # 2 /\ Len(c) > 3
    BY <1>2, <2>2
  <2>6. ~Alone(c) /\ PageKey(c) /\ c[3] \notin {"A", "B"}
    BY <2>3, <2>4, <2>5 DEF Alone, PageKey
  <2>7. d = [key |-> IF c[3] = "5" THEN "pgup" ELSE "pgdn", took |-> 4]
    BY <2>5, <2>6, EscapeCases
  <2> HIDE DEF d
  <2>8. d.took = 4 /\ d.key = Meant(p)
    BY <1>4, <2>3, <2>4, <2>7 DEF Meant
  <2> QED
    BY <1>2, <2>2, <2>4, <2>8 DEF b, d
<1>5. CASE p = "esc"
  <2>1. b = <<"E">>
    BY <1>5, BytesTable
  <2>2. Len(b) = 1 /\ b[1] = "E"
    BY <2>1
  <2> HIDE DEF b
  <2>3. c[1] = "E"
    BY <1>2, <2>2
  <2>4. Alone(c)
    <3>1. CASE z = <<>>
      <4>1. Len(c) = 1
        BY <1>2, <2>2, <3>1
      <4> QED
        BY <4>1 DEF Alone
    <3>2. CASE z # <<>>
      <4>1. 1 \in 1..Len(z)
        BY <3>2
      <4>2. c[2] = z[1]
        BY <1>2, <2>2, <4>1
      <4> QED
        BY <3>2, <4>2 DEF Alone, Begins
    <3> QED
      BY <3>1, <3>2
  <2>5. d = [key |-> "esc", took |-> 1]
    BY <2>4, EscapeCases
  <2> HIDE DEF d
  <2>6. d.took = 1 /\ d.key = Meant(p)
    BY <1>5, <2>5 DEF Meant
  <2> QED
    BY <1>2, <2>2, <2>3, <2>6 DEF b, d
<1>6. CASE p \in PlainPresses
  <2>1. b = <<p>>
    BY <1>6, BytesTable
  <2>2. Len(b) = 1 /\ b[1] = p
    BY <2>1
  <2> HIDE DEF b
  <2>3. c[1] = p
    BY <1>2, <2>2
  <2>4. p # "E" /\ (IF p \in Plain THEN p ELSE "unknown") = Meant(p)
    BY <1>6 DEF PlainPresses, Plain, Meant
  <2> QED
    BY <1>2, <2>2, <2>3, <2>4 DEF b
<1> QED
  BY <1>3, <1>4, <1>5, <1>6, KnownAre

\* What presses are meant to be.
MeantKeys == {Meant(p) : p \in KnownPresses}
MeantOf(ps) == [i \in 1..Len(ps) |-> Meant(ps[i])]

\* One key for every press.
LEMMA MeantIsSeq ==
  ASSUME NEW ps \in Seq(KnownPresses)
  PROVE  MeantOf(ps) \in Seq(MeantKeys) /\ Len(MeantOf(ps)) = Len(ps)
<1>1. \A i \in 1..Len(ps) : ps[i] \in KnownPresses
  OBVIOUS
<1>2. MeantOf(ps) \in [1..Len(ps) -> MeantKeys]
  BY <1>1 DEF MeantOf, MeantKeys
<1>3. Len(ps) \in Nat
  OBVIOUS
<1> QED
  BY <1>2, <1>3

\* The key of the next press and those of the others.
LEMMA MeantFirst ==
  ASSUME NEW ps \in Seq(KnownPresses), NEW k \in 0..(Len(ps) - 1)
  PROVE  MeantOf(After(ps, k)) = <<Meant(ps[k + 1])>> \o MeantOf(After(ps, k + 1))
<1> DEFINE qs == After(ps, k)
           rs == After(ps, k + 1)
           m == Len(ps) - (k + 1)
           one == <<Meant(ps[k + 1])>>
<1>0. Len(ps) \in Nat /\ k \in 0..Len(ps) /\ k + 1 \in 0..Len(ps) /\ k + 1 \in 1..Len(ps) /\ m \in Nat
  OBVIOUS
<1>1. qs \in Seq(KnownPresses) /\ Len(qs) = m + 1 /\ \A i \in 1..(m + 1) : qs[i] = ps[k + i]
  <2>1. m + 1 = Len(ps) - k
    BY <1>0
  <2> QED
    BY <1>0, <2>1, PartsOfPresses
<1>2. rs \in Seq(KnownPresses) /\ Len(rs) = m /\ \A i \in 1..m : rs[i] = ps[k + 1 + i]
  BY <1>0, PartsOfPresses
<1> HIDE DEF qs, rs
<1>3. one \in Seq(MeantKeys) /\ Len(one) = 1 /\ one[1] = Meant(ps[k + 1])
  <2>1. Meant(ps[k + 1]) \in MeantKeys
    BY <1>0 DEF MeantKeys
  <2> QED
    BY <2>1, Tuples
<1> HIDE DEF one
<1>4. /\ MeantOf(qs) \in Seq(MeantKeys) /\ Len(MeantOf(qs)) = m + 1
      /\ MeantOf(rs) \in Seq(MeantKeys) /\ Len(MeantOf(rs)) = m
  BY <1>1, <1>2, MeantIsSeq
<1>5. /\ one \o MeantOf(rs) \in Seq(MeantKeys) /\ Len(one \o MeantOf(rs)) = 1 + m
      /\ (one \o MeantOf(rs))[1] = one[1]
      /\ \A i \in 1..m : (one \o MeantOf(rs))[1 + i] = MeantOf(rs)[i]
  <2> DEFINE two == MeantOf(rs)
  <2>1. 1 \in 1..1 /\ two \in Seq(MeantKeys) /\ Len(two) = m
    BY <1>4
  <2> HIDE DEF two, m
  <2> DEFINE both == one \o two
  <2>2. Joined(MeantKeys, one, two, both)
    BY <1>3, <2>1, Joins
  <2> HIDE DEF both
  <2>3. /\ both \in Seq(MeantKeys) /\ Len(both) = 1 + m
        /\ both[1] = one[1] /\ \A i \in 1..m : both[1 + i] = two[i]
    BY <1>3, <2>1, <2>2 DEF Joined
  <2> QED
    BY <2>3 DEF two, both
<1>6. ASSUME NEW i \in 1..(m + 1) PROVE MeantOf(qs)[i] = (one \o MeantOf(rs))[i]
  <2>1. MeantOf(qs)[i] = Meant(ps[k + i])
    BY <1>1 DEF MeantOf
  <2>2. CASE i = 1
    BY <1>3, <1>5, <2>1, <2>2
  <2>3. CASE i # 1
    <3>1. i - 1 \in 1..m /\ 1 + (i - 1) = i /\ k + 1 + (i - 1) = k + i
      BY <1>0, <2>3
    <3>2. (one \o MeantOf(rs))[i] = MeantOf(rs)[i - 1]
      BY <1>5, <3>1
    <3>3. MeantOf(rs)[i - 1] = Meant(ps[k + i])
      BY <1>2, <3>1 DEF MeantOf
    <3> QED
      BY <2>1, <3>2, <3>3
  <2> QED
    BY <2>2, <2>3
<1>7. m + 1 \in Nat /\ 1 + m = m + 1
  BY <1>0
<1> QED
  BY <1>4, <1>5, <1>6, <1>7, SameSeqs DEF qs, rs, one

\* The bytes of presses are decoded as what they are meant to be.
LEMMA DecodeSent ==
  ASSUME NEW ps \in Seq(KnownPresses)
  PROVE  DecodeComplete(Sent(ps)) = MeantOf(ps)
<1> DEFINE m == Len(ps)
           s == Sent(ps)
           Place(k) == Len(Sent(SubSeq(ps, 1, k))) + 1
<1>0. m \in Nat /\ s \in Seq(AllBytes) /\ Len(s) \in Nat
  <2>1. s \in Seq(AllBytes)
    BY SentIsSeq
  <2> QED
    BY <2>1
<1>1. PICK f : WalkOf(Len(s), KeyOuts(s), KeyNexts(s), f) /\ DecodeComplete(s) = f[1]
  BY <1>0, DecodeIsWalk
<1> DEFINE T == {k \in 0..m : f[Place(k)] = MeantOf(After(ps, k))}
<1>2. ASSUME NEW k \in 0..m, k < m, k + 1 \in T PROVE k \in T
  <2> DEFINE a == Sent(SubSeq(ps, 1, k))
             p == ps[k + 1]
             z == Sent(After(ps, k + 1))
             c == Bytes(p) \o z
  <2>0. k \in Nat /\ k + 1 \in 0..m /\ k \in 0..(m - 1) /\ p \in KnownPresses
    BY <1>0, <1>2
  <2>1. a \in Seq(AllBytes) /\ z \in Seq(AllBytes) /\ s = a \o c
    <3>1. Sent(After(ps, k)) = c
      BY <2>0, SentFirst
    <3>2. a \in Seq(AllBytes) /\ s = a \o Sent(After(ps, k)) /\ z \in Seq(AllBytes)
      BY <2>0, SentFirst
    <3> QED
      BY <3>1, <3>2
  <2>2. Begins(z)
    <3>1. CASE k + 1 = m
      BY <3>1, SentFirst DEF Begins
    <3>2. CASE k + 1 # m
      <4>1. k + 1 \in 0..(m - 1) /\ k + 2 \in 0..m /\ k + 2 \in 1..m /\ k + 1 + 1 = k + 2
        BY <1>0, <2>0, <3>2
      <4>2. z = Bytes(ps[k + 2]) \o Sent(After(ps, k + 2))
        BY <4>1, SentFirst
      <4>3. ps[k + 2] \in KnownPresses /\ Sent(After(ps, k + 2)) \in Seq(AllBytes)
        BY <4>1, SentFirst
      <4> DEFINE b == Bytes(ps[k + 2])
      <4>4. b \in Seq(AllBytes) /\ 1 \in 1..Len(b)
        <5>1. b \in Seq(AllBytes) /\ Len(b) \in 1..4
          BY <4>3, BytesAre
        <5> HIDE DEF b
        <5> QED
          BY <5>1, HasFirst
      <4>5. b[1] \notin {"[", "O"}
        BY <4>3, BytesBegin
      <4> HIDE DEF b, z
      <4>6. z[1] = b[1]
        BY <4>2, <4>3, <4>4, Concats DEF b
      <4> QED
        BY <4>5, <4>6 DEF Begins
    <3> QED
      BY <3>1, <3>2
  <2> HIDE DEF a, z, s, p
  <2>3. /\ c \in Seq(AllBytes) /\ Len(c) = Len(Bytes(p)) + Len(z)
        /\ c[1] = "E" => DecodeEscape(c).key = Meant(p) /\ DecodeEscape(c).took = Len(Bytes(p))
        /\ c[1] # "E" => (IF c[1] \in Plain THEN c[1] ELSE "unknown") = Meant(p) /\ Len(Bytes(p)) = 1
    BY <2>0, <2>1, <2>2, PressDecodes
  <2>4. Len(Bytes(p)) \in 1..4 /\ Len(z) \in Nat /\ Len(a) \in Nat
    BY <2>0, <2>1, BytesAre
  <2> HIDE DEF c
  <2>5. Joined(AllBytes, a, c, s)
    BY <2>1, <2>3, Joins
  <2>6. c # <<>>
    <3>1. ASSUME NEW n \in 1..4, NEW k2 \in Nat PROVE n + k2 # 0
      BY <3>1
    <3>2. Len(c) # 0
      BY <2>3, <2>4, <3>1
    <3> QED
      BY <3>2
  <2> DEFINE i == Len(a) + 1
  <2>7. /\ i \in 1..Len(s) /\ i \in 1..(Len(s) + 1) /\ ~(i > Len(s))
        /\ SubSeq(s, i, Len(s)) = c /\ s[i] = c[1]
    BY <2>3, <2>5, <2>6, JoinedTail
  <2>9. Key(s, i) = Meant(p) /\ Took(s, i) = Len(Bytes(p))
    BY <2>3, <2>7 DEF Key, Took
  <2> HIDE DEF i
  <2>10. f[i] = Then(<<Meant(p)>>, f[i + Len(Bytes(p))])
    <3>1. f[i] = Then(KeyOuts(s)[i], f[KeyNexts(s)[i]])
      BY <1>0, <1>1, <2>7, WalkSteps
    <3>2. KeyOuts(s)[i] = <<Key(s, i)>> /\ KeyNexts(s)[i] = i + Took(s, i)
      BY <2>7 DEF KeyOuts, KeyNexts
    <3> QED
      BY <2>9, <3>1, <3>2
  <2>11. Place(k) = i /\ Place(k + 1) = i + Len(Bytes(p))
    <3>1. Sent(SubSeq(ps, 1, k + 1)) = a \o Bytes(p)
      BY <2>0, SentGrows DEF a, p
    <3>2. Len(a \o Bytes(p)) = Len(a) + Len(Bytes(p))
      BY <2>0, <2>1, BytesAre, Concats
    <3> QED
      BY <2>4, <3>1, <3>2 DEF a, i
  <2>12. f[Place(k + 1)] = MeantOf(After(ps, k + 1))
    BY <1>2
  <2>13. MeantOf(After(ps, k)) = <<Meant(p)>> \o MeantOf(After(ps, k + 1))
    BY <2>0, MeantFirst DEF p
  <2> HIDE DEF Place
  <2>14. f[Place(k)] = MeantOf(After(ps, k))
    BY <2>10, <2>11, <2>12, <2>13 DEF Then
  <2> QED
    BY <2>14
<1>3. m \in T
  <2>1. SubSeq(ps, 1, m) = ps
    BY SentIsSeq
  <2>2. f[Len(s) + 1] = <<>>
    <3>1. Len(s) + 1 \in 1..(Len(s) + 1) /\ Len(s) + 1 > Len(s)
      BY <1>0
    <3> QED
      BY <1>0, <1>1, <3>1, WalkSteps
  <2>3. m \in 0..m /\ m - m = 0
    BY <1>0
  <2>4. After(ps, m) \in Seq(KnownPresses) /\ Len(After(ps, m)) = 0
    BY <2>3, PartsOfPresses
  <2>5. MeantOf(After(ps, m)) \in Seq(MeantKeys) /\ Len(MeantOf(After(ps, m))) = 0
    BY <2>4, MeantIsSeq
  <2>6. MeantOf(After(ps, m)) = <<>>
    BY <2>5
  <2> QED
    BY <2>1, <2>2, <2>3, <2>6
<1>4. 0 \in T
  <2> HIDE DEF T
  <2>1. Descends(0, m, T)
    <3> SUFFICES ASSUME NEW k \in 0..m, \A j \in (k + 1)..m : j \in T PROVE k \in T
      BY DEF Descends
    <3>1. CASE k = m
      BY <1>3, <3>1
    <3>2. CASE k # m
      <4>1. k < m /\ k + 1 \in (k + 1)..m
        BY <1>0, <3>2
      <4> QED
        BY <1>2, <4>1
    <3> QED
      BY <3>1, <3>2
  <2>2. 0 \in 0..m
    BY <1>0
  <2> QED
    BY <1>0, <2>1, <2>2, Downwards
<1>5. After(ps, 0) = ps
  BY SubSeqFull DEF After
<1>6. Place(0) = 1
  <2>1. SubSeq(ps, 1, 0) = <<>>
    BY SubSeqEmpty
  <2>2. <<>> \in Seq(KnownPresses) /\ Len(<<>>) = 0 /\ SubSeq(<<>>, 1 , 0) = <<>> /\ SubSeq(<<>>, 0 + 1, 0) = <<>>
    BY SubSeqEmpty
  <2>3. Sent(After(<<>>, 0)) = <<>>
    BY <2>2, SentFirst
  <2>4. Sent(<<>>) = <<>>
    BY <2>2, <2>3 DEF After
  <2>5. Sent(SubSeq(ps, 1, 0)) = <<>>
    BY <2>1, <2>4
  <2>6. Len(Sent(SubSeq(ps, 1, 0))) = 0
    BY <2>2, <2>5
  <2> QED
    BY <2>6
<1> QED
  BY <1>1, <1>4, <1>5, <1>6

----------------------------------------------------------------------------
(* A part of the bytes of some presses. *)

\* What two sequences have in common at the front can be dropped.
LEMMA ThenCancels ==
  ASSUME NEW S, NEW s \in Seq(S), NEW t \in Seq(S), NEW v \in Seq(S), Then(s, t) = Then(s, v)
  PROVE  t = v
<1> DEFINE u == s \o t
<1>1. Joined(S, s, t, u)
  BY Joins
<1>2. Joined(S, s, v, u)
  <2>1. u = s \o v
    BY DEF Then
  <2>2. Joined(S, s, v, s \o v)
    BY Joins
  <2> QED
    BY <2>1, <2>2
<1> HIDE DEF u
<1>3. Len(s) \in Nat /\ Len(t) \in Nat /\ Len(v) = Len(t)
  BY <1>1, <1>2 DEF Joined
<1>4. \A i \in 1..Len(t) : t[i] = v[i]
  BY <1>1, <1>2, <1>3 DEF Joined
<1> QED
  BY <1>3, <1>4, SameSeqs

\* A concatenation is a sequence as long as both.
LEMMA ThenIs ==
  ASSUME NEW S, NEW s \in Seq(S), NEW t \in Seq(S)
  PROVE  Then(s, t) \in Seq(S) /\ Len(Then(s, t)) = Len(s) + Len(t)
BY ConcatProperties DEF Then

\* The shorter of two beginnings of a sequence is a beginning of the longer.
LEMMA Overlap ==
  ASSUME NEW S, NEW a \in Seq(S), NEW b \in Seq(S), NEW c \in Seq(S), NEW d \in Seq(S),
         Then(a, b) = Then(c, d), Len(a) <= Len(c)
  PROVE  \E t \in Seq(S) : c = Then(a, t) /\ b = Then(t, d) /\ Len(c) = Len(a) + Len(t)
<1> DEFINE u == Then(a, b)
           head == SubSeq(c, 1, Len(a))
           t == SubSeq(c, Len(a) + 1, Len(c))
<1>0. Joined(S, a, b, u) /\ Joined(S, c, d, u)
  <2>1. Joined(S, a, b, Then(a, b)) /\ Joined(S, c, d, Then(c, d))
    BY Joins DEF Then
  <2> QED
    BY <2>1
<1> HIDE DEF u
<1>1. Len(a) \in Nat /\ Len(c) \in Nat
  OBVIOUS
<1>2. \A i \in 1..Len(c) : c[i] \in S
  OBVIOUS
<1>3. \A i \in 1..Len(a) : i \in 1..Len(c) /\ c[i] = a[i]
  <2>1. \A i \in 1..Len(a) : i \in 1..Len(c)
    BY <1>1
  <2>2. (\A i \in 1..Len(a) : u[i] = a[i]) /\ (\A i \in 1..Len(c) : u[i] = c[i])
    BY <1>0 DEF Joined
  <2> QED
    BY <2>1, <2>2
<1>4. head = a
  <2>1. Len(a) \in Int /\ 1 \in Int /\ \A i \in 1..Len(a) : c[i] \in S
    BY <1>1, <1>2, <1>3
  <2>2. /\ head \in Seq(S)
        /\ Len(head) = IF 1 <= Len(a) THEN Len(a) - 1 + 1 ELSE 0
        /\ \A i \in 1..(Len(a) - 1 + 1) : head[i] = c[1 + i - 1]
    BY <2>1, SubSeqProperties
  <2> HIDE DEF head
  <2>3. Len(head) = Len(a) /\ \A i \in 1..Len(a) : head[i] = a[i]
    BY <1>1, <1>3, <2>2
  <2> QED
    BY <1>1, <2>2, <2>3, SameSeqs
<1>5. t \in Seq(S)
  <2>1. \A i \in (Len(a) + 1)..Len(c) : c[i] \in S
    BY <1>1, <1>2
  <2>2. Len(a) + 1 \in Int /\ Len(c) \in Int
    BY <1>1
  <2> QED
    BY <2>1, <2>2, SubSeqProperties
<1>6. head \o t = c
  <2>1. 1 \in 1..(Len(c) + 1) /\ Len(a) \in (1 - 1)..Len(c) /\ Len(c) \in Len(a)..Len(c)
    BY <1>1
  <2>2. head \o t = SubSeq(c, 1, Len(c))
    BY <2>1, ConcatAdjacentSubSeq
  <2>3. SubSeq(c, 1, Len(c)) = c
    BY SubSeqFull
  <2> QED
    BY <2>2, <2>3
<1> HIDE DEF t, head
<1>7. c = Then(a, t)
  BY <1>4, <1>6 DEF Then
<1>8. Then(Then(a, t), d) = Then(a, Then(t, d))
  BY <1>5, ThenAssociates
<1>9. Then(a, b) = Then(a, Then(t, d))
  BY <1>7, <1>8
<1>10. Then(t, d) \in Seq(S) /\ Len(Then(a, t)) = Len(a) + Len(t)
  BY <1>5, ThenIs
<1>11. b = Then(t, d)
  BY <1>9, <1>10, ThenCancels
<1> QED
  BY <1>5, <1>7, <1>10, <1>11

\* The place of the last ESC.
LastEsc(s) == SelectLastInSeq(s, LAMBDA b : b = "E")

\* An ESC with none behind it is the last.
LEMMA LastEscIs ==
  ASSUME NEW s \in Seq(AllBytes), NEW k \in 1..Len(s), s[k] = "E",
         \A i \in (k + 1)..Len(s) : s[i] # "E"
  PROVE  LastEsc(s) = k
<1> DEFINE I == {i \in 1..Len(s) : s[i] = "E"}
<1>1. k \in I
  OBVIOUS
<1>2. \A i \in I : i \in Nat /\ k >= i
  <2> SUFFICES ASSUME NEW i \in 1..Len(s), s[i] = "E", ~(k >= i) PROVE FALSE
    OBVIOUS
  <2>1. i \in (k + 1)..Len(s)
    OBVIOUS
  <2> QED
    BY <2>1
<1>3. LastEsc(s) = CHOOSE x \in I : \A y \in I : x >= y
  BY <1>1 DEF LastEsc, SelectLastInSeq, Max
<1>4. k \in Nat
  OBVIOUS
<1> HIDE DEF I
<1>5. \E x \in I : \A y \in I : x >= y
  BY <1>1, <1>2
<1>6. LastEsc(s) \in I /\ \A y \in I : LastEsc(s) >= y
  BY <1>3, <1>5
<1>7. LastEsc(s) >= k /\ k >= LastEsc(s) /\ LastEsc(s) \in Nat
  BY <1>1, <1>2, <1>6
<1> QED
  BY <1>4, <1>7

\* The last ESC is at a place of the sequence, or there is none.
LEMMA LastEscIn ==
  ASSUME NEW s \in Seq(AllBytes)
  PROVE  LastEsc(s) \in 0..Len(s)
<1> DEFINE I == {i \in 1..Len(s) : s[i] = "E"}
<1>0. Len(s) \in Nat
  OBVIOUS
<1>1. CASE I = {}
  <2>1. LastEsc(s) = 0
    BY <1>1 DEF LastEsc, SelectLastInSeq
  <2> QED
    BY <1>0, <2>1
<1>2. CASE I # {}
  <2>1. LastEsc(s) = CHOOSE x \in I : \A y \in I : x >= y
    BY <1>2 DEF LastEsc, SelectLastInSeq, Max
  <2> DEFINE S == {Len(s) - i : i \in I}
  <2>2. S \in SUBSET Nat /\ S # {}
    BY <1>0, <1>2
  <2>3. PICK n \in S : \A m \in S : n <= m
    BY <2>2, LeastExists
  <2>4. PICK i \in I : n = Len(s) - i
    BY <2>3
  <2>5. ASSUME NEW j \in I PROVE i >= j
    <3>1. Len(s) - j \in S
      OBVIOUS
    <3>2. Len(s) - i <= Len(s) - j
      BY <2>3, <2>4, <3>1
    <3>3. i \in Nat /\ j \in Nat
      OBVIOUS
    <3> QED
      BY <1>0, <3>2, <3>3
  <2>6. \A j \in I : j \in 0..Len(s)
    BY <1>0
  <2> HIDE DEF I, S
  <2>7. LastEsc(s) \in I
    BY <2>1, <2>5
  <2> QED
    BY <2>6, <2>7
<1> QED
  BY <1>1, <1>2

\* From the m-th to the n-th.
Part(s, m, n) == SubSeq(s, m, n)

\* The first of two sequences is the front of both.
LEMMA JoinedHead ==
  ASSUME NEW S, NEW s \in Seq(S), NEW t, NEW u, Joined(S, s, t, u)
  PROVE  Part(u, 1, Len(s)) = s
<1> DEFINE n == Len(s)
<1>1. n \in Nat /\ 1 \in Int /\ n \in Int
  OBVIOUS
<1>2. \A i \in 1..n : u[i] = s[i] /\ s[i] \in S
  BY DEF Joined
<1> HIDE DEF n
<1>3. \A i \in 1..n : u[i] \in S
  BY <1>2
<1>4. /\ SubSeq(u, 1, n) \in Seq(S)
      /\ Len(SubSeq(u, 1, n)) = IF 1 <= n THEN n - 1 + 1 ELSE 0
      /\ \A i \in 1..(n - 1 + 1) : SubSeq(u, 1, n)[i] = u[1 + i - 1]
  BY <1>1, <1>3, SubSeqProperties
<1> DEFINE v == SubSeq(u, 1, n)
<1> HIDE DEF v
<1>5. v \in Seq(S) /\ Len(v) = n /\ \A i \in 1..n : v[i] = u[i]
  <2>1. n - 1 + 1 = n /\ (IF 1 <= n THEN n - 1 + 1 ELSE 0) = n /\ \A i \in 1..n : 1 + i - 1 = i
    BY <1>1
  <2> QED
    BY <1>4, <2>1 DEF v
<1>6. v = s
  <2>1. Len(s) = n
    BY DEF n
  <2> QED
    BY <1>1, <1>2, <1>5, <2>1, SameSeqs
<1> QED
  BY <1>6 DEF v, Part, n

\* decode, in terms of the last ESC.
LEMMA DecodeHeld ==
  ASSUME NEW held, NEW bytes, NEW all, all = Then(held, bytes),
         NEW last, last = LastEsc(all), NEW tail, tail = Part(all, last, Len(all)),
         last > 0, IncompleteEscape(tail)
  PROVE  Decode(held, bytes) = [keys |-> DecodeComplete(Part(all, 1, last - 1)), held |-> tail]
BY DEF Decode, LastEsc, Then, Part

\* ... and with nothing unfinished at the end.
LEMMA DecodeFree ==
  ASSUME NEW held, NEW bytes, NEW all, all = Then(held, bytes),
         NEW last, last = LastEsc(all), NEW tail, tail = Part(all, last, Len(all)),
         ~(last > 0 /\ IncompleteEscape(tail))
  PROVE  Decode(held, bytes) = [keys |-> DecodeComplete(all), held |-> <<>>]
BY DEF Decode, LastEsc, Then, Part

\* An unfinished sequence at the end is held.
LEMMA DecodeHolds ==
  ASSUME NEW held, NEW bytes, NEW a \in Seq(AllBytes), NEW t \in Seq(AllBytes),
         Then(held, bytes) = Then(a, t),
         IncompleteEscape(t), t[1] = "E", \A i \in 2..Len(t) : t[i] # "E"
  PROVE  Decode(held, bytes) = [keys |-> DecodeComplete(a), held |-> t]
<1> DEFINE all == Then(a, t)
           last == Len(a) + 1
<1>0. t # <<>>
  BY DEF IncompleteEscape
<1>1. Joined(AllBytes, a, t, all)
  BY Joins DEF Then
<1>2. all = Then(held, bytes)
  OBVIOUS
<1> HIDE DEF all
<1>3. /\ last \in 1..Len(all) /\ SubSeq(all, last, Len(all)) = t
      /\ all[last] = t[1]
  BY <1>0, <1>1, JoinedTail
<1>4. all \in Seq(AllBytes) /\ Len(a) \in Nat /\ Len(t) \in Nat /\ Len(all) = Len(a) + Len(t)
  BY <1>1 DEF Joined
<1>5. \A i \in (last + 1)..Len(all) : all[i] # "E"
  <2> SUFFICES ASSUME NEW i \in (last + 1)..Len(all) PROVE all[i] # "E"
    OBVIOUS
  <2>1. i - Len(a) \in 2..Len(t) /\ i - Len(a) \in 1..Len(t) /\ Len(a) + (i - Len(a)) = i
    BY <1>4
  <2>2. all[Len(a) + (i - Len(a))] = t[i - Len(a)]
    BY <1>1, <2>1 DEF Joined
  <2> QED
    BY <2>1, <2>2
<1>6. LastEsc(all) = last
  BY <1>3, <1>4, <1>5, LastEscIs
<1>7. Part(all, 1, last - 1) = a
  <2>1. last - 1 = Len(a)
    BY <1>4
  <2>2. Part(all, 1, Len(a)) = a
    BY <1>1, JoinedHead
  <2> QED
    BY <2>1, <2>2
<1>8. last > 0
  BY <1>4
<1> HIDE DEF last
<1> QED
  <2>1. t = Part(all, last, Len(all)) /\ last = LastEsc(all)
    BY <1>3, <1>6 DEF Part
  <2>2. Decode(held, bytes) = [keys |-> DecodeComplete(Part(all, 1, last - 1)), held |-> t]
    BY <1>2, <1>8, <2>1, DecodeHeld
  <2> QED
    BY <1>7, <2>2

\* Bytes that may stand at the end of an unfinished sequence.
Unfinished == {"E", "[", "O", "5", "6"}

\* An unfinished sequence ends in one of these.
LEMMA IncompleteEnds ==
  ASSUME NEW t, IncompleteEscape(t)
  PROVE  t[Len(t)] \in Unfinished
<1>1. CASE t = <<"E">>
  BY <1>1 DEF Unfinished
<1>2. CASE t = <<"E", "[">>
  BY <1>2 DEF Unfinished
<1>3. CASE t = <<"E", "O">>
  BY <1>3 DEF Unfinished
<1>4. CASE t = <<"E", "[", "5">>
  BY <1>4 DEF Unfinished
<1>5. CASE t = <<"E", "[", "6">>
  BY <1>5 DEF Unfinished
<1> QED
  BY <1>1, <1>2, <1>3, <1>4, <1>5 DEF IncompleteEscape

\* A tail ends as the whole.
LEMMA SameEnd ==
  ASSUME NEW S, NEW s \in Seq(S), NEW m \in 1..Len(s), NEW v, v = Part(s, m, Len(s))
  PROVE  v[Len(v)] = s[Len(s)]
<1>1. Len(s) \in Int /\ m \in Int /\ m <= Len(s) /\ m >= 1
  OBVIOUS
<1>2. \A i \in m..Len(s) : s[i] \in S
  <2>1. \A i \in 1..Len(s) : s[i] \in S
    OBVIOUS
  <2> QED
    BY <1>1, <2>1
<1>3. /\ Len(SubSeq(s, m, Len(s))) = IF m <= Len(s) THEN Len(s) - m + 1 ELSE 0
      /\ \A i \in 1..(Len(s) - m + 1) : SubSeq(s, m, Len(s))[i] = s[m + i - 1]
  BY <1>1, <1>2, SubSeqProperties
<1>4. Len(v) = Len(s) - m + 1 /\ \A i \in 1..(Len(s) - m + 1) : v[i] = s[m + i - 1]
  BY <1>1, <1>3 DEF Part
<1>5. Len(v) \in 1..(Len(s) - m + 1) /\ m + Len(v) - 1 = Len(s)
  BY <1>1, <1>4
<1> QED
  BY <1>4, <1>5

\* Nothing is held when the last byte ends a press.
LEMMA DecodeWhole ==
  ASSUME NEW held, NEW bytes, NEW all \in Seq(AllBytes), all = Then(held, bytes),
         all = <<>> \/ all[Len(all)] \notin Unfinished
  PROVE  Decode(held, bytes) = [keys |-> DecodeComplete(all), held |-> <<>>]
<1> DEFINE last == LastEsc(all)
           tail == Part(all, last, Len(all))
<1>0. last \in 0..Len(all)
  BY LastEscIn
<1>1. tail = Part(all, last, Len(all)) /\ last = LastEsc(all)
  OBVIOUS
<1> HIDE DEF last, tail
<1>2. ASSUME last > 0, IncompleteEscape(tail) PROVE FALSE
  <2>0. Len(all) \in Nat
    OBVIOUS
  <2>1. last \in 1..Len(all) /\ Len(all) # 0
    BY <1>0, <1>2, <2>0
  <2>2. tail[Len(tail)] = all[Len(all)]
    BY <1>1, <2>1, SameEnd
  <2>3. all # <<>>
    BY <2>1
  <2> QED
    BY <1>2, <2>2, <2>3, IncompleteEnds
<1> QED
  BY <1>1, <1>2, DecodeFree

\* A short sequence is the tuple of its elements.
LEMMA AsTuple ==
  ASSUME NEW S, NEW s \in Seq(S)
  PROVE  /\ Len(s) = 1 => s = <<s[1]>>
         /\ Len(s) = 2 => s = <<s[1], s[2]>>
         /\ Len(s) = 3 => s = <<s[1], s[2], s[3]>>
OBVIOUS

\* The unfinished sequences, by their length.
LEMMA Incompletes ==
  ASSUME NEW t \in Seq(AllBytes), t[1] = "E",
         \/ Len(t) = 1
         \/ Len(t) = 2 /\ t[2] \in {"[", "O"}
         \/ Len(t) = 3 /\ t[2] = "[" /\ t[3] \in {"5", "6"}
  PROVE  IncompleteEscape(t) /\ \A i \in 2..Len(t) : t[i] # "E"
<1>1. IncompleteEscape(t)
  <2>1. CASE Len(t) = 1
    BY <2>1, AsTuple DEF IncompleteEscape
  <2>2. CASE Len(t) = 2 /\ t[2] \in {"[", "O"}
    <3>1. t = <<t[1], t[2]>>
      BY <2>2, AsTuple
    <3>2. t = <<"E", "[">> \/ t = <<"E", "O">>
      BY <2>2, <3>1
    <3> QED
      BY <3>2 DEF IncompleteEscape
  <2>3. CASE Len(t) = 3 /\ t[2] = "[" /\ t[3] \in {"5", "6"}
    <3>1. t = <<t[1], t[2], t[3]>>
      BY <2>3, AsTuple
    <3>2. t = <<"E", "[", "5">> \/ t = <<"E", "[", "6">>
      BY <2>3, <3>1
    <3> QED
      BY <3>2 DEF IncompleteEscape
  <2> QED
    BY <2>1, <2>2, <2>3
<1>2. \A i \in 2..Len(t) : t[i] # "E"
  <2>1. CASE Len(t) = 1
    BY <2>1
  <2>2. CASE Len(t) = 2 /\ t[2] \in {"[", "O"}
    <3>1. \A i \in 2..2 : i = 2
      OBVIOUS
    <3> QED
      BY <2>2, <3>1
  <2>3. CASE Len(t) = 3 /\ t[2] = "[" /\ t[3] \in {"5", "6"}
    <3>1. \A i \in 2..3 : i = 2 \/ i = 3
      OBVIOUS
    <3> QED
      BY <2>3, <3>1
  <2> QED
    BY <2>1, <2>2, <2>3
<1> QED
  BY <1>1, <1>2

\* Two parts of one, three or four.
LEMMA Sums ==
  ASSUME NEW a \in Nat, NEW b \in Nat, a # 0, b # 0
  PROVE  /\ a + b # 1 /\ (a + b = 3 => a = 1 \/ a = 2) /\ (a + b = 4 => a = 1 \/ a = 2 \/ a = 3)
         /\ 1 \in 1..a /\ (a = 2 \/ a = 3 => 2 \in 1..a) /\ (a = 3 => 3 \in 1..a)
OBVIOUS

\* A beginning of a press, but not all of it, is an unfinished sequence.
LEMMA PartOfPress ==
  ASSUME NEW p \in KnownPresses, NEW t \in Seq(AllBytes), NEW u \in Seq(AllBytes),
         Bytes(p) = Then(t, u), t # <<>>, u # <<>>
  PROVE  IncompleteEscape(t) /\ t[1] = "E" /\ \A i \in 2..Len(t) : t[i] # "E"
<1> DEFINE b == Bytes(p)
<1>1. Joined(AllBytes, t, u, b)
  BY Joins DEF Then
<1>2. Len(t) \in Nat /\ Len(u) \in Nat /\ Len(t) # 0 /\ Len(u) # 0
  BY EmptySeq
<1>3. Len(b) = Len(t) + Len(u) /\ \A i \in 1..Len(t) : b[i] = t[i]
  BY <1>1 DEF Joined
<1> DEFINE lt == Len(t)
           lu == Len(u)
<1>7. lt \in Nat /\ lu \in Nat /\ lt # 0 /\ lu # 0 /\ Len(t) = lt /\ Len(b) = lt + lu
  BY <1>2, <1>3
<1> HIDE DEF lt, lu
<1>8. /\ lt + lu # 1 /\ (lt + lu = 3 => lt = 1 \/ lt = 2) /\ (lt + lu = 4 => lt = 1 \/ lt = 2 \/ lt = 3)
      /\ 1 \in 1..lt /\ (lt = 2 \/ lt = 3 => 2 \in 1..lt) /\ (lt = 3 => 3 \in 1..lt)
  BY <1>7, Sums
<1>4. CASE p \in PlainPresses \/ p = "esc"
  <2>1. b \in {<<"E">>, <<p>>}
    BY <1>4, BytesTable
  <2>2. Len(b) = 1
    BY <2>1
  <2> HIDE DEF b
  <2> QED
    BY <1>7, <1>8, <2>2
<1>5. CASE p \in {"up", "down", "home"}
  <2>1. b \in {<<"E", "[", "A">>, <<"E", "O", "B">>, <<"E", "[", "H">>}
    BY <1>5, BytesTable
  <2>2. Len(b) = 3 /\ b[1] = "E" /\ b[2] \in {"[", "O"}
    BY <2>1
  <2> HIDE DEF b
  <2>3. Len(t) = 1 \/ Len(t) = 2
    BY <1>7, <1>8, <2>2
  <2>4. t[1] = "E" /\ (Len(t) = 2 => t[2] \in {"[", "O"})
    BY <1>3, <1>7, <1>8, <2>2
  <2> QED
    BY <2>3, <2>4, Incompletes
<1>6. CASE p \in {"pgup", "pgdn"}
  <2>1. b \in {<<"E", "[", "5", "~">>, <<"E", "[", "6", "~">>}
    BY <1>6, BytesTable
  <2>2. Len(b) = 4 /\ b[1] = "E" /\ b[2] = "[" /\ b[3] \in {"5", "6"}
    BY <2>1
  <2> HIDE DEF b
  <2>3. Len(t) = 1 \/ Len(t) = 2 \/ Len(t) = 3
    BY <1>7, <1>8, <2>2
  <2>4. t[1] = "E" /\ (Len(t) = 2 \/ Len(t) = 3 => t[2] = "[") /\ (Len(t) = 3 => t[3] \in {"5", "6"})
    BY <1>3, <1>7, <1>8, <2>2
  <2> QED
    BY <2>3, <2>4, Incompletes
<1> QED
  BY <1>4, <1>5, <1>6, KnownAre

\* No press but the lone ESC ends in one of these.
LEMMA LastByte ==
  ASSUME NEW p \in KnownPresses, p # "esc"
  PROVE  Bytes(p)[Len(Bytes(p))] \notin Unfinished
<1>1. CASE p \in PlainPresses
  <2>1. Bytes(p) = <<p>>
    BY <1>1, BytesTable
  <2>2. Bytes(p)[Len(Bytes(p))] = p
    BY <2>1
  <2> QED
    BY <1>1, <2>2 DEF PlainPresses, Unfinished
<1> DEFINE b == Bytes(p)
<1>2. CASE p \in {"up", "down", "home"}
  <2>1. b \in {<<"E", "[", "A">>, <<"E", "O", "B">>, <<"E", "[", "H">>}
    BY <1>2, BytesTable
  <2> HIDE DEF b
  <2>2. Len(b) = 3 /\ b[3] \in {"A", "B", "H"}
    BY <2>1
  <2>3. b[Len(b)] \in {"A", "B", "H"}
    BY <2>2
  <2> QED
    BY <2>3 DEF Unfinished, b
<1>3. CASE p \in {"pgup", "pgdn"}
  <2>1. b \in {<<"E", "[", "5", "~">>, <<"E", "[", "6", "~">>}
    BY <1>3, BytesTable
  <2> HIDE DEF b
  <2>2. Len(b) = 4 /\ b[4] = "~"
    BY <2>1
  <2>3. b[Len(b)] = "~"
    BY <2>2
  <2> QED
    BY <2>3 DEF Unfinished, b
<1> QED
  BY <1>1, <1>2, <1>3, KnownAre

\* The bytes of the first n presses, and those of the others.
Early(ps, n) == Sent(SubSeq(ps, 1, n))
Late(ps, n) == Sent(After(ps, n))

\* The bytes before and behind the n-th press, and the keys of those before it.
LEMMA EarlyAndLate ==
  ASSUME NEW ps \in Seq(KnownPresses)
  PROVE  /\ \A n \in 0..Len(ps) : /\ Early(ps, n) \in Seq(AllBytes) /\ Late(ps, n) \in Seq(AllBytes)
                                  /\ Sent(ps) = Then(Early(ps, n), Late(ps, n))
                                  /\ DecodeComplete(Early(ps, n)) = MeantOf(SubSeq(ps, 1, n))
         /\ \A n \in 0..(Len(ps) - 1) : /\ ps[n + 1] \in KnownPresses
                                        /\ Early(ps, n + 1) = Then(Early(ps, n), Bytes(ps[n + 1]))
                                        /\ Late(ps, n) = Then(Bytes(ps[n + 1]), Late(ps, n + 1))
         /\ Late(ps, Len(ps)) = <<>> /\ Early(ps, 0) = <<>>
<1>1. ASSUME NEW n \in 0..Len(ps)
      PROVE  /\ Early(ps, n) \in Seq(AllBytes) /\ Late(ps, n) \in Seq(AllBytes)
             /\ Sent(ps) = Then(Early(ps, n), Late(ps, n))
             /\ DecodeComplete(Early(ps, n)) = MeantOf(SubSeq(ps, 1, n))
  <2>1. /\ Sent(After(ps, n)) \in Seq(AllBytes) /\ Sent(SubSeq(ps, 1, n)) \in Seq(AllBytes)
        /\ Sent(ps) = Sent(SubSeq(ps, 1, n)) \o Sent(After(ps, n))
    BY SentFirst
  <2>2. SubSeq(ps, 1, n) \in Seq(KnownPresses)
    BY PartsOfPresses
  <2>3. DecodeComplete(Sent(SubSeq(ps, 1, n))) = MeantOf(SubSeq(ps, 1, n))
    BY <2>2, DecodeSent
  <2> QED
    BY <2>1, <2>3 DEF Early, Late, Then
<1>2. ASSUME NEW n \in 0..(Len(ps) - 1)
      PROVE  /\ ps[n + 1] \in KnownPresses
             /\ Early(ps, n + 1) = Then(Early(ps, n), Bytes(ps[n + 1]))
             /\ Late(ps, n) = Then(Bytes(ps[n + 1]), Late(ps, n + 1))
  <2>1. Sent(After(ps, n)) = Bytes(ps[n + 1]) \o Sent(After(ps, n + 1))
    BY SentFirst
  <2>2. Sent(SubSeq(ps, 1, n + 1)) = Sent(SubSeq(ps, 1, n)) \o Bytes(ps[n + 1])
    BY SentGrows
  <2>3. ps[n + 1] \in KnownPresses
    OBVIOUS
  <2> QED
    BY <2>1, <2>2, <2>3 DEF Early, Late, Then
<1>3. Late(ps, Len(ps)) = <<>>
  BY SentFirst DEF Late
<1>4. Early(ps, 0) = <<>>
  <2>1. SubSeq(ps, 1, 0) = <<>>
    BY SubSeqEmpty
  <2>2. <<>> \in Seq(KnownPresses) /\ Len(<<>>) = 0 /\ SubSeq(<<>>, 0 + 1, 0) = <<>>
    BY SubSeqEmpty
  <2>3. Sent(After(<<>>, 0)) = <<>>
    BY <2>2, SentFirst
  <2>4. Sent(<<>>) = <<>>
    BY <2>2, <2>3 DEF After
  <2> QED
    BY <2>1, <2>4 DEF Early
<1> QED
  BY <1>1, <1>2, <1>3, <1>4

\* How far b reaches into the bytes of the presses.
LEMMA ReachesTo ==
  ASSUME NEW ps \in Seq(KnownPresses), NEW len \in Nat
  PROVE  \E n \in 0..Len(ps) : /\ Len(Early(ps, n)) <= len
                               /\ n < Len(ps) => Len(Early(ps, n + 1)) > len
<1> DEFINE m == Len(ps)
           S == {k \in 0..(m + 1) : k = m + 1 \/ Len(Early(ps, k)) > len}
<1>0. m \in Nat
  OBVIOUS
<1>1. S \in SUBSET Nat /\ m + 1 \in S
  BY <1>0
<1>2. PICK k \in S : \A j \in S : k <= j
  BY <1>1, LeastExists
<1>3. Len(Early(ps, 0)) = 0
  BY EarlyAndLate
<1>4. k # 0
  BY <1>0, <1>2, <1>3
<1>5. k - 1 \in 0..m /\ k \in 0..(m + 1) /\ k - 1 + 1 = k /\ ~(k <= k - 1) /\ (k - 1 < m => k # m + 1)
  <2>1. k \in 0..(m + 1)
    BY <1>2
  <2> HIDE DEF S, m
  <2> QED
    BY <1>0, <1>4, <2>1
<1>6. k - 1 \notin S
  BY <1>2, <1>5
<1>7. ~(Len(Early(ps, k - 1)) > len)
  <2>1. k - 1 \in 0..(m + 1)
    BY <1>0, <1>5
  <2> QED
    BY <1>6, <2>1
<1>8. Len(Early(ps, k - 1)) \in Nat
  <2>1. Early(ps, k - 1) \in Seq(AllBytes)
    BY <1>5, EarlyAndLate
  <2> QED
    BY <2>1
<1>9. k - 1 < m => Len(Early(ps, k)) > len
  BY <1>2, <1>5
<1> HIDE DEF S
<1>10. Len(Early(ps, k - 1)) <= len
  BY <1>7, <1>8
<1> DEFINE n == k - 1
<1>11. n \in 0..m /\ Len(Early(ps, n)) <= len /\ (n < m => Len(Early(ps, n + 1)) > len)
  BY <1>5, <1>9, <1>10
<1> HIDE DEF n
<1> QED
  BY <1>11

Decodes(ps, held, bytes, rest) ==
  \E n \in 0..Len(ps) : \E t \in Seq(AllBytes) :
    /\ Decode(held, bytes) = [keys |-> MeantOf(SubSeq(ps, 1, n)), held |-> t]
    /\ Then(t, rest) = Late(ps, n)

\* Decoding when the part ends in an unfinished sequence.
LEMMA HeldPart ==
  ASSUME NEW ps \in Seq(KnownPresses), NEW held, NEW bytes, NEW rest,
         NEW n \in 0..Len(ps), NEW t \in Seq(AllBytes),
         Then(held, bytes) = Then(Early(ps, n), t), Then(t, rest) = Late(ps, n),
         IncompleteEscape(t), t[1] = "E", \A i \in 2..Len(t) : t[i] # "E"
  PROVE  Decodes(ps, held, bytes, rest)
<1>1. Early(ps, n) \in Seq(AllBytes) /\ DecodeComplete(Early(ps, n)) = MeantOf(SubSeq(ps, 1, n))
  BY EarlyAndLate
<1>2. Decode(held, bytes) = [keys |-> DecodeComplete(Early(ps, n)), held |-> t]
  BY <1>1, DecodeHolds
<1> QED
  BY <1>1, <1>2 DEF Decodes

\* The keys of a part of the bytes are the presses it holds; what it holds of
\* the press after them is kept.
LEMMA DecodeOfPart ==
  ASSUME NEW ps \in Seq(KnownPresses), NEW held \in Seq(AllBytes), NEW bytes \in Seq(AllBytes),
         NEW rest \in Seq(AllBytes), Then(Then(held, bytes), rest) = Sent(ps)
  PROVE  Decodes(ps, held, bytes, rest)
<1> DEFINE b == Then(held, bytes)
           m == Len(ps)
<1>0. b \in Seq(AllBytes) /\ Len(b) \in Nat /\ m \in Nat
  <2>1. b \in Seq(AllBytes)
    BY ThenIs
  <2> HIDE DEF b
  <2> QED
    BY <2>1
<1>1. PICK n \in 0..m : Len(Early(ps, n)) <= Len(b) /\ (n < m => Len(Early(ps, n + 1)) > Len(b))
  BY <1>0, ReachesTo
<1>2. b = Then(held, bytes) /\ Then(b, rest) = Sent(ps)
  OBVIOUS
<1> HIDE DEF b, m
<1>3. /\ Early(ps, n) \in Seq(AllBytes) /\ Late(ps, n) \in Seq(AllBytes)
      /\ Sent(ps) = Then(Early(ps, n), Late(ps, n))
      /\ DecodeComplete(Early(ps, n)) = MeantOf(SubSeq(ps, 1, n))
  BY EarlyAndLate DEF m
<1>4. PICK t \in Seq(AllBytes) : /\ b = Then(Early(ps, n), t) /\ Late(ps, n) = Then(t, rest)
                                 /\ Len(b) = Len(Early(ps, n)) + Len(t)
  <2> DEFINE x == Early(ps, n)
             y == Late(ps, n)
  <2>1. x \in Seq(AllBytes) /\ y \in Seq(AllBytes) /\ Then(x, y) = Then(b, rest) /\ Len(x) <= Len(b)
    BY <1>1, <1>2, <1>3
  <2> HIDE DEF x, y
  <2>2. \E t \in Seq(AllBytes) : b = Then(x, t) /\ y = Then(t, rest) /\ Len(b) = Len(x) + Len(t)
    BY <1>0, <2>1, Overlap
  <2> QED
    BY <2>2 DEF x, y
<1>5. CASE t # <<>>
  <2>1. n # m
    <3>1. ASSUME n = m PROVE FALSE
      <4>1. Late(ps, n) = <<>>
        BY <3>1, EarlyAndLate DEF m
      <4>2. Then(t, rest) = <<>>
        BY <1>4, <4>1
      <4>3. Len(Then(t, rest)) = Len(t) + Len(rest) /\ Len(t) \in Nat /\ Len(rest) \in Nat /\ Len(t) # 0
        BY <1>5, ThenIs, EmptySeq
      <4>4. Len(Then(t, rest)) = 0
        BY <4>2
      <4> DEFINE lt == Len(t)
                 lr == Len(rest)
      <4>5. lt + lr = 0 /\ lt \in Nat /\ lr \in Nat /\ lt # 0
        BY <4>3, <4>4
      <4> HIDE DEF lt, lr
      <4> QED
        BY <4>5
    <3> QED
      BY <3>1
  <2>2. n \in 0..(m - 1) /\ n + 1 \in 0..m /\ n < m
    BY <1>0, <2>1
  <2> DEFINE p == ps[n + 1]
             next == Late(ps, n + 1)
  <2>3. /\ p \in KnownPresses /\ Early(ps, n + 1) = Then(Early(ps, n), Bytes(p))
        /\ Late(ps, n) = Then(Bytes(p), next) /\ next \in Seq(AllBytes)
    BY <2>2, EarlyAndLate DEF m
  <2> HIDE DEF p, next
  <2>4. Bytes(p) \in Seq(AllBytes) /\ Len(Bytes(p)) \in Nat /\ Len(t) \in Nat /\ Len(Early(ps, n)) \in Nat
    <3>1. Bytes(p) \in Seq(AllBytes)
      BY <2>3, BytesAre
    <3> QED
      BY <1>3, <3>1
  <2>5. Len(Early(ps, n + 1)) = Len(Early(ps, n)) + Len(Bytes(p))
    BY <1>3, <2>3, <2>4, ThenIs
  <2>6. Len(t) < Len(Bytes(p)) /\ Len(t) <= Len(Bytes(p))
    <3>1. ASSUME NEW x \in Nat, NEW y \in Nat, NEW z \in Nat, x + y > x + z PROVE z < y /\ z <= y
      BY <3>1
    <3>2. Len(Early(ps, n)) + Len(Bytes(p)) > Len(Early(ps, n)) + Len(t)
      BY <1>1, <1>4, <2>2, <2>5
    <3> QED
      BY <2>4, <3>1, <3>2
  <2>7. PICK u \in Seq(AllBytes) : Bytes(p) = Then(t, u) /\ Len(Bytes(p)) = Len(t) + Len(u)
    <3> DEFINE c == Bytes(p)
    <3>1. c \in Seq(AllBytes) /\ Len(t) <= Len(c) /\ Then(t, rest) = Then(c, next)
      BY <1>4, <2>3, <2>4, <2>6
    <3> HIDE DEF c
    <3>2. \E u \in Seq(AllBytes) : c = Then(t, u) /\ rest = Then(u, next) /\ Len(c) = Len(t) + Len(u)
      BY <2>3, <3>1, Overlap
    <3> QED
      BY <3>2 DEF c
  <2>8. u # <<>>
    <3>1. ASSUME u = <<>> PROVE FALSE
      <4>1. Len(u) = 0
        BY <3>1
      <4> QED
        BY <2>4, <2>6, <2>7, <4>1
    <3> QED
      BY <3>1
  <2>9. IncompleteEscape(t) /\ t[1] = "E" /\ \A i \in 2..Len(t) : t[i] # "E"
    BY <1>5, <2>3, <2>7, <2>8, PartOfPress
  <2>10. n \in 0..Len(ps) /\ Then(held, bytes) = Then(Early(ps, n), t) /\ Then(t, rest) = Late(ps, n)
    BY <1>2, <1>4 DEF m
  <2> QED
    BY <2>9, <2>10, HeldPart
<1>6. CASE t = <<>>
  <2>1. b = Early(ps, n) /\ rest = Late(ps, n)
    <3>1. Then(Early(ps, n), <<>>) = Early(ps, n)
      BY <1>3, ConcatEmptySeq DEF Then
    <3>2. Then(<<>>, rest) = rest
      BY ConcatEmptySeq DEF Then
    <3> QED
      BY <1>4, <1>6, <3>1, <3>2
  <2>2. CASE n # 0 /\ ps[n] = "esc"
    <3> DEFINE k == n - 1
               e == <<"E">>
    <3>1. k \in 0..(m - 1) /\ k \in 0..m /\ k + 1 = n
      BY <1>0, <2>2
    <3> HIDE DEF k
    <3>2. Early(ps, n) = Then(Early(ps, k), Bytes("esc")) /\ Late(ps, k) = Then(Bytes("esc"), Late(ps, n))
      BY <2>2, <3>1, EarlyAndLate DEF m
    <3>3. Bytes("esc") = e
      BY BytesTable
    <3>4. e \in Seq(AllBytes) /\ Len(e) = 1 /\ e[1] = "E"
      <4>1. "E" \in AllBytes
        BY DEF AllBytes
      <4> QED
        BY <4>1
    <3> HIDE DEF e
    <3>5. IncompleteEscape(e) /\ \A i \in 2..Len(e) : e[i] # "E"
      BY <3>4, Incompletes
    <3>6. Then(held, bytes) = Then(Early(ps, k), e) /\ Then(e, rest) = Late(ps, k) /\ k \in 0..Len(ps)
      BY <1>2, <2>1, <3>1, <3>2, <3>3 DEF m
    <3> QED
      BY <3>4, <3>5, <3>6, HeldPart
  <2>3. CASE ~(n # 0 /\ ps[n] = "esc")
    <3>1. b = <<>> \/ b[Len(b)] \notin Unfinished
      <4>1. CASE n = 0
        BY <2>1, <4>1, EarlyAndLate
      <4>2. CASE n # 0
        <5> DEFINE k == n - 1
                   p == ps[n]
        <5>1. k \in 0..(m - 1) /\ k \in 0..m /\ k + 1 = n
          BY <1>0, <4>2
        <5> HIDE DEF k
        <5>2. p \in KnownPresses /\ b = Then(Early(ps, k), Bytes(p)) /\ Early(ps, k) \in Seq(AllBytes)
          BY <2>1, <5>1, EarlyAndLate DEF m
        <5> HIDE DEF p
        <5>3. Bytes(p) \in Seq(AllBytes) /\ Len(Bytes(p)) \in 1..4
          BY <5>2, BytesAre
        <5>4. Bytes(p)[Len(Bytes(p))] \notin Unfinished
          BY <2>3, <4>2, <5>2, LastByte DEF p
        <5> DEFINE c == Bytes(p)
                   x == Early(ps, k)
        <5>5. Joined(AllBytes, x, c, b)
          BY <5>2, <5>3, Joins DEF Then
        <5>6. Len(c) \in 1..Len(c) /\ c[Len(c)] \notin Unfinished
          BY <5>3, <5>4, HasFirst
        <5> HIDE DEF c, x
        <5>7. b[Len(x) + Len(c)] = c[Len(c)] /\ Len(b) = Len(x) + Len(c)
          BY <5>5, <5>6 DEF Joined
        <5> QED
          BY <5>6, <5>7
      <4> QED
        BY <4>1, <4>2
    <3>2. Decode(held, bytes) = [keys |-> DecodeComplete(b), held |-> <<>>]
      BY <1>0, <1>2, <3>1, DecodeWhole
    <3>3. Decode(held, bytes) = [keys |-> MeantOf(SubSeq(ps, 1, n)), held |-> t]
      BY <1>3, <1>6, <2>1, <3>2
    <3> QED
      BY <1>4, <3>3 DEF Decodes, m
  <2> QED
    BY <2>2, <2>3
<1> QED
  BY <1>5, <1>6

----------------------------------------------------------------------------
(* The keys and the bytes of a session. *)

KeyNames == {"esc", "unknown", "up", "down", "pgup", "pgdn"} \cup Plain

\* Whatever the bytes, what is decoded are keys.
LEMMA KeysAreNames ==
  ASSUME NEW s \in Seq(AllBytes)
  PROVE  DecodeComplete(s) \in Seq(KeyNames)
<1> DEFINE n == Len(s)
<1>0. n \in Nat /\ 1 \in 1..(n + 1)
  OBVIOUS
<1>1. Parts(n, KeyOuts(s), KeyNames)
  <2> SUFFICES ASSUME NEW i \in 1..n PROVE KeyOuts(s)[i] \in Seq(KeyNames)
    BY DEF Parts
  <2>1. KeyOuts(s)[i] = <<Key(s, i)>>
    BY DEF KeyOuts
  <2>2. Key(s, i) \in KeyNames
    <3>1. CASE s[i] = "E"
      <4> DEFINE x == SubSeq(s, i, Len(s))
      <4>1. Key(s, i) = DecodeEscape(x).key
        BY <3>1 DEF Key
      <4> HIDE DEF x
      <4>2. DecodeEscape(x).key \in {"esc", "unknown", "up", "down", "pgup", "pgdn"}
        <5>1. CASE Alone(x) \/ Len(x) = 2
          <6>1. DecodeEscape(x) = [key |-> "esc", took |-> 1] \/ DecodeEscape(x) = [key |-> "unknown", took |-> 2]
            BY <5>1, EscapeCases
          <6> QED
            BY <6>1
        <5>2. CASE ~Alone(x) /\ Len(x) # 2 /\ ~(x[3] \notin {"A", "B"} /\ PageKey(x))
          <6>1. \/ DecodeEscape(x) = [key |-> "up", took |-> 3]
                \/ DecodeEscape(x) = [key |-> "down", took |-> 3]
                \/ DecodeEscape(x) = [key |-> "unknown", took |-> 3]
            BY <5>2, EscapeCases
          <6> QED
            BY <6>1
        <5>3. CASE ~Alone(x) /\ Len(x) # 2 /\ x[3] \notin {"A", "B"} /\ PageKey(x)
          <6>1. DecodeEscape(x) = [key |-> IF x[3] = "5" THEN "pgup" ELSE "pgdn", took |-> 4]
            BY <5>3, EscapeCases
          <6> QED
            BY <6>1
        <5> QED
          BY <5>1, <5>2, <5>3
      <4> QED
        BY <4>1, <4>2 DEF KeyNames
    <3>2. CASE s[i] # "E"
      BY <3>2 DEF Key, KeyNames
    <3> QED
      BY <3>1, <3>2
  <2> QED
    BY <2>1, <2>2, Tuples
<1>2. Onward(n, KeyNexts(s)) /\ \E f : WalkOf(n, KeyOuts(s), KeyNexts(s), f) /\ DecodeComplete(s) = f[1]
  BY DecodeIsWalk
<1> HIDE DEF n
<1>3. PICK f : WalkOf(n, KeyOuts(s), KeyNexts(s), f) /\ DecodeComplete(s) = f[1]
  BY <1>2
<1>4. \A i \in 1..(n + 1) : f[i] \in Seq(KeyNames)
  BY <1>0, <1>1, <1>2, <1>3, WalkIsSeq
<1> QED
  BY <1>0, <1>3, <1>4

\* A part of a sequence is one.
LEMMA PartIsSeq ==
  ASSUME NEW S, NEW s \in Seq(S), NEW a \in 1..(Len(s) + 1), NEW b \in 0..Len(s)
  PROVE  Part(s, a, b) \in Seq(S)
<1>1. Len(s) \in Nat /\ a \in Int /\ b \in Int
  OBVIOUS
<1>2. \A i \in a..b : s[i] \in S
  <2>1. \A i \in 1..Len(s) : s[i] \in S
    OBVIOUS
  <2> QED
    BY <1>1, <2>1
<1>3. SubSeq(s, a, b) \in Seq(S)
  BY <1>1, <1>2, SubSeqProperties
<1> QED
  BY <1>3 DEF Part

\* Whatever is held and read, decode gives keys and holds bytes.
LEMMA DecodeGives ==
  ASSUME NEW held \in Seq(AllBytes), NEW bytes \in Seq(AllBytes)
  PROVE  Decode(held, bytes).keys \in Seq(KeyNames) /\ Decode(held, bytes).held \in Seq(AllBytes)
<1> DEFINE all == Then(held, bytes)
           last == LastEsc(all)
           tail == Part(all, last, Len(all))
           got == Decode(held, bytes)
<1>1. all \in Seq(AllBytes) /\ all = Then(held, bytes)
  BY ThenIs
<1> HIDE DEF all
<1>2. last \in 0..Len(all) /\ last = LastEsc(all) /\ tail = Part(all, last, Len(all)) /\ Len(all) \in Nat
  <2>1. last \in 0..Len(all)
    BY <1>1, LastEscIn
  <2> HIDE DEF last
  <2>2. Len(all) \in Nat
    BY <1>1
  <2> QED
    BY <2>1, <2>2 DEF last
<1> HIDE DEF last, tail
<1>3. CASE last > 0 /\ IncompleteEscape(tail)
  <2>1. got = [keys |-> DecodeComplete(Part(all, 1, last - 1)), held |-> tail]
    BY <1>1, <1>2, <1>3, DecodeHeld
  <2>2. /\ last \in 1..(Len(all) + 1) /\ last - 1 \in 0..Len(all) /\ Len(all) \in 0..Len(all)
        /\ 1 \in 1..(Len(all) + 1)
    BY <1>2, <1>3
  <2>3. tail \in Seq(AllBytes) /\ Part(all, 1, last - 1) \in Seq(AllBytes)
    BY <1>1, <1>2, <2>2, PartIsSeq
  <2>4. DecodeComplete(Part(all, 1, last - 1)) \in Seq(KeyNames)
    BY <2>3, KeysAreNames
  <2> HIDE DEF got
  <2> QED
    BY <2>1, <2>3, <2>4 DEF got
<1>4. CASE ~(last > 0 /\ IncompleteEscape(tail))
  <2>1. got = [keys |-> DecodeComplete(all), held |-> <<>>]
    BY <1>1, <1>2, <1>4, DecodeFree
  <2>2. DecodeComplete(all) \in Seq(KeyNames) /\ <<>> \in Seq(AllBytes)
    BY <1>1, KeysAreNames
  <2> HIDE DEF got
  <2> QED
    BY <2>1, <2>2 DEF got
<1> QED
  BY <1>3, <1>4

\* The keys got are the presses up to one of them, the bytes left are those of
\* the others.
Follows(es, got, left) ==
  \E n \in 0..Len(es) : got = MeantOf(SubSeq(es, 1, n)) /\ left = Late(es, n)

\* The keys of the first n presses.
LEMMA MeantParts ==
  ASSUME NEW es \in Seq(KnownPresses), NEW n \in 0..Len(es)
  PROVE  /\ MeantOf(SubSeq(es, 1, n)) \in Seq(MeantKeys)
         /\ Len(MeantOf(SubSeq(es, 1, n))) = n
         /\ \A i \in 1..n : MeantOf(SubSeq(es, 1, n))[i] = Meant(es[i])
<1>1. /\ SubSeq(es, 1, n) \in Seq(KnownPresses) /\ Len(SubSeq(es, 1, n)) = n
      /\ \A i \in 1..n : SubSeq(es, 1, n)[i] = es[i]
  BY PartsOfPresses
<1> DEFINE qs == SubSeq(es, 1, n)
<1> HIDE DEF qs
<1>2. qs \in Seq(KnownPresses) /\ Len(qs) = n /\ \A i \in 1..n : qs[i] = es[i]
  BY <1>1 DEF qs
<1>3. MeantOf(qs) \in Seq(MeantKeys) /\ Len(MeantOf(qs)) = n
  BY <1>2, MeantIsSeq
<1>4. \A i \in 1..n : MeantOf(qs)[i] = Meant(es[i])
  BY <1>2 DEF MeantOf
<1> QED
  BY <1>3, <1>4 DEF qs

\* At first no key is got and all bytes are left.
LEMMA FollowsFirst ==
  ASSUME NEW es \in Seq(KnownPresses)
  PROVE  Follows(es, <<>>, Sent(es))
<1>1. 0 \in 0..Len(es)
  OBVIOUS
<1>2. Late(es, 0) = Sent(es)
  BY SentIsSeq DEF Late
<1>3. MeantOf(SubSeq(es, 1, 0)) \in Seq(MeantKeys) /\ Len(MeantOf(SubSeq(es, 1, 0))) = 0
  BY <1>1, MeantParts
<1>4. MeantOf(SubSeq(es, 1, 0)) = <<>>
  BY <1>3
<1> QED
  BY <1>1, <1>2, <1>4 DEF Follows

\* A further press adds its bytes to those left.
LEMMA FollowsPress ==
  ASSUME NEW es \in Seq(KnownPresses), NEW p \in KnownPresses, NEW got, NEW left,
         Follows(es, got, left)
  PROVE  /\ Append(es, p) \in Seq(KnownPresses)
         /\ Follows(Append(es, p), got, Then(left, Bytes(p)))
<1>1. PICK n \in 0..Len(es) : got = MeantOf(SubSeq(es, 1, n)) /\ left = Late(es, n)
  BY DEF Follows
<1> DEFINE ps == Append(es, p)
<1>2. ps \in Seq(KnownPresses) /\ Len(ps) = Len(es) + 1 /\ \A i \in 1..Len(es) : ps[i] = es[i]
  BY AppendProperties
<1>3. Late(ps, n) = Then(left, Bytes(p))
  BY <1>1, SentAppended DEF Late, Then
<1> HIDE DEF ps
<1>4. n \in 0..Len(ps) /\ n \in Nat /\ \A i \in 1..n : ps[i] = es[i]
  <2>1. Len(es) \in Nat
    OBVIOUS
  <2> QED
    BY <1>2, <2>1
<1>5. MeantOf(SubSeq(ps, 1, n)) = MeantOf(SubSeq(es, 1, n))
  <2> DEFINE x == MeantOf(SubSeq(ps, 1, n))
             y == MeantOf(SubSeq(es, 1, n))
  <2>1. x \in Seq(MeantKeys) /\ Len(x) = n /\ \A i \in 1..n : x[i] = Meant(ps[i])
    BY <1>2, <1>4, MeantParts
  <2>2. y \in Seq(MeantKeys) /\ Len(y) = n /\ \A i \in 1..n : y[i] = Meant(es[i])
    BY MeantParts
  <2> HIDE DEF x, y
  <2>3. x = y
    BY <1>4, <2>1, <2>2, SameSeqs
  <2> QED
    BY <2>3 DEF x, y
<1> QED
  BY <1>1, <1>2, <1>3, <1>4, <1>5 DEF Follows, ps

\* The presses between the n-th and the n + k-th.
LEMMA FollowsOn ==
  ASSUME NEW es \in Seq(KnownPresses), NEW n \in 0..Len(es), NEW k \in 0..(Len(es) - n)
  PROVE  /\ n + k \in 0..Len(es)
         /\ Then(MeantOf(SubSeq(es, 1, n)), MeantOf(SubSeq(After(es, n), 1, k)))
              = MeantOf(SubSeq(es, 1, n + k))
         /\ Late(After(es, n), k) = Late(es, n + k)
<1> DEFINE ps == After(es, n)
           l == Len(es)
<1>0. l \in Nat /\ n \in Nat /\ k \in Nat /\ n + k \in 0..l /\ n <= l /\ n + k <= l
  OBVIOUS
<1>1. ps \in Seq(KnownPresses) /\ Len(ps) = l - n /\ \A i \in 1..(l - n) : ps[i] = es[n + i]
  BY PartsOfPresses
<1> HIDE DEF ps
<1>2. k \in 0..Len(ps)
  BY <1>1
<1>3. Then(MeantOf(SubSeq(es, 1, n)), MeantOf(SubSeq(ps, 1, k))) = MeantOf(SubSeq(es, 1, n + k))
  <2> DEFINE x == MeantOf(SubSeq(es, 1, n))
             y == MeantOf(SubSeq(ps, 1, k))
             z == MeantOf(SubSeq(es, 1, n + k))
             xy == Then(x, y)
  <2>1. x \in Seq(MeantKeys) /\ Len(x) = n /\ \A i \in 1..n : x[i] = Meant(es[i])
    BY MeantParts
  <2>2. y \in Seq(MeantKeys) /\ Len(y) = k /\ \A i \in 1..k : y[i] = Meant(ps[i])
    BY <1>1, <1>2, MeantParts
  <2>3. z \in Seq(MeantKeys) /\ Len(z) = n + k /\ \A i \in 1..(n + k) : z[i] = Meant(es[i])
    BY <1>0, MeantParts
  <2> HIDE DEF x, y, z
  <2>4. Joined(MeantKeys, x, y, xy)
    BY <2>1, <2>2, Joins DEF Then
  <2> HIDE DEF xy
  <2>5. xy \in Seq(MeantKeys) /\ Len(xy) = n + k
    BY <2>1, <2>2, <2>4 DEF Joined
  <2>6. ASSUME NEW i \in 1..(n + k) PROVE xy[i] = z[i]
    <3>1. CASE i <= n
      <4>1. i \in 1..n
        BY <1>0, <3>1
      <4>2. xy[i] = x[i]
        BY <2>1, <2>4, <4>1 DEF Joined
      <4> QED
        BY <2>1, <2>3, <4>1, <4>2
    <3>2. CASE ~(i <= n)
      <4> DEFINE j == i - n
      <4>1. j \in 1..k /\ j \in 1..(l - n) /\ n + j = i
        BY <1>0, <3>2
      <4> HIDE DEF j
      <4>2. xy[n + j] = y[j]
        BY <2>1, <2>2, <2>4, <4>1 DEF Joined
      <4>3. y[j] = Meant(es[i])
        BY <1>1, <2>2, <4>1
      <4> QED
        BY <2>3, <4>1, <4>2, <4>3
    <3> QED
      BY <3>1, <3>2
  <2>7. n + k \in Nat
    BY <1>0
  <2>8. xy = z
    BY <2>3, <2>5, <2>6, <2>7, SameSeqs
  <2> QED
    BY <2>8 DEF x, y, z, xy
<1>4. After(ps, k) = After(es, n + k)
  <2> DEFINE x == After(ps, k)
             y == After(es, n + k)
             m == l - (n + k)
  <2>1. x \in Seq(KnownPresses) /\ Len(x) = Len(ps) - k /\ \A i \in 1..(Len(ps) - k) : x[i] = ps[k + i]
    BY <1>1, <1>2, PartsOfPresses
  <2>2. y \in Seq(KnownPresses) /\ Len(y) = m /\ \A i \in 1..m : y[i] = es[n + k + i]
    BY <1>0, PartsOfPresses
  <2>3. m \in Nat /\ Len(ps) - k = m /\ \A i \in 1..m : k + i \in 1..(l - n) /\ n + (k + i) = n + k + i
    BY <1>0, <1>1
  <2> HIDE DEF x, y, m, l
  <2>4. \A i \in 1..m : x[i] = y[i]
    BY <1>1, <2>1, <2>2, <2>3
  <2>5. x = y
    BY <2>1, <2>2, <2>3, <2>4, SameSeqs
  <2> QED
    BY <2>5 DEF x, y
<1> QED
  BY <1>0, <1>3, <1>4 DEF Late, ps

\* decode passes on keys of the next presses and holds what it must.
LEMMA FollowsDecode ==
  ASSUME NEW es \in Seq(KnownPresses), NEW got, NEW held \in Seq(AllBytes), NEW bytes \in Seq(AllBytes),
         NEW rest \in Seq(AllBytes), Follows(es, got, Then(Then(held, bytes), rest))
  PROVE  Follows(es, Then(got, Decode(held, bytes).keys), Then(Decode(held, bytes).held, rest))
<1>1. PICK n \in 0..Len(es) : got = MeantOf(SubSeq(es, 1, n)) /\ Then(Then(held, bytes), rest) = Late(es, n)
  BY DEF Follows
<1> DEFINE ps == After(es, n)
<1>2. ps \in Seq(KnownPresses) /\ Len(ps) = Len(es) - n
  BY PartsOfPresses
<1>3. Then(Then(held, bytes), rest) = Sent(ps)
  BY <1>1 DEF Late
<1> HIDE DEF ps
<1>4. Decodes(ps, held, bytes, rest)
  BY <1>2, <1>3, DecodeOfPart
<1>5. PICK k \in 0..Len(ps) : \E t \in Seq(AllBytes) :
            /\ Decode(held, bytes) = [keys |-> MeantOf(SubSeq(ps, 1, k)), held |-> t]
            /\ Then(t, rest) = Late(ps, k)
  BY <1>4 DEF Decodes
<1>6. Decode(held, bytes).keys = MeantOf(SubSeq(ps, 1, k)) /\ Then(Decode(held, bytes).held, rest) = Late(ps, k)
  BY <1>5
<1>7. k \in 0..(Len(es) - n)
  BY <1>2
<1>8. /\ n + k \in 0..Len(es)
      /\ Then(MeantOf(SubSeq(es, 1, n)), MeantOf(SubSeq(ps, 1, k))) = MeantOf(SubSeq(es, 1, n + k))
      /\ Late(ps, k) = Late(es, n + k)
  BY <1>7, FollowsOn DEF ps
<1> QED
  BY <1>1, <1>6, <1>8 DEF Follows

\* A press alone is decoded as what it is meant to be.
LEMMA DecodePress ==
  ASSUME NEW p \in KnownPresses
  PROVE  DecodeComplete(Bytes(p)) = <<Meant(p)>>
<1> DEFINE ps == <<p>>
<1>1. ps \in Seq(KnownPresses) /\ Len(ps) = 1 /\ ps[1] = p
  OBVIOUS
<1> HIDE DEF ps
<1>2. 0 \in 0..(Len(ps) - 1) /\ 1 \in 0..Len(ps) /\ 0 + 1 = 1
  BY <1>1
<1>3. Early(ps, 1) = Then(Early(ps, 0), Bytes(p)) /\ Early(ps, 0) = <<>>
  BY <1>1, <1>2, EarlyAndLate
<1>4. Then(<<>>, Bytes(p)) = Bytes(p)
  BY BytesAre, ConcatEmptySeq DEF Then
<1>5. DecodeComplete(Bytes(p)) = MeantOf(SubSeq(ps, 1, 1))
  BY <1>1, <1>2, <1>3, <1>4, EarlyAndLate
<1> DEFINE x == MeantOf(SubSeq(ps, 1, 1))
<1>6. x \in Seq(MeantKeys) /\ Len(x) = 1 /\ x[1] = Meant(p)
  <2>1. 1 \in 1..1
    OBVIOUS
  <2> QED
    BY <1>1, <1>2, <2>1, MeantParts
<1> HIDE DEF x
<1>7. x = <<Meant(p)>>
  BY <1>6, AsTuple
<1> QED
  BY <1>5, <1>7 DEF x

\* Held bytes that are all of the next press.
LEMMA FollowsFlush ==
  ASSUME NEW es \in Seq(KnownPresses), NEW got, NEW held \in Seq(AllBytes), NEW rest \in Seq(AllBytes),
         Follows(es, got, Then(held, rest)),
         held = <<>> \/ (Len(got) < Len(es) /\ Bytes(es[Len(got) + 1]) = held)
  PROVE  Follows(es, Then(got, DecodeComplete(held)), rest)
<1>1. PICK n \in 0..Len(es) : got = MeantOf(SubSeq(es, 1, n)) /\ Then(held, rest) = Late(es, n)
  BY DEF Follows
<1>2. Len(got) = n /\ got \in Seq(MeantKeys)
  BY <1>1, MeantParts
<1>3. CASE held = <<>>
  <2>1. Then(held, rest) = rest
    BY <1>3, ConcatEmptySeq DEF Then
  <2>2. DecodeComplete(held) = <<>>
    <3>1. <<>> \in Seq(KnownPresses) /\ 0 \in 0..Len(<<>>) /\ Len(<<>>) = 0
      OBVIOUS
    <3>2. Early(<<>>, 0) = <<>> /\ DecodeComplete(Early(<<>>, 0)) = MeantOf(SubSeq(<<>>, 1, 0))
      BY <3>1, EarlyAndLate
    <3>3. MeantOf(SubSeq(<<>>, 1, 0)) \in Seq(MeantKeys) /\ Len(MeantOf(SubSeq(<<>>, 1, 0))) = 0
      BY <3>1, MeantParts
    <3>4. MeantOf(SubSeq(<<>>, 1, 0)) = <<>>
      BY <3>3
    <3> QED
      BY <1>3, <3>2, <3>4
  <2>3. Then(got, <<>>) = got
    BY <1>2, ConcatEmptySeq DEF Then
  <2> QED
    BY <2>1, <2>2, <2>3
<1>4. CASE held # <<>>
  <2>1. n < Len(es) /\ Bytes(es[n + 1]) = held
    BY <1>2, <1>4
  <2>2. n \in 0..(Len(es) - 1) /\ n + 1 \in 0..Len(es) /\ n + 1 \in 1..(n + 1) /\ 1 \in 0..(Len(es) - n) /\ 0 \in 0..0 /\ 1 \in 1..1
    <3>1. Len(es) \in Nat
      OBVIOUS
    <3> QED
      BY <2>1, <3>1
  <2> DEFINE p == es[n + 1]
             next == Late(es, n + 1)
  <2>3. p \in KnownPresses /\ Late(es, n) = Then(Bytes(p), next) /\ next \in Seq(AllBytes)
    BY <2>2, EarlyAndLate
  <2> HIDE DEF next
  <2>4. Then(held, rest) = Then(held, next)
    BY <1>1, <2>1, <2>3
  <2>5. rest = next
    BY <2>3, <2>4, ThenCancels
  <2>6. DecodeComplete(held) = <<Meant(p)>>
    BY <2>1, <2>3, DecodePress
  <2>7. Then(got, <<Meant(p)>>) = MeantOf(SubSeq(es, 1, n + 1))
    <3> DEFINE ps == After(es, n)
               x == MeantOf(SubSeq(ps, 1, 1))
    <3>1. ps \in Seq(KnownPresses) /\ Len(ps) = Len(es) - n /\ \A i \in 1..(Len(es) - n) : ps[i] = es[n + i]
      BY PartsOfPresses
    <3> HIDE DEF ps
    <3>2. 1 \in 0..Len(ps) /\ 1 \in 1..(Len(es) - n)
      BY <2>2, <3>1
    <3>3. x \in Seq(MeantKeys) /\ Len(x) = 1 /\ x[1] = Meant(p)
      <4>1. ps[1] = p
        BY <3>1, <3>2
      <4> QED
        BY <2>2, <3>1, <3>2, <4>1, MeantParts
    <3> HIDE DEF x
    <3>4. x = <<Meant(p)>>
      BY <3>3, AsTuple
    <3>5. Then(MeantOf(SubSeq(es, 1, n)), x) = MeantOf(SubSeq(es, 1, n + 1))
      BY <2>2, FollowsOn DEF ps, x
    <3> QED
      BY <1>1, <3>4, <3>5
  <2> QED
    BY <2>2, <2>5, <2>6, <2>7 DEF Follows, next
<1> QED
  BY <1>3, <1>4

\* The keys that wait: those of presses, and the end of the input behind them.
Waiting(ks, d) == ks = d \/ ks = Then(d, <<"eof">>)

\* All three parts of the bytes that are on their way.
Moving == Then(Then(pending, chunk.bytes), wire)

\* KeysInOrder is not inductive: what is typed and where the end of the input
\* may be must be known too, and that it holds however the loop ended.
KeysInv ==
  /\ entered \in Seq(KnownPresses)
  /\ wire \in Seq(AllBytes) /\ pending \in Seq(AllBytes)
  /\ chunk \in [bytes : Seq(AllBytes), last : BOOLEAN]
  /\ chunk.last => closed /\ wire = <<>> /\ chunk.bytes = <<>>
  /\ handled \in Seq(KeyNames)
  /\ \E d \in Seq(KeyNames) :
       /\ Waiting(keys, d)
       /\ ~split => Follows(entered, Then(handled, d), Moving)

\* Concatenation with the empty sequence.
LEMMA Nothing ==
  ASSUME NEW S, NEW s \in Seq(S)
  PROVE  <<>> \in Seq(S) /\ Then(<<>>, s) = s /\ Then(s, <<>>) = s
BY ConcatEmptySeq DEF Then

\* A concatenation is a sequence.
LEMMA ThenSeq ==
  ASSUME NEW S, NEW s \in Seq(S), NEW t \in Seq(S)
  PROVE  Then(s, t) \in Seq(S)
BY ThenIs

\* The end of the input is not a key of a press.
LEMMA NoEof == "eof" \notin KeyNames
BY DEF KeyNames, Plain

\* At the start.
LEMMA KeysInit == ASSUME TerminalInit PROVE KeysInv
<1>1. /\ entered \in Ahead /\ wire = Sent(entered) /\ chunk = NoChunk
      /\ pending = <<>> /\ split = FALSE /\ keys = <<>> /\ handled = <<>>
  BY DEF TerminalInit
<1>2. entered \in Seq(KnownPresses)
  BY <1>1, TerminalAssumption
<1>3. wire \in Seq(AllBytes)
  BY <1>1, <1>2, SentIsSeq
<1>4. <<>> \in Seq(AllBytes) /\ <<>> \in Seq(KeyNames)
  OBVIOUS
<1>5. chunk.bytes = <<>> /\ chunk.last = FALSE /\ chunk \in [bytes : Seq(AllBytes), last : BOOLEAN]
  BY <1>1, <1>4 DEF NoChunk
<1>6. Moving = wire
  <2>1. Then(pending, chunk.bytes) = <<>>
    BY <1>1, <1>4, <1>5, Nothing
  <2> QED
    BY <1>3, <2>1, Nothing DEF Moving
<1>7. Then(handled, <<>>) = <<>>
  BY <1>1, <1>4, Nothing
<1>8. Follows(entered, Then(handled, <<>>), Moving)
  BY <1>1, <1>2, <1>6, <1>7, FollowsFirst
<1>9. Waiting(keys, <<>>)
  BY <1>1 DEF Waiting
<1> QED
  BY <1>1, <1>2, <1>3, <1>4, <1>5, <1>8, <1>9 DEF KeysInv

\* The keys handled after the next one, and what is left of those that wait.
Handed(h, ks) == IF Head(ks) = "eof" THEN h ELSE Append(h, Head(ks))
Leaves(h, ks, d) ==
  \E d2 \in Seq(KeyNames) : Waiting(Tail(ks), d2) /\ Then(Handed(h, ks), d2) = Then(h, d)

\* The next key moves from those that wait to those handled.
LEMMA TakesFirst ==
  ASSUME NEW h \in Seq(KeyNames), NEW d \in Seq(KeyNames), NEW ks, ks # <<>>, Waiting(ks, d)
  PROVE  Handed(h, ks) \in Seq(KeyNames) /\ Leaves(h, ks, d)
<1> DEFINE e == <<"eof">>
           h2 == Handed(h, ks)
<1>0. CASE d = <<>>
  <2>1. ks = e
    <3>1. Then(<<>>, e) = e
      <4>1. e \in Seq({"eof"})
        OBVIOUS
      <4> HIDE DEF e
      <4> QED
        BY <4>1, Nothing
    <3> QED
      BY <1>0, <3>1 DEF Waiting
  <2>2. Head(ks) = "eof" /\ Tail(ks) = <<>>
    BY <2>1
  <2>3. h2 = h /\ Waiting(Tail(ks), d)
    BY <1>0, <2>2 DEF Waiting, Handed
  <2> QED
    BY <2>3 DEF Leaves
<1>1. CASE d # <<>>
  <2> DEFINE x == Head(d)
             d2 == Tail(d)
             S == KeyNames \cup {"eof"}
             one == <<x>>
  <2>1. x \in KeyNames /\ d2 \in Seq(KeyNames)
    BY <1>1, HeadTailProperties
  <2>2. d = Then(one, d2)
    <3>1. 1 \in 1..Len(d) /\ Len(d) \in 1..Len(d)
      BY <1>1, EmptySeq
    <3>2. SubSeq(d, 1, Len(d)) = <<d[1]>> \o SubSeq(d, 1 + 1, Len(d))
      BY <3>1, SubSeqRecursiveFirst
    <3>3. SubSeq(d, 1, Len(d)) = d
      BY SubSeqFull
    <3>4. d2 = SubSeq(d, 2, Len(d))
      BY <1>1, TailIsSubSeq
    <3>5. x = d[1] /\ 1 + 1 = 2
      BY <1>1
    <3> HIDE DEF x, d2
    <3> QED
      BY <3>2, <3>3, <3>4, <3>5 DEF Then
  <2>3. Head(ks) = x /\ Waiting(Tail(ks), d2)
    <3>1. CASE ks = d
      BY <3>1 DEF Waiting
    <3>2. CASE ks = Then(d, e)
      <4>1. d \in Seq(S) /\ e \in Seq(S) /\ one \in Seq(S) /\ d2 \in Seq(S) /\ Len(one) = 1 /\ one[1] = x
        <5>1. "eof" \in S /\ KeyNames \subseteq S
          OBVIOUS
        <5> HIDE DEF S
        <5>2. e \in Seq(S)
          BY <5>1
        <5>3. x \in S
          BY <2>1, <5>1
        <5>4. one \in Seq(S) /\ Len(one) = 1 /\ one[1] = x
          BY <5>3
        <5>5. d \in Seq(S) /\ d2 \in Seq(S)
          BY <2>1, <5>1, SeqMonotonic
        <5> QED
          BY <5>2, <5>3, <5>4, <5>5
      <4> HIDE DEF S, e, x, d2, one
      <4>2. ks = Then(one, Then(d2, e))
        <5>1. Then(one, Then(d2, e)) = Then(Then(one, d2), e)
          BY <4>1, ThenAssociates
        <5> QED
          BY <2>2, <3>2, <5>1
      <4> DEFINE r == Then(d2, e)
      <4>3. r \in Seq(S)
        BY <4>1, ThenSeq
      <4> HIDE DEF r
      <4>4. Joined(S, one, r, ks)
        BY <4>1, <4>2, <4>3, Joins DEF Then, r
      <4>5. Head(ks) = x /\ Tail(ks) = r
        <5>1. Len(one) = 1 /\ one[1] = x
          BY <4>1
        <5>2. ks \in Seq(S) /\ Len(ks) = 1 + Len(r) /\ ks[1] = x /\ Len(r) \in Nat
          BY <4>4, <5>1 DEF Joined
        <5>3. \A i \in 1..Len(r) : ks[1 + i] = r[i]
          BY <4>4, <5>1 DEF Joined
        <5>4. Tail(ks) \in Seq(S) /\ Len(Tail(ks)) = Len(r) /\ \A i \in 1..Len(r) : Tail(ks)[i] = ks[i + 1]
          <6>1. /\ Tail(ks) \in Seq(S) /\ Len(Tail(ks)) = Len(ks) - 1
                /\ \A i \in 1..Len(Tail(ks)) : Tail(ks)[i] = ks[i + 1]
            BY <5>2, HeadTailProperties
          <6>2. Len(ks) - 1 = Len(r)
            BY <5>2
          <6> QED
            BY <6>1, <6>2
        <5> DEFINE y == Tail(ks)
        <5>5. y \in Seq(S) /\ Len(y) = Len(r) /\ \A i \in 1..Len(r) : y[i] = ks[i + 1]
          BY <5>4
        <5> HIDE DEF y
        <5>6. \A i \in 1..Len(r) : y[i] = r[i]
          <6>1. \A i \in 1..Len(r) : 1 + i = i + 1
            BY <5>2
          <6> QED
            BY <5>3, <5>5, <6>1
        <5>7. y = r
          BY <4>3, <5>2, <5>5, <5>6, SameSeqs
        <5>8. Head(ks) = ks[1]
          <6>1. ks \in Seq(S) /\ ks # <<>>
            BY <5>2
          <6> QED
            BY <6>1
        <5> QED
          BY <5>2, <5>7, <5>8 DEF y
      <4> QED
        BY <4>5 DEF Waiting, r, e
    <3> QED
      BY <3>1, <3>2 DEF Waiting
  <2>4. h2 = Append(h, x)
    <3>1. x # "eof"
      BY <2>1, NoEof
    <3> HIDE DEF x
    <3> QED
      BY <2>3, <3>1 DEF Handed
  <2> HIDE DEF x, d2
  <2>5. h2 \in Seq(KeyNames) /\ h2 = Then(h, one) /\ one \in Seq(KeyNames)
    <3>1. h2 \in Seq(KeyNames) /\ h2 = h \o <<x>>
      BY <2>1, <2>4, AppendProperties, AppendIsConcat
    <3> QED
      BY <2>1, <3>1 DEF Then
  <2> HIDE DEF one
  <2>6. Then(Then(h, one), d2) = Then(h, Then(one, d2))
    BY <2>1, <2>5, ThenAssociates
  <2>7. Then(h2, d2) = Then(h, d)
    BY <2>2, <2>5, <2>6
  <2> QED
    BY <2>1, <2>3, <2>5, <2>7 DEF Leaves
<1> QED
  BY <1>0, <1>1

\* A key that waits is told from the end of the input.
LEMMA LastIsThere ==
  ASSUME NEW d \in Seq(KeyNames)
  PROVE  /\ Then(d, <<"eof">>) # <<>>
         /\ Then(d, <<"eof">>)[Len(Then(d, <<"eof">>))] = "eof"
         /\ SubSeq(Then(d, <<"eof">>), 1, Len(Then(d, <<"eof">>)) - 1) = d
<1> DEFINE S == KeyNames \cup {"eof"}
           e == <<"eof">>
           u == Then(d, e)
<1>1. d \in Seq(S) /\ e \in Seq(S) /\ Len(e) = 1 /\ e[1] = "eof"
  <2>1. "eof" \in S /\ KeyNames \subseteq S
    OBVIOUS
  <2> HIDE DEF S
  <2>2. d \in Seq(S)
    BY <2>1, SeqMonotonic
  <2> QED
    BY <2>1, <2>2
<1> HIDE DEF S, e
<1>2. Joined(S, d, e, u)
  BY <1>1, Joins DEF Then
<1> HIDE DEF u
<1>3. u \in Seq(S) /\ Len(d) \in Nat /\ Len(u) = Len(d) + 1 /\ u[Len(d) + 1] = "eof"
  <2>1. 1 \in 1..1
    OBVIOUS
  <2> QED
    BY <1>1, <1>2, <2>1 DEF Joined
<1>4. Part(u, 1, Len(d)) = d
  BY <1>1, <1>2, JoinedHead
<1>5. Len(u) - 1 = Len(d) /\ Len(u) # 0
  BY <1>3
<1>6. u # <<>>
  BY <1>5
<1> QED
  BY <1>3, <1>4, <1>5, <1>6 DEF Part, u, e

\* The keys of presses that wait.
LEMMA DecodedIs ==
  ASSUME NEW d \in Seq(KeyNames), Waiting(keys, d)
  PROVE  Decoded = d
<1>1. CASE keys = d
  <2>1. d # <<>> => d[Len(d)] \in KeyNames
    OBVIOUS
  <2> QED
    BY <1>1, <2>1, NoEof DEF Decoded
<1>2. CASE keys = Then(d, <<"eof">>)
  BY <1>2, LastIsThere DEF Decoded
<1> QED
  BY <1>1, <1>2 DEF Waiting

\* What the loop's handlers have in common.
LEMMA HandleTakes ==
  ASSUME Handle
  PROVE  /\ keys # <<>> /\ keys' = Tail(keys)
         /\ handled' = IF Head(keys) = "eof" THEN handled ELSE Append(handled, Head(keys))
         /\ UNCHANGED inputVars
<1>1. \E ks : Takes(ks)
  <2>1. CASE Quit
    BY <2>1 DEF Quit
  <2>2. CASE HandleMenu
    BY <2>2 DEF HandleMenu
  <2>3. CASE Leave
    BY <2>3 DEF Leave
  <2>4. CASE HandleFeatures
    BY <2>4 DEF HandleFeatures
  <2>5. CASE HandleScroll
    BY <2>5 DEF HandleScroll
  <2> QED
    BY <2>1, <2>2, <2>3, <2>4, <2>5 DEF Handle
<1>2. PICK ks : Takes(ks)
  BY <1>1
<1> QED
  BY <1>2 DEF Takes

\* Every step keeps it: reads and presses move bytes, the decoder turns bytes
\* into keys, a handler takes one.
LEMMA KeysStep == ASSUME KeysInv, [TerminalNext]_TerminalVars PROVE KeysInv'
<1>1. /\ entered \in Seq(KnownPresses) /\ wire \in Seq(AllBytes) /\ pending \in Seq(AllBytes)
      /\ chunk \in [bytes : Seq(AllBytes), last : BOOLEAN]
      /\ chunk.last => closed /\ wire = <<>> /\ chunk.bytes = <<>>
      /\ handled \in Seq(KeyNames)
  BY DEF KeysInv
<1>2. PICK d \in Seq(KeyNames) :
        Waiting(keys, d) /\ (~split => Follows(entered, Then(handled, d), Moving))
  BY DEF KeysInv
<1>3. chunk.bytes \in Seq(AllBytes) /\ <<>> \in Seq(AllBytes) /\ <<>> \in Seq(KeyNames)
  BY <1>1
<1>4. ASSUME UNCHANGED <<inputVars, keys, handled>> PROVE KeysInv'
  BY <1>1, <1>2, <1>4 DEF KeysInv, Moving, inputVars
<1>5. CASE Press
  <2>1. PICK p \in Presses : entered' = Append(entered, p) /\ wire' = wire \o Bytes(p)
    BY <1>5 DEF Press
  <2>2. ~closed /\ UNCHANGED <<closed, chunk, pending, split, keys, handled>>
    BY <1>5 DEF Press
  <2>3. p \in KnownPresses
    BY TerminalAssumption
  <2>4. Bytes(p) \in Seq(AllBytes)
    BY <2>3, BytesAre
  <2>5. wire' = Then(wire, Bytes(p)) /\ wire' \in Seq(AllBytes)
    <3>1. wire' = Then(wire, Bytes(p))
      BY <2>1 DEF Then
    <3> QED
      BY <1>1, <2>4, <3>1, ThenSeq
  <2>6. entered' \in Seq(KnownPresses)
    BY <1>1, <2>1, <2>3, AppendProperties
  <2>7. Moving' = Then(Moving, Bytes(p))
    <3> DEFINE x == Then(pending, chunk.bytes)
               b == Bytes(p)
    <3>1. x \in Seq(AllBytes)
      BY <1>1, <1>3, ThenSeq
    <3>2. Then(pending', chunk'.bytes) = x
      BY <2>2
    <3>3. b \in Seq(AllBytes) /\ wire' = Then(wire, b)
      BY <2>4, <2>5
    <3> HIDE DEF x, b
    <3>4. Then(x, Then(wire, b)) = Then(Then(x, wire), b)
      BY <1>1, <3>1, <3>3, ThenAssociates
    <3> QED
      BY <3>2, <3>3, <3>4 DEF Moving, x, b
  <2>8. ~split' => Follows(entered', Then(handled', d), Moving')
    <3>1. SUFFICES ASSUME ~split' PROVE Follows(entered', Then(handled', d), Moving')
      OBVIOUS
    <3>2. Follows(entered, Then(handled, d), Moving)
      BY <1>2, <2>2, <3>1
    <3>3. Follows(Append(entered, p), Then(handled, d), Then(Moving, Bytes(p)))
      BY <1>1, <2>3, <3>2, FollowsPress
    <3> QED
      BY <2>1, <2>2, <2>7, <3>3
  <2>9. Waiting(keys', d)
    BY <1>2, <2>2
  <2>10. chunk' \in [bytes : Seq(AllBytes), last : BOOLEAN] /\ pending' \in Seq(AllBytes)
         /\ handled' \in Seq(KeyNames) /\ ~chunk'.last
    BY <1>1, <2>2
  <2> QED
    BY <2>5, <2>6, <2>8, <2>9, <2>10 DEF KeysInv
<1>6. CASE Close
  <2>1. closed' /\ UNCHANGED <<entered, wire, chunk, pending, split, keys, handled>>
    BY <1>6 DEF Close
  <2> QED
    BY <1>1, <1>2, <2>1 DEF KeysInv, Moving
<1>7. CASE Resize
  BY <1>4, <1>7 DEF Resize
<1>8. CASE ReadLoop
  <2>1. chunk = NoChunk /\ UNCHANGED <<entered, closed, pending, split, keys, handled>>
    BY <1>8 DEF ReadLoop
  <2>2. chunk.bytes = <<>>
    BY <2>1 DEF NoChunk
  <2>3. Moving = Then(pending, wire)
    <3>1. Then(pending, <<>>) = pending
      BY <1>1, Nothing
    <3> QED
      BY <2>2, <3>1 DEF Moving
  <2>4. ASSUME /\ chunk' \in [bytes : Seq(AllBytes), last : BOOLEAN] /\ wire' \in Seq(AllBytes)
               /\ Then(chunk'.bytes, wire') = wire
               /\ chunk'.last => closed /\ wire' = <<>> /\ chunk'.bytes = <<>>
        PROVE  KeysInv'
    <3>1. Moving' = Moving
      <4>1. Then(pending, Then(chunk'.bytes, wire')) = Then(Then(pending, chunk'.bytes), wire')
        <5>1. chunk'.bytes \in Seq(AllBytes)
          BY <2>4
        <5> QED
          BY <1>1, <2>4, <5>1, ThenAssociates
      <4> QED
        BY <2>1, <2>3, <2>4, <4>1 DEF Moving
    <3> QED
      BY <1>1, <1>2, <2>1, <2>4, <3>1 DEF KeysInv
  <2>5. CASE \E n \in 1..Len(wire) : /\ chunk' = [bytes |-> SubSeq(wire, 1, n), last |-> FALSE]
                                     /\ wire' = SubSeq(wire, n + 1, Len(wire))
    <3>1. PICK n \in 1..Len(wire) : /\ chunk' = [bytes |-> SubSeq(wire, 1, n), last |-> FALSE]
                                    /\ wire' = SubSeq(wire, n + 1, Len(wire))
      BY <2>5
    <3> DEFINE s == wire
    <3>2. /\ n \in 0..Len(wire) /\ n + 1 \in 1..(Len(wire) + 1) /\ 1 \in 1..(Len(wire) + 1)
          /\ Len(wire) \in 0..Len(wire) /\ n \in (1 - 1)..Len(wire) /\ Len(wire) \in n..Len(wire)
      <4>1. Len(wire) \in Nat
        BY <1>1
      <4> QED
        BY <4>1
    <3>3. Part(wire, 1, n) \in Seq(AllBytes) /\ Part(wire, n + 1, Len(wire)) \in Seq(AllBytes)
      BY <1>1, <3>2, PartIsSeq
    <3>4. Then(Part(wire, 1, n), Part(wire, n + 1, Len(wire))) = wire
      <4>1. SubSeq(wire, 1, n) \o SubSeq(wire, n + 1, Len(wire)) = SubSeq(wire, 1, Len(wire))
        BY <1>1, <3>2, ConcatAdjacentSubSeq
      <4>2. SubSeq(wire, 1, Len(wire)) = wire
        BY <1>1, SubSeqFull
      <4> QED
        BY <4>1, <4>2 DEF Then, Part
    <3>5. chunk' = [bytes |-> Part(wire, 1, n), last |-> FALSE] /\ wire' = Part(wire, n + 1, Len(wire))
      BY <3>1 DEF Part
    <3>6. chunk'.bytes = Part(wire, 1, n) /\ chunk'.last = FALSE
          /\ chunk' \in [bytes : Seq(AllBytes), last : BOOLEAN]
      BY <3>3, <3>5
    <3> QED
      BY <2>4, <3>3, <3>4, <3>5, <3>6
  <2>6. CASE wire = <<>> /\ closed /\ chunk' = [NoChunk EXCEPT !.last = TRUE] /\ UNCHANGED wire
    <3>1. chunk' = [bytes |-> <<>>, last |-> TRUE]
      BY <2>6 DEF NoChunk
    <3>2. chunk'.bytes = <<>> /\ chunk' \in [bytes : Seq(AllBytes), last : BOOLEAN]
      BY <1>3, <3>1
    <3>3. Then(<<>>, <<>>) = <<>>
      BY <1>3, Nothing
    <3> QED
      BY <1>1, <2>4, <2>6, <3>2, <3>3
  <2> QED
    BY <1>8, <2>5, <2>6 DEF ReadLoop
<1>9. CASE TakeChunk
  <2> DEFINE got == Decode(pending, chunk.bytes)
  <2>1. /\ keys = <<>> /\ chunk' = NoChunk
        /\ UNCHANGED <<entered, wire, closed, handled>>
        /\ IF chunk.last
           THEN /\ keys' = got.keys \o DecodeComplete(got.held) \o <<"eof">>
                /\ pending' = <<>> /\ split' = (split \/ Cuts(got.held, handled \o got.keys))
           ELSE keys' = got.keys /\ pending' = got.held /\ UNCHANGED split
    BY <1>9 DEF TakeChunk, Waits
  <2>2. d = <<>>
    <3>1. CASE keys = d
      BY <2>1, <3>1
    <3>2. CASE keys = Then(d, <<"eof">>)
      <4>1. Then(d, <<"eof">>) = <<>>
        BY <2>1, <3>2
      <4> QED
        BY <4>1, LastIsThere
    <3> QED
      BY <1>2, <3>1, <3>2 DEF Waiting
  <2>3. Then(handled, d) = handled
    BY <1>1, <2>2, Nothing
  <2>4. got.keys \in Seq(KeyNames) /\ got.held \in Seq(AllBytes)
    BY <1>1, <1>3, DecodeGives
  <2>5. ASSUME ~split PROVE Follows(entered, Then(handled, got.keys), Then(got.held, wire))
    <3>1. Follows(entered, handled, Then(Then(pending, chunk.bytes), wire))
      BY <1>2, <2>3, <2>5 DEF Moving
    <3> QED
      BY <1>1, <1>3, <3>1, FollowsDecode
  <2> HIDE DEF got
  <2>6. chunk'.bytes = <<>> /\ ~chunk'.last /\ chunk' \in [bytes : Seq(AllBytes), last : BOOLEAN]
    BY <1>3, <2>1 DEF NoChunk
  <2>7. CASE ~chunk.last
    <3>1. keys' = got.keys /\ pending' = got.held /\ split' = split
      BY <2>1, <2>7
    <3>2. Moving' = Then(got.held, wire)
      <4>1. Then(got.held, <<>>) = got.held
        BY <2>4, Nothing
      <4> QED
        BY <2>1, <2>6, <3>1, <4>1 DEF Moving
    <3>3. ~split' => Follows(entered', Then(handled', got.keys), Moving')
      BY <2>1, <2>5, <3>1, <3>2
    <3>4. Waiting(keys', got.keys)
      BY <3>1 DEF Waiting
    <3> QED
      BY <1>1, <2>1, <2>4, <2>6, <3>1, <3>3, <3>4 DEF KeysInv
  <2>8. CASE chunk.last
    <3> DEFINE more == DecodeComplete(got.held)
               all == Then(got.keys, more)
    <3>1. pending' = <<>> /\ split' = (split \/ Cuts(got.held, Then(handled, got.keys)))
          /\ keys' = Then(all, <<"eof">>)
      BY <2>1, <2>8 DEF Then
    <3>2. wire = <<>>
      BY <1>1, <2>8
    <3>3. more \in Seq(KeyNames)
      BY <2>4, KeysAreNames
    <3>4. all \in Seq(KeyNames)
      BY <2>4, <3>3, ThenSeq
    <3>5. Moving' = <<>>
      <4>1. Then(<<>>, <<>>) = <<>>
        BY <1>3, Nothing
      <4> QED
        BY <2>1, <2>6, <3>1, <3>2, <4>1 DEF Moving
    <3>6. ASSUME ~split' PROVE Follows(entered, Then(handled, all), <<>>)
      <4>1. ~split /\ ~Cuts(got.held, Then(handled, got.keys))
        BY <3>1, <3>6
      <4> DEFINE x == Then(handled, got.keys)
      <4>2. Follows(entered, x, Then(got.held, <<>>))
        BY <2>5, <3>2, <4>1
      <4>3. x \in Seq(KeyNames)
        BY <1>1, <2>4, ThenSeq
      <4>4. ~Cuts(got.held, x)
        BY <4>1
      <4> HIDE DEF x
      <4>5. got.held = <<>> \/ (Len(x) < Len(entered) /\ Bytes(entered[Len(x) + 1]) = got.held)
        <5>1. Len(x) \in Nat /\ Len(entered) \in Nat
          BY <1>1, <4>3
        <5> QED
          BY <4>4, <5>1 DEF Cuts
      <4>6. Follows(entered, Then(x, more), <<>>)
        BY <1>1, <1>3, <2>4, <4>2, <4>5, FollowsFlush
      <4>7. Then(x, more) = Then(handled, all)
        <5> HIDE DEF more
        <5> QED
          BY <1>1, <2>4, <3>3, ThenAssociates DEF x
      <4> QED
        BY <4>6, <4>7
    <3> HIDE DEF all
    <3>7. Waiting(keys', all)
      BY <3>1 DEF Waiting
    <3>8. ~split' => Follows(entered', Then(handled', all), Moving')
      BY <2>1, <3>5, <3>6
    <3> QED
      BY <1>1, <1>3, <2>1, <2>6, <3>1, <3>4, <3>7, <3>8 DEF KeysInv
  <2> QED
    BY <2>7, <2>8
<1>10. CASE Flush
  <2>1. /\ keys = <<>> /\ keys' = DecodeComplete(pending) /\ pending' = <<>>
        /\ split' = (split \/ Cuts(pending, handled))
        /\ UNCHANGED <<entered, wire, closed, chunk, handled>>
    BY <1>10 DEF Flush, Waits
  <2>2. d = <<>>
    <3>1. CASE keys = d
      BY <2>1, <3>1
    <3>2. CASE keys = Then(d, <<"eof">>)
      <4>1. Then(d, <<"eof">>) = <<>>
        BY <2>1, <3>2
      <4> QED
        BY <4>1, LastIsThere
    <3> QED
      BY <1>2, <3>1, <3>2 DEF Waiting
  <2> DEFINE more == DecodeComplete(pending)
             rest == Then(chunk.bytes, wire)
  <2>3. more \in Seq(KeyNames) /\ rest \in Seq(AllBytes)
    BY <1>1, <1>3, KeysAreNames, ThenSeq
  <2>4. Moving = Then(pending, rest) /\ Moving' = rest
    <3>1. Then(pending, Then(chunk.bytes, wire)) = Then(Then(pending, chunk.bytes), wire)
      BY <1>1, <1>3, ThenAssociates
    <3>2. Then(<<>>, chunk.bytes) = chunk.bytes
      BY <1>3, Nothing
    <3> QED
      BY <2>1, <3>1, <3>2 DEF Moving
  <2>5. ASSUME ~split' PROVE Follows(entered, Then(handled, more), rest)
    <3>1. ~split /\ ~Cuts(pending, handled)
      BY <2>1, <2>5
    <3>2. pending = <<>> \/ (Len(handled) < Len(entered) /\ Bytes(entered[Len(handled) + 1]) = pending)
      <4>1. Len(handled) \in Nat /\ Len(entered) \in Nat
        BY <1>1
      <4> QED
        BY <3>1, <4>1 DEF Cuts
    <3>3. Then(handled, d) = handled
      BY <1>1, <2>2, Nothing
    <3>4. Follows(entered, handled, Then(pending, rest))
      BY <1>2, <2>4, <3>1, <3>3
    <3> QED
      BY <1>1, <2>3, <3>2, <3>4, FollowsFlush
  <2>6. Waiting(keys', more)
    BY <2>1 DEF Waiting
  <2>7. ~split' => Follows(entered', Then(handled', more), Moving')
    BY <2>1, <2>4, <2>5
  <2> HIDE DEF more, rest
  <2> QED
    BY <1>1, <1>3, <2>1, <2>3, <2>6, <2>7 DEF KeysInv
<1>11. CASE Handle
  <2>1. /\ keys # <<>> /\ keys' = Tail(keys)
        /\ handled' = IF Head(keys) = "eof" THEN handled ELSE Append(handled, Head(keys))
        /\ UNCHANGED inputVars
    BY <1>11, HandleTakes
  <2>2. /\ handled' \in Seq(KeyNames)
        /\ \E d2 \in Seq(KeyNames) : Waiting(Tail(keys), d2) /\ Then(handled', d2) = Then(handled, d)
    <3>1. Handed(handled, keys) \in Seq(KeyNames) /\ Leaves(handled, keys, d)
      BY <1>1, <1>2, <2>1, TakesFirst
    <3>2. handled' = Handed(handled, keys)
      BY <2>1 DEF Handed
    <3> QED
      BY <3>1, <3>2 DEF Leaves
  <2>3. PICK d2 \in Seq(KeyNames) : Waiting(Tail(keys), d2) /\ Then(handled', d2) = Then(handled, d)
    BY <2>2
  <2>4. Waiting(keys', d2) /\ Moving' = Moving
    BY <2>1, <2>3 DEF Moving, inputVars
  <2>5. ~split' => Follows(entered', Then(handled', d2), Moving')
    BY <1>2, <2>1, <2>3, <2>4 DEF inputVars
  <2>6. UNCHANGED <<entered, wire, closed, chunk, pending>>
    BY <2>1 DEF inputVars
  <2> QED
    BY <1>1, <2>2, <2>4, <2>5, <2>6 DEF KeysInv
<1>12. CASE UNCHANGED TerminalVars
  BY <1>4, <1>12 DEF TerminalVars
<1>13. CASE Planned
  BY <1>4, <1>13 DEF Planned
<1> QED
  BY <1>5, <1>6, <1>7, <1>8, <1>9, <1>10, <1>11, <1>12, <1>13 DEF TerminalNext

\* It says more than KeysInOrder.
LEMMA KeysAreInOrder == ASSUME KeysInv PROVE KeysInOrder
<1>1. PICK d \in Seq(KeyNames) :
        Waiting(keys, d) /\ (~split => Follows(entered, Then(handled, d), Moving))
  BY DEF KeysInv
<1>2. Decoded = d
  BY <1>1, DecodedIs
<1> SUFFICES ASSUME ~split
             PROVE  LET got == handled \o Decoded IN
                    /\ Len(got) <= Len(entered)
                    /\ \A i \in DOMAIN got : got[i] = Meant(entered[i])
                    /\ pending \o chunk.bytes \o wire = Sent(SubSeq(entered, Len(got) + 1, Len(entered)))
  BY DEF KeysInOrder
<1> DEFINE got == handled \o Decoded
<1>3. got = Then(handled, d)
  BY <1>2 DEF Then
<1>4. PICK n \in 0..Len(entered) : got = MeantOf(SubSeq(entered, 1, n)) /\ Moving = Late(entered, n)
  BY <1>1, <1>3 DEF Follows
<1>5. entered \in Seq(KnownPresses)
  BY DEF KeysInv
<1> HIDE DEF got
<1>6. got \in Seq(MeantKeys) /\ Len(got) = n /\ \A i \in 1..n : got[i] = Meant(entered[i])
  BY <1>4, <1>5, MeantParts
<1>7. DOMAIN got = 1..n
  BY <1>6
<1>8. Moving = Sent(SubSeq(entered, Len(got) + 1, Len(entered)))
  BY <1>4, <1>6 DEF Late, After
<1>9. n <= Len(entered)
  BY <1>5
<1> QED
  BY <1>6, <1>7, <1>8, <1>9 DEF Moving, Then, got

\* However the bytes are cut into reads, for any presses and any number of
\* them, the keys are the presses in order (KeysInOrder).
THEOREM KeysStayInOrder == TerminalSpec => []KeysInOrder
<1>1. TerminalInit => KeysInv
  BY KeysInit
<1>2. KeysInv /\ [TerminalNext]_TerminalVars => KeysInv'
  BY KeysStep
<1>3. KeysInv => KeysInOrder
  BY KeysAreInOrder
<1> QED
  BY <1>1, <1>2, <1>3, PTL DEF TerminalSpec
=============================================================================
