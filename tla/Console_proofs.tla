--------------------------- MODULE Console_proofs ---------------------------
(***************************************************************************)
(* The console for screens of every size.  The cursor is out of place only *)
(* in the middle of the kernel's putch: past the last column between the   *)
(* store of cursor_x and the wrap, on the last line between newline and    *)
(* scroll.  A key echoed at such a moment puts it back in place.           *)
(***************************************************************************)
EXTENDS Console, TLAPS

Wrapping == {"wrap", "line_start"}
Scrolling == {"scroll_test", "top"}

\* On the last line only until the scroll that follows.
LastLineIsLeft == cursor.y = Rows - 1 => pc \in Scrolling

\* Past the last column only after a tab, or until the wrap that follows.
EdgeIsLeft ==
    /\ cursor.x >= Columns /\ edge = "kept" => cursor.x = Columns /\ pc \in Wrapping
    /\ cursor.x = MaxColumn + 1 => pc \in Wrapping

LoadedInPlace == reg.x < Columns \/ reg.edge = "passed"

\* On the screen, or just past the end of a line that is not the last.
InPlace(d) ==
    \/ d.x < Columns /\ d.y <= Rows - 1
    \/ d.x = Columns /\ d.y <= Rows - 2

DrawnInPlace ==
    /\ drawn \in [x : Nat, y : Nat, edge : Edge]
    /\ drawn.edge = "kept" => InPlace(drawn)

ConsoleInv ==
    /\ ConsoleTypeOK
    /\ LastLineIsLeft
    /\ EdgeIsLeft
    /\ LoadedInPlace
    /\ DrawnInPlace

-----------------------------------------------------------------------------

\* A tab moves to the right.
LEMMA TabAdvances ==
    ASSUME NEW x \in Nat, NEW m \in Nat
    PROVE  AfterTab(x, m) \in Nat /\ AfterTab(x, m) > x
<1>1. m % TabStop \in 0 .. TabStop - 1
  BY ConsoleAssumption
<1>. QED BY <1>1, ConsoleAssumption DEF AfterTab

\* A glyph in place lies in the frame buffer.
LEMMA PlaceInFrame ==
    ASSUME NEW d \in [x : Nat, y : Nat, edge : Edge], InPlace(d)
    PROVE  LastPixelRow(d) < Rows * FontHeight
<1> USE ConsoleAssumption DEF Edge
<1>1. CASE d.x < Columns /\ d.y <= Rows - 1
  <2>1. d.x \div Columns = 0
    BY <1>1
  <2>2. (d.y + 1) * FontHeight <= Rows * FontHeight
    BY <1>1
  <2>3. (d.y + 1) * FontHeight = d.y * FontHeight + FontHeight
    OBVIOUS
  <2>4. d.y * FontHeight \in Nat /\ Rows * FontHeight \in Nat
    OBVIOUS
  <2>. QED BY <2>1, <2>2, <2>3, <2>4 DEF LastPixelRow
<1>2. CASE d.x = Columns /\ d.y <= Rows - 2
  <2>1. d.x \div Columns = 1
    BY <1>2
  <2>2. (d.y + 2) * FontHeight <= Rows * FontHeight
    BY <1>2
  <2>3. (d.y + 2) * FontHeight = d.y * FontHeight + 2 * FontHeight
    OBVIOUS
  <2>4. d.y * FontHeight \in Nat /\ Rows * FontHeight \in Nat
    OBVIOUS
  <2>. QED BY <2>1, <2>2, <2>3, <2>4 DEF LastPixelRow
<1>. QED BY <1>1, <1>2 DEF InPlace

-----------------------------------------------------------------------------
(* A character echoed in one step *)

LEMMA MovedInPlace ==
    ASSUME ConsoleInv, NEW ch \in Echoed,
           ch = "tab" => AfterTab(cursor.x, cursor.x) <= MaxColumn
    PROVE  LET c == Scrolled(Moved(ch, cursor))
           IN  /\ c \in [x : 0 .. MaxColumn + 1, y : 0 .. Rows - 2]
               /\ ch # "backspace" => c.x <= MaxColumn
               /\ ch = "backspace" => c.x <= cursor.x /\ (c.x > 0 => c.x < cursor.x)
               /\ ch \in {"glyph", "newline", "return"} => c.x < Columns
               /\ ch = "tab" => c.x > 0
<1> USE ConsoleAssumption DEF Edge, EdgeAfterTab
<1>1. /\ cursor.x \in 0 .. MaxColumn + 1 /\ cursor.y \in 0 .. Rows - 1
      /\ cursor = [x |-> cursor.x, y |-> cursor.y]
  BY DEF ConsoleInv, ConsoleTypeOK
<1>2. CASE ch = "tab"
  <2>1. AfterTab(cursor.x, cursor.x) \in Nat /\ AfterTab(cursor.x, cursor.x) > 0
    BY <1>1, TabAdvances
  <2>2. Moved(ch, cursor) = [x |-> AfterTab(cursor.x, cursor.x), y |-> cursor.y]
    BY <1>1, <1>2 DEF Moved
  <2>. QED BY <1>1, <1>2, <2>1, <2>2 DEF Scrolled
<1>3. CASE ch = "backspace"
  <2>1. Moved(ch, cursor) = [x |-> IF cursor.x > 0 THEN cursor.x - 1 ELSE cursor.x,
                             y |-> cursor.y]
    BY <1>1, <1>3 DEF Moved, AfterBackspace
  <2>. QED BY <1>1, <1>3, <2>1 DEF Scrolled
<1>4. CASE ch = "glyph"
  <2>1. Moved(ch, cursor) = IF cursor.x + 1 >= Columns
                            THEN [x |-> 0, y |-> cursor.y + 1]
                            ELSE [x |-> cursor.x + 1, y |-> cursor.y]
    BY <1>1, <1>4 DEF Moved, Wrapped, NextLine
  <2>. QED BY <1>1, <1>4, <2>1 DEF Scrolled
<1>5. CASE ch = "newline"
  <2>1. Moved(ch, cursor) = [x |-> 0, y |-> cursor.y + 1]
    BY <1>1, <1>5 DEF Moved, NextLine
  <2>. QED BY <1>1, <1>5, <2>1 DEF Scrolled
<1>6. CASE ch = "return"
  <2>1. Moved(ch, cursor) = [x |-> 0, y |-> cursor.y]
    BY <1>1, <1>6 DEF Moved
  <2>. QED BY <1>1, <1>6, <2>1 DEF Scrolled
<1>. QED BY <1>2, <1>3, <1>4, <1>5, <1>6 DEF Echoed, BehindTheTable

LEMMA PutchAtOnceInv ==
    ASSUME ConsoleInv, NEW ch \in Echoed, PutchAtOnce(ch), UNCHANGED mainline
    PROVE  /\ cursor' \in [x : 0 .. MaxColumn + 1, y : 0 .. Rows - 2]
           /\ edge' \in Edge
           /\ LastLineIsLeft' /\ EdgeIsLeft' /\ LoadedInPlace' /\ DrawnInPlace'
<1> USE ConsoleAssumption DEF Edge, EdgeAfterTab
<1>1. /\ cursor' \in [x : 0 .. MaxColumn + 1, y : 0 .. Rows - 2]
      /\ ch # "backspace" => cursor'.x <= MaxColumn
      /\ ch = "backspace" =>
             cursor'.x <= cursor.x /\ (cursor'.x > 0 => cursor'.x < cursor.x)
      /\ ch \in {"glyph", "newline", "return"} => cursor'.x < Columns
      /\ ch = "tab" => cursor'.x > 0
  BY MovedInPlace DEF PutchAtOnce
<1>2. cursor.x \in 0 .. MaxColumn + 1 /\ cursor.y \in 0 .. Rows - 1
      /\ edge \in Edge /\ pc' = pc /\ reg' = reg
  BY DEF ConsoleInv, ConsoleTypeOK, mainline
<1>3. edge' = IF ch = "tab" THEN EdgeAfterTab(cursor'.x, edge)
              ELSE IF cursor'.x = 0 THEN "kept" ELSE edge
  BY DEF PutchAtOnce
<1>4. edge' \in Edge
  BY <1>2, <1>3
<1>5. LastLineIsLeft' /\ LoadedInPlace'
  BY <1>1, <1>2 DEF LastLineIsLeft, LoadedInPlace, ConsoleInv
<1>6. EdgeIsLeft'
  <2>1. CASE ch = "tab"
    BY <1>1, <1>3, <2>1 DEF EdgeIsLeft
  <2>2. CASE ch \in {"glyph", "newline", "return"}
    BY <1>1, <2>2 DEF EdgeIsLeft
  <2>3. CASE ch = "backspace"
    BY <1>1, <1>2, <1>3, <2>3 DEF EdgeIsLeft, ConsoleInv
  <2>. QED BY <2>1, <2>2, <2>3 DEF Echoed, BehindTheTable
<1>7. DrawnInPlace'
  <2>1. CASE drawn' = drawn
    BY <2>1 DEF DrawnInPlace, ConsoleInv
  <2>2. CASE drawn' = [x |-> cursor.x, y |-> cursor.y, edge |-> edge]
    <3>1. edge = "passed" \/ InPlace(cursor)
      BY <1>2 DEF ConsoleInv, EdgeIsLeft, LastLineIsLeft, Wrapping, Scrolling, InPlace
    <3>2. cursor.x \in Nat /\ cursor.y \in Nat
      BY <1>2
    <3>3. drawn' \in [x : Nat, y : Nat, edge : Edge]
      BY <1>2, <2>2, <3>2
    <3>4. drawn'.x = cursor.x /\ drawn'.y = cursor.y /\ drawn'.edge = edge
      BY <2>2
    <3>. QED BY <3>1, <3>3, <3>4 DEF DrawnInPlace, InPlace
  <2>. QED BY <2>1, <2>2 DEF PutchAtOnce
<1>. QED BY <1>1, <1>4, <1>5, <1>6, <1>7

LEMMA EchoInv ==
    ASSUME ConsoleInv, PressKey \/ SoftwareInterrupt
    PROVE  ConsoleInv'
<1>1. PICK ch \in Echoed : PutchAtOnce(ch)
  BY DEF PressKey, SoftwareInterrupt, Echoed
<1>2. UNCHANGED mainline /\ UNCHANGED keyboard
  BY DEF PressKey, SoftwareInterrupt
<1>3. /\ cursor' \in [x : 0 .. MaxColumn + 1, y : 0 .. Rows - 2]
      /\ edge' \in Edge
      /\ LastLineIsLeft' /\ EdgeIsLeft' /\ LoadedInPlace' /\ DrawnInPlace'
  BY <1>1, <1>2, PutchAtOnceInv
<1>4. ConsoleTypeOK'
  BY <1>2, <1>3, ConsoleAssumption
     DEF ConsoleInv, ConsoleTypeOK, mainline, keyboard
<1>. QED BY <1>3, <1>4 DEF ConsoleInv

LEMMA ShiftInv ==
    ASSUME ConsoleInv, NEW k \in ShiftKeys, PressShift(k) \/ ReleaseShift(k)
    PROVE  ConsoleInv'
BY DEF ConsoleInv, ConsoleTypeOK, LastLineIsLeft, EdgeIsLeft, LoadedInPlace,
       DrawnInPlace, InPlace, PressShift, ReleaseShift, mainline

-----------------------------------------------------------------------------
(* The kernel's putch *)

LEMMA PutchInv ==
    ASSUME ConsoleInv, Putch, UNCHANGED keyboard
    PROVE  ConsoleInv'
<1> USE ConsoleAssumption DEF Edge, EdgeAfterTab
<1>0. /\ cursor.x \in 0 .. MaxColumn + 1 /\ cursor.y \in 0 .. Rows - 1
      /\ cursor = [x |-> cursor.x, y |-> cursor.y]
      /\ reg.x \in 0 .. MaxColumn /\ reg.y \in 0 .. Rows - 2 /\ reg.edge \in Edge
      /\ reg = [x |-> reg.x, y |-> reg.y, edge |-> reg.edge]
      /\ edge \in Edge
      /\ LastLineIsLeft /\ EdgeIsLeft /\ LoadedInPlace /\ DrawnInPlace
  BY DEF ConsoleInv, ConsoleTypeOK
<1> DEFINE RegType == [x : 0 .. MaxColumn, y : 0 .. Rows - 2, edge : Edge]
           Labels == {"ready", "glyph_y", "glyph_x", "advance", "advanced", "wrap",
                      "tab_x", "tab_again", "tab_store", "line_start", "line_y",
                      "line_down", "scroll_test", "top"}
<1> SUFFICES /\ cursor' \in [x : 0 .. MaxColumn + 1, y : 0 .. Rows - 1]
             /\ reg' \in RegType
             /\ pc' \in Labels
             /\ edge' \in Edge
             /\ LastLineIsLeft' /\ EdgeIsLeft' /\ LoadedInPlace' /\ DrawnInPlace'
  BY DEF ConsoleInv, ConsoleTypeOK, keyboard
<1> USE DEF LastLineIsLeft, EdgeIsLeft, LoadedInPlace, Wrapping, Scrolling, InPlace
<1>1. CASE \E ch \in Printed : PrintChar(ch)
  <2>1. /\ pc = "ready" /\ pc' \in Labels \ (Wrapping \ {"line_start"})
        /\ UNCHANGED <<reg, cursor, edge, drawn>>
    BY <1>1 DEF PrintChar, Goto, Printed
  <2>. QED BY <1>0, <2>1 DEF DrawnInPlace
<1>2. CASE GlyphLine
  BY <1>0, <1>2 DEF GlyphLine, Goto, LoadY, DrawnInPlace
<1>3. CASE GlyphColumn
  <2>1. drawn' = [x |-> cursor.x, y |-> reg.y, edge |-> edge]
        /\ pc = "glyph_x" /\ pc' = "advance" /\ UNCHANGED <<reg, cursor, edge>>
    BY <1>3 DEF GlyphColumn, Goto
  <2>2. edge = "passed" \/ cursor.x < Columns
    BY <1>0, <2>1
  <2>3. DrawnInPlace'
    BY <1>0, <2>1, <2>2 DEF DrawnInPlace, InPlace
  <2>. QED BY <1>0, <2>1, <2>3
<1>4. CASE AdvanceLoad
  <2>1. /\ reg' = [x |-> cursor.x, y |-> reg.y, edge |-> edge]
        /\ pc = "advance" /\ pc' = "advanced" /\ UNCHANGED <<cursor, edge, drawn>>
    BY <1>0, <1>4 DEF AdvanceLoad, Goto, LoadX
  <2>2. cursor.x <= MaxColumn
    BY <1>0, <2>1
  <2>3. edge = "passed" \/ cursor.x < Columns
    BY <1>0, <2>1
  <2>4. DrawnInPlace'
    BY <1>0, <2>1 DEF DrawnInPlace
  <2>. QED BY <1>0, <2>1, <2>2, <2>3, <2>4
<1>5. CASE AdvanceStore
  <2>1. /\ cursor' = [x |-> reg.x + 1, y |-> cursor.y] /\ edge' = reg.edge
        /\ pc = "advanced" /\ pc' = "wrap" /\ UNCHANGED <<reg, drawn>>
    BY <1>0, <1>5 DEF AdvanceStore, Goto, StoreX
  <2>. QED BY <1>0, <2>1 DEF DrawnInPlace
<1>6. CASE WrapTest
  <2>1. /\ pc' = IF cursor.x >= Columns THEN "line_start" ELSE "scroll_test"
        /\ pc = "wrap" /\ UNCHANGED <<reg, cursor, edge, drawn>>
    BY <1>6 DEF WrapTest, Goto
  <2>. QED BY <1>0, <2>1 DEF DrawnInPlace
<1>7. CASE TabLoad
  <2>1. /\ reg' = [x |-> cursor.x, y |-> reg.y, edge |-> edge]
        /\ pc = "tab_x" /\ pc' = "tab_again" /\ UNCHANGED <<cursor, edge, drawn>>
    BY <1>0, <1>7 DEF TabLoad, Goto, LoadX
  <2>2. cursor.x <= MaxColumn
    BY <1>0, <2>1
  <2>3. edge = "passed" \/ cursor.x < Columns
    BY <1>0, <2>1
  <2>4. DrawnInPlace'
    BY <1>0, <2>1 DEF DrawnInPlace
  <2>. QED BY <1>0, <2>1, <2>2, <2>3, <2>4
<1>7a. CASE TabReload
  <2> DEFINE after == AfterTab(reg.x, cursor.x)
  <2>1. /\ reg' = [x |-> after, y |-> reg.y,
                   edge |-> IF after >= Columns THEN "passed" ELSE reg.edge]
        /\ after <= MaxColumn
        /\ pc = "tab_again" /\ pc' = "tab_store" /\ UNCHANGED <<cursor, edge, drawn>>
    BY <1>0, <1>7a DEF TabReload, Goto
  <2>2. after \in Nat
    BY <1>0, TabAdvances
  <2>3. DrawnInPlace'
    BY <1>0, <2>1 DEF DrawnInPlace
  <2>. QED BY <1>0, <2>1, <2>2, <2>3
<1>8. CASE TabStore
  <2>1. /\ cursor' = [x |-> reg.x, y |-> cursor.y]
        /\ edge' = reg.edge
        /\ pc = "tab_store" /\ pc' = "scroll_test" /\ UNCHANGED <<reg, drawn>>
    BY <1>0, <1>8 DEF TabStore, Goto, StoreX
  <2>. QED BY <1>0, <2>1 DEF DrawnInPlace
<1>9. CASE LineStart
  <2>1. /\ cursor' = [x |-> 0, y |-> cursor.y] /\ edge' = "kept"
        /\ pc = "line_start" /\ pc' = "line_y" /\ UNCHANGED <<reg, drawn>>
    BY <1>0, <1>9 DEF LineStart, Goto, StoreX
  <2>. QED BY <1>0, <2>1 DEF DrawnInPlace
<1>10. CASE LineLoad
  <2>1. /\ reg' = [x |-> reg.x, y |-> cursor.y, edge |-> reg.edge]
        /\ pc = "line_y" /\ pc' = "line_down" /\ UNCHANGED <<cursor, edge, drawn>>
    BY <1>0, <1>10 DEF LineLoad, Goto, LoadY
  <2>2. cursor.y \in 0 .. Rows - 2
    BY <1>0, <2>1
  <2>3. DrawnInPlace'
    BY <1>0, <2>1 DEF DrawnInPlace
  <2>. QED BY <1>0, <2>1, <2>2, <2>3
<1>11. CASE LineStore
  <2>1. /\ cursor' = [x |-> cursor.x, y |-> reg.y + 1]
        /\ pc = "line_down" /\ pc' = "scroll_test" /\ UNCHANGED <<reg, edge, drawn>>
    BY <1>0, <1>11 DEF LineStore, Goto, StoreY
  <2>. QED BY <1>0, <2>1 DEF DrawnInPlace
<1>12. CASE ScrollTest
  <2>1. /\ pc' = IF cursor.y + 1 >= Rows THEN "top" ELSE "ready"
        /\ pc = "scroll_test" /\ UNCHANGED <<reg, cursor, edge, drawn>>
    BY <1>12 DEF ScrollTest, Goto
  <2>. QED BY <1>0, <2>1 DEF DrawnInPlace
<1>13. CASE Top
  <2>1. /\ cursor' = [x |-> cursor.x, y |-> 0]
        /\ pc = "top" /\ pc' = "ready" /\ UNCHANGED <<reg, edge, drawn>>
    BY <1>0, <1>13 DEF Top, Goto, StoreY
  <2>. QED BY <1>0, <2>1 DEF DrawnInPlace
<1>14. CASE Clear
  <2>1. /\ cursor' = [x |-> 0, y |-> cursor.y] /\ edge' = "kept"
        /\ pc = "ready" /\ pc' = "top" /\ UNCHANGED <<reg, drawn>>
    BY <1>0, <1>14 DEF Clear, Goto, StoreX
  <2>. QED BY <1>0, <2>1 DEF DrawnInPlace
<1>. QED BY <1>1, <1>2, <1>3, <1>4, <1>5, <1>6, <1>7, <1>7a, <1>8, <1>9, <1>10,
            <1>11, <1>12, <1>13, <1>14 DEF Putch

-----------------------------------------------------------------------------

LEMMA ConsoleInitInv == ConsoleInit => ConsoleInv
<1> SUFFICES ASSUME ConsoleInit PROVE ConsoleInv
  OBVIOUS
<1>1. ConsoleTypeOK
  <2>1. cursor \in [x : 0 .. MaxColumn + 1, y : 0 .. Rows - 1]
    BY ConsoleAssumption DEF ConsoleInit
  <2>2. reg \in [x : 0 .. MaxColumn, y : 0 .. Rows - 2, edge : Edge]
    BY ConsoleAssumption DEF ConsoleInit, Edge
  <2>3. shift_down \in BOOLEAN /\ held \subseteq ShiftKeys
    BY DEF ConsoleInit
  <2>. QED BY <2>1, <2>2, <2>3 DEF ConsoleInit, ConsoleTypeOK, Edge
<1>2. LastLineIsLeft /\ EdgeIsLeft /\ LoadedInPlace /\ DrawnInPlace
  BY ConsoleAssumption
     DEF ConsoleInit, LastLineIsLeft, EdgeIsLeft, LoadedInPlace, DrawnInPlace,
         InPlace, Edge
<1>. QED BY <1>1, <1>2 DEF ConsoleInv

LEMMA ConsoleStepInv == ConsoleInv /\ [ConsoleNext]_cvars => ConsoleInv'
<1> SUFFICES ASSUME ConsoleInv, [ConsoleNext]_cvars PROVE ConsoleInv'
  OBVIOUS
<1>1. CASE Putch /\ UNCHANGED keyboard
  BY <1>1, PutchInv
<1>2. CASE PressKey \/ SoftwareInterrupt
  BY <1>2, EchoInv
<1>3. ASSUME NEW k \in ShiftKeys, PressShift(k) \/ ReleaseShift(k) PROVE ConsoleInv'
  BY <1>3, ShiftInv
<1>4. CASE UNCHANGED cvars
  BY <1>4 DEF cvars, mainline, keyboard, ConsoleInv, ConsoleTypeOK, LastLineIsLeft,
              EdgeIsLeft, LoadedInPlace, DrawnInPlace, InPlace
<1>. QED BY <1>1, <1>2, <1>3, <1>4 DEF ConsoleNext

(* The inductive invariant of the cursor. *)
THEOREM ConsoleInvariant == ConsoleSpec => []ConsoleInv
<1>. QED BY ConsoleInitInv, ConsoleStepInv, PTL DEF ConsoleSpec

\* The cursor is a position of the screen, or past its right edge.
THEOREM ConsoleTypeCorrect == ConsoleSpec => []ConsoleTypeOK
<1>1. ConsoleInv => ConsoleTypeOK
  BY DEF ConsoleInv
<1>. QED BY <1>1, ConsoleInvariant, PTL

\* Keys are echoed in upper case only while a shift key is down, for any number
\* of keys with the codes of the two: it needs no invariant but itself.
THEOREM ShiftStaysHeld == ConsoleSpec => []ShiftIsHeld
<1>1. ConsoleInit => ShiftIsHeld
  BY DEF ConsoleInit, ShiftIsHeld
<1>2. ShiftIsHeld /\ [ConsoleNext]_cvars => ShiftIsHeld'
  <2> SUFFICES ASSUME ShiftIsHeld, [ConsoleNext]_cvars PROVE ShiftIsHeld'
    OBVIOUS
  <2>1. CASE UNCHANGED keyboard
    BY <2>1 DEF ShiftIsHeld, keyboard
  <2>2. ASSUME NEW k \in ShiftKeys, PressShift(k) \/ ReleaseShift(k)
        PROVE  ShiftIsHeld'
    BY <2>2 DEF PressShift, ReleaseShift, ShiftIsHeld
  <2>. QED BY <2>1, <2>2
           DEF ConsoleNext, SoftwareInterrupt, PressKey, cvars
<1>. QED BY <1>1, <1>2, PTL DEF ConsoleSpec

\* Between two characters the kernel finds the cursor above the last line and,
\* but for tabs, on the screen, whatever keys were echoed in between.
THEOREM CursorStaysInPlace == ConsoleSpec => []CursorAtRest
<1>1. ConsoleInv => CursorAtRest
  BY ConsoleAssumption DEF ConsoleInv, ConsoleTypeOK, LastLineIsLeft, EdgeIsLeft,
                           Wrapping, Scrolling, CursorAtRest, Edge
<1>. QED BY <1>1, ConsoleInvariant, PTL

\* No glyph is drawn outside the frame buffer, but for tabs past the edge.
THEOREM GlyphsStayInFrame == ConsoleSpec => []GlyphsInFrame
<1>1. ConsoleInv => GlyphsInFrame
  BY PlaceInFrame DEF ConsoleInv, DrawnInPlace, GlyphsInFrame
<1>. QED BY <1>1, ConsoleInvariant, PTL
=============================================================================
