------------------------------ MODULE Console ------------------------------
(***************************************************************************)
(* monitor.c and keyboard.c: the cursor of the text console, moved by the  *)
(* kernel's own printing and by the keyboard interrupt, which echoes keys  *)
(* through the same putch.                                                 *)
(*                                                                         *)
(* The stubs of isr.asm run with interrupts off, so a handler moves the    *)
(* cursor in one step.  The kernel prints with interrupts on: its putch    *)
(* takes one step per load or store of cursor_x and cursor_y, as the build *)
(* (gcc without optimisation) compiles it.  Positions are counted in       *)
(* characters: 1 is fwidth or fheight pixels.                              *)
(***************************************************************************)
EXTENDS Integers

CONSTANTS
    Columns, Rows,   \* width / fwidth, height / fheight
    TabStop,         \* a tab goes to the next multiple of it
    FontHeight,      \* fheight: pixel rows of a character
    MaxColumn,       \* bound: no tab beyond this column
    ShiftKeys        \* the keys of code LSHIFT_KEY and RSHIFT_KEY

ASSUME ConsoleAssumption ==
    /\ Columns \in Nat \ {0} /\ Rows \in Nat /\ Rows >= 2
    /\ TabStop \in Nat \ {0} /\ FontHeight \in Nat \ {0}
    /\ MaxColumn \in Nat /\ MaxColumn >= Columns + TabStop

\* What a character does to the cursor.  The code of the enter key is negative,
\* but a scancode of 84 or more is looked up behind the table.  There, as
\* kernel.o is laid out, are the table for shift and the register numbers of
\* rtl8029.c: with shift down 10 and 13 are among them.
BehindTheTable == {"newline", "return"}
Echoed == {"glyph", "tab", "backspace"} \cup BehindTheTable
Printed == {"glyph", "tab", "newline"}

Edge == {"kept", "passed"}

VARIABLES
    cursor,      \* cursor_x and cursor_y
    pc,          \* where the kernel is in putch; "ready" is outside it
    reg,         \* what it has loaded: the cursor as it was
    shift_down,  \* keyboard.c
    held,        \* the shift keys that are down
    edge,        \* history: "passed" if cursor_x comes from a tab past the edge
    drawn        \* history: where the last glyph was drawn

mainline == <<pc, reg>>
keyboard == <<shift_down, held>>
cvars == <<cursor, mainline, keyboard, edge, drawn>>

ConsoleInit ==
    /\ cursor = [x |-> 0, y |-> 0]
    /\ pc = "ready"
    /\ reg = [x |-> 0, y |-> 0, edge |-> "kept"]
    /\ shift_down = FALSE
    /\ held \in SUBSET ShiftKeys
    /\ edge = "kept"
    /\ drawn = [x |-> 0, y |-> 0, edge |-> "kept"]

-----------------------------------------------------------------------------
(* putch as one step: with interrupts off *)

NextLine(c) == [x |-> 0, y |-> c.y + 1]

\* Mutant: the line that only just fits is left to the next character.
Scrolled_OneLate(c) == IF c.y + 1 > Rows THEN [c EXCEPT !.y = 0] ELSE c

\* scroll goes back to the top when the next line would not fit.
Scrolled(c) == IF c.y + 1 >= Rows THEN [c EXCEPT !.y = 0] ELSE c

AfterTab(x, modx) == x + TabStop - (modx % TabStop)

Wrapped(c) == IF c.x >= Columns THEN NextLine(c) ELSE c

\* Mutant: the column is not looked at.
AfterBackspace_Always(c) == [c EXCEPT !.x = @ - 1]

AfterBackspace(c) == IF c.x > 0 THEN [c EXCEPT !.x = @ - 1] ELSE c

Moved(ch, c) ==
    CASE ch = "tab"       -> [c EXCEPT !.x = AfterTab(c.x, c.x)]
      [] ch = "backspace" -> AfterBackspace(c)
      [] ch = "newline"   -> NextLine(c)
      [] ch = "return"    -> [c EXCEPT !.x = 0]
      [] ch = "glyph"     -> Wrapped([c EXCEPT !.x = @ + 1])

EdgeAfterTab(x, before) == IF x >= Columns THEN "passed" ELSE before

PutchAtOnce(ch) ==
    /\ ch = "tab" => AfterTab(cursor.x, cursor.x) <= MaxColumn
    /\ cursor' = Scrolled(Moved(ch, cursor))
    /\ edge' = IF ch = "tab" THEN EdgeAfterTab(cursor'.x, edge)
               ELSE IF cursor'.x = 0 THEN "kept" ELSE edge
    /\ drawn' = IF ch = "glyph"
                THEN [x |-> cursor.x, y |-> cursor.y, edge |-> edge]
                ELSE drawn

-----------------------------------------------------------------------------
(* The interrupts *)

\* A shift key goes down or repeats.
PressShift(k) ==
    /\ held' = held \cup {k}
    /\ shift_down' = TRUE
    /\ UNCHANGED <<mainline, cursor, edge, drawn>>

\* Any other key that has a character, code above 0, is echoed.
PressKey == \E ch \in Echoed :
    /\ ch \in BehindTheTable => shift_down
    /\ PutchAtOnce(ch)
    /\ UNCHANGED <<mainline, keyboard>>

\* Mutant: only the left shift key is looked for.
ReleaseShift_LeftOnly(k) ==
    /\ k \in held
    /\ held' = held \ {k}
    /\ shift_down' = IF k = CHOOSE s \in ShiftKeys : TRUE THEN FALSE ELSE shift_down
    /\ UNCHANGED <<mainline, cursor, edge, drawn>>

ReleaseShift(k) ==
    /\ k \in held
    /\ held' = held \ {k}
    /\ shift_down' = FALSE
    /\ UNCHANGED <<mainline, cursor, edge, drawn>>

\* int 0x22 and int 0x23 print one letter; the kernel is not inside putch.
SoftwareInterrupt ==
    /\ pc = "ready"
    /\ PutchAtOnce("glyph")
    /\ UNCHANGED <<mainline, keyboard>>

-----------------------------------------------------------------------------
(* The kernel's putch, one access to the cursor at a time *)

Goto(from, to) == pc = from /\ pc' = to

StoreX(x) == cursor' = [cursor EXCEPT !.x = x]
StoreY(y) == cursor' = [cursor EXCEPT !.y = y]
LoadX == reg' = [reg EXCEPT !.x = cursor.x, !.edge = edge] /\ UNCHANGED <<cursor, edge, drawn>>
LoadY == reg' = [reg EXCEPT !.y = cursor.y] /\ UNCHANGED <<cursor, edge, drawn>>

PrintChar(ch) ==
    /\ Goto("ready", CASE ch = "glyph" -> "glyph_y"
                       [] ch = "tab" -> "tab_x"
                       [] ch = "newline" -> "line_start")
    /\ UNCHANGED <<reg, cursor, edge, drawn>>

\* The glyph is drawn at the line loaded first and the column loaded next.
GlyphLine == Goto("glyph_y", "glyph_x") /\ LoadY

GlyphColumn ==
    /\ Goto("glyph_x", "advance")
    /\ drawn' = [x |-> cursor.x, y |-> reg.y, edge |-> edge]
    /\ UNCHANGED <<reg, cursor, edge>>

AdvanceLoad == Goto("advance", "advanced") /\ LoadX

AdvanceStore ==
    /\ Goto("advanced", "wrap")
    /\ StoreX(reg.x + 1)
    /\ edge' = reg.edge
    /\ UNCHANGED <<reg, drawn>>

WrapTest ==
    /\ Goto("wrap", IF cursor.x >= Columns THEN "line_start" ELSE "scroll_test")
    /\ UNCHANGED <<reg, cursor, edge, drawn>>

TabLoad == Goto("tab_x", "tab_again") /\ LoadX

\* cursor_x is loaded again for the remainder, and the sum is made.
TabReload ==
    /\ Goto("tab_again", "tab_store")
    /\ AfterTab(reg.x, cursor.x) <= MaxColumn
    /\ reg' = [reg EXCEPT !.x = AfterTab(@, cursor.x),
                          !.edge = EdgeAfterTab(AfterTab(reg.x, cursor.x), @)]
    /\ UNCHANGED <<cursor, edge, drawn>>

TabStore ==
    /\ Goto("tab_store", "scroll_test")
    /\ StoreX(reg.x)
    /\ edge' = reg.edge
    /\ UNCHANGED <<reg, drawn>>

LineStart ==
    /\ Goto("line_start", "line_y")
    /\ StoreX(0)
    /\ edge' = "kept"
    /\ UNCHANGED <<reg, drawn>>

LineLoad == Goto("line_y", "line_down") /\ LoadY

LineStore ==
    /\ Goto("line_down", "scroll_test")
    /\ StoreY(reg.y + 1)
    /\ UNCHANGED <<reg, edge, drawn>>

\* Mutant: the test is the one for a line that is already off the screen.
ScrollTest_OneLate ==
    /\ Goto("scroll_test", IF cursor.y + 1 > Rows THEN "top" ELSE "ready")
    /\ UNCHANGED <<reg, cursor, edge, drawn>>

ScrollTest ==
    /\ Goto("scroll_test", IF cursor.y + 1 >= Rows THEN "top" ELSE "ready")
    /\ UNCHANGED <<reg, cursor, edge, drawn>>

\* scroll, and the second store of cls.
Top == Goto("top", "ready") /\ StoreY(0) /\ UNCHANGED <<reg, edge, drawn>>

Clear ==
    /\ Goto("ready", "top")
    /\ StoreX(0)
    /\ edge' = "kept"
    /\ UNCHANGED <<reg, drawn>>

Putch ==
    \/ \E ch \in Printed : PrintChar(ch)
    \/ GlyphLine \/ GlyphColumn \/ AdvanceLoad \/ AdvanceStore \/ WrapTest
    \/ TabLoad \/ TabReload \/ TabStore
    \/ LineStart \/ LineLoad \/ LineStore
    \/ ScrollTest \/ Top \/ Clear

ConsoleNext ==
    \/ Putch /\ UNCHANGED keyboard
    \/ SoftwareInterrupt
    \/ PressKey
    \/ \E k \in ShiftKeys : PressShift(k) \/ ReleaseShift(k)

ConsoleSpec == ConsoleInit /\ [][ConsoleNext]_cvars

-----------------------------------------------------------------------------
(* Properties *)

\* The cursor never goes below the last line of the screen, nor left of the
\* first column, whatever keys interrupt a putch and wherever they do.
ConsoleTypeOK ==
    /\ cursor \in [x : 0 .. MaxColumn + 1, y : 0 .. Rows - 1]
    /\ reg \in [x : 0 .. MaxColumn, y : 0 .. Rows - 2, edge : Edge]
    /\ pc \in {"ready", "glyph_y", "glyph_x", "advance", "advanced", "wrap",
              "tab_x", "tab_again", "tab_store", "line_start", "line_y",
              "line_down", "scroll_test", "top"}
    /\ shift_down \in BOOLEAN
    /\ held \subseteq ShiftKeys
    /\ edge \in Edge

\* The last pixel row of a glyph, counted in the frame buffer: past the right
\* edge a glyph is drawn one pixel row further down.
LastPixelRow(d) == d.y * FontHeight + FontHeight - 1 + d.x \div Columns

\* A glyph is drawn inside the frame buffer, unless a tab of its line went past
\* the last column: putch_rgb wraps after a glyph and never after a tab.
GlyphsInFrame == drawn.edge = "kept" => LastPixelRow(drawn) < Rows * FontHeight

\* Between two characters of the kernel there is room for a line below the
\* cursor, and the cursor is on the screen unless a tab took it off, although
\* a key may have moved it between any load and the store that follows.
CursorAtRest ==
    pc = "ready" => /\ cursor.y + 1 < Rows
                    /\ cursor.x < Columns \/ edge = "passed"

\* Keys are echoed in upper case only while a shift key is down.
ShiftIsHeld == shift_down => held # {}
=============================================================================
