------------------------------ MODULE Console ------------------------------
(* The text console on the framebuffer (display/console.rs): a grid of cells, *)
(* the position the next character goes to, and the input cursor drawn there. *)
(* A console is a record; the operators give the console after an operation.  *)
EXTENDS Integers, Sequences, SequencesExt

CONSTANTS
    Cols, Rows,
    Panel           \* the cells, as <<row, column>>, the shell's debug panel touches

\* The panel begins PANEL_MARGIN pixels below the top, inside the first row.
ASSUME ConsoleAssumption ==
    /\ Cols \in Nat \ {0} /\ Rows \in Nat \ {0}
    /\ Panel \subseteq (0..Rows - 1) \X (0..Cols - 1)
    /\ \A cell \in Panel : \A r \in 0..cell[1] : <<r, cell[2]>> \in Panel

Blank == " "
PanelInk == "#"

BlankRow == [c \in 1..Cols |-> Blank]

\* FramebufferConsole::new, cleared by init.
NewConsole ==
    [col |-> 0, row |-> 0, cells |-> [r \in 1..Rows |-> BlankRow], shown |-> FALSE]

\* The cell a row and a column, counted from 0, name.
SetCell(con, col, row, ch) == [con EXCEPT !.cells[row + 1][col + 1] = ch]

\* hide_input_cursor: the cursor is erased with the whole cell below it.
HideInputCursor(con) ==
    IF con.shown
    THEN [SetCell(con, con.col, con.row, Blank) EXCEPT !.shown = FALSE]
    ELSE con

ShowInputCursor(con) == [con EXCEPT !.shown = TRUE]

ClearScreen(con) == NewConsole

\* newline: on the last row everything moves up instead.
Newline(con) ==
    LET c == [HideInputCursor(con) EXCEPT !.col = 0] IN
    IF con.row + 1 >= Rows
    THEN [c EXCEPT !.cells = Append(Tail(@), BlankRow)]
    ELSE [c EXCEPT !.row = @ + 1]

DrawCharacter(con, ch) ==
    LET c == HideInputCursor(con)
        d == [SetCell(c, c.col, c.row, ch) EXCEPT !.col = @ + 1]
    IN  IF d.col >= Cols THEN Newline(d) ELSE d

BugBackspace(con) ==
    LET c == HideInputCursor(con) IN
    IF c.col = 0 THEN c
    ELSE SetCell([c EXCEPT !.col = @ - 1], c.col - 1, c.row, Blank)

\* backspace: from the start of a row back to the end of the row above.
Backspace(con) ==
    LET c == HideInputCursor(con)
        d == IF c.col > 0 THEN [c EXCEPT !.col = @ - 1]
             ELSE [c EXCEPT !.row = @ - 1, !.col = Cols - 1]
    IN  IF c.col = 0 /\ c.row = 0 THEN c ELSE SetCell(d, d.col, d.row, Blank)

\* write_byte
WriteByte(con, byte) ==
    IF byte = "\n" THEN Newline(con) ELSE DrawCharacter(con, byte)

\* write_str, and _print while rendering is on.
WriteStr(con, text) == FoldLeft(WriteByte, con, text)

\* render_shell_debug_panel_raw: drawn over the text, which the console does not
\* keep; the cursor stays where it is and still counts as shown.
PaintPanel(con) ==
    [con EXCEPT !.cells = [r \in 1..Rows |-> [c \in 1..Cols |->
        IF <<r - 1, c - 1>> \in Panel THEN PanelInk ELSE @[r][c]]]]

\* The n positions in front of the cursor, counted across row ends, and the cell
\* a position names.
Before(con, n) == LET at == con.row * Cols + con.col IN [i \in 1..n |-> at - n + i - 1]
CellAt(k) == <<k \div Cols, k % Cols>>
Shows(con, k) == con.cells[(k \div Cols) + 1][(k % Cols) + 1]
============================================================================
