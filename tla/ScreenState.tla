---------------------------- MODULE ScreenState ----------------------------
(* The screen and what must be true of it: it shows the last lines of what   *)
(* was printed, and the cursor stays on it. Console has the steps.           *)
EXTENDS Integers, Sequences

CONSTANTS Rows, Cols   \* the size of the screen

VARIABLES
  con,      \* the console: text memory, cursor, and how far putch has come
  text,     \* what this call has still to print
  calls,    \* calls and messages so far
  meant,    \* for the properties: what it should still print
  paper,    \* for the properties: all the lines meant so far, and the column
  disturbed \* for the properties: has a handler printed during a call?

screenVars == <<con, text, calls, meant, paper, disturbed>>

Blank == "blank"

\* No call is on its way.
Quiet == con.at = "idle" /\ text = <<>>

\* The screen shows the last lines of the paper p, and the cursor of the console
\* k is where p goes on.
Shows(k, p) ==
  LET above == IF Len(p.lines) > Rows THEN Len(p.lines) - Rows ELSE 0
  IN  /\ k.x = p.col /\ k.y = Len(p.lines) - 1 - above
      /\ \A r \in 0..(Rows - 1), c \in 0..(Cols - 1) :
           k.cells[r * Cols + c] =
             IF above + r + 1 <= Len(p.lines) THEN p.lines[above + r + 1][c] ELSE Blank

----------------------------------------------------------------------------
\* Between calls the screen shows the last lines of everything printed, and the
\* cursor is where printing goes on, unless a handler printed inside a call.
ShowsLastLines == Quiet /\ ~disturbed => meant = <<>> /\ Shows(con, paper)

\* Wherever a handler prints, nothing is ever written outside the text memory,
\* and the cursor is back on the screen when the call is over.
CursorContained ==
  /\ ~con.wild
  /\ con.at = "idle" => con.x \in 0..(Cols - 1) /\ con.y \in 0..(Rows - 1)
=============================================================================
