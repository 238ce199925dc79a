------------------------------ MODULE Console ------------------------------
(* The text console: putch one memory access at a time, as the unoptimised   *)
(* build makes them, the numbers and control characters printed through it,  *)
(* and the messages that interrupt handlers print between two accesses.      *)
EXTENDS ScreenState

CONSTANTS
  Tab,              \* the distance of tab stops, which divides Cols
  Stride,           \* the cells that scroll takes a line of text to have
  Base, Places,     \* the number system of int2str, and the places it computes
  Controls,         \* the control characters that are printed
  Interrupts,       \* can a handler print at any time?
  MaxCalls          \* bound on the calls and messages

Digits == <<"0", "1", "2", "3", "4", "5", "6", "7", "8", "9">>
Numbers == 0..(Base ^ Places - 1)

\* The text memory that belongs to the screen, with the line that putch may
\* write before it scrolls, and some of what follows it.
Cells == 0..((Rows + 2) * Cols - 1)
TextMemory == 0..((Rows + 1) * Cols - 1)

\* memsetw(textmemptr + from, blank, count).
memsetw(cells, from, count) ==
  [i \in Cells |-> IF i \in from..(from + count - 1) THEN Blank ELSE cells[i]]

\* memcpy of count cells to the start of the text memory, from further behind.
memcpy(cells, from, count) ==
  [i \in Cells |-> IF i < count THEN cells[i + from] ELSE cells[i]]

\* Console::init, which clears the screen, whatever the memory contains.
Console_init ==
  [cells |-> memsetw([i \in Cells |-> "junk"], 0, Rows * Cols), x |-> 0, y |-> 0,
   at |-> "idle", c |-> Blank, reg |-> 0, wild |-> FALSE]

\* Slip: only what is behind the edge of the screen starts a new line.
AtEdge_late(k) == k.x > Cols

\* The cursor has reached the edge of the screen.
AtEdge(k) == k.x >= Cols

\* Slip: a line moves up by half its length, as in the first kernel.
Moved_half(k) == memcpy(k.cells, k.reg * (Stride \div 2), (Rows - k.reg) * Cols)

\* scroll moves the lines up that stay on the screen.
Moved(k) == memcpy(k.cells, k.reg * Stride, (Rows - k.reg) * Cols)

Goto(k, label) == [k EXCEPT !.at = label]
Load(k, value, label) == [k EXCEPT !.reg = value, !.at = label]

\* putch(c) is called: which branch it takes.
Enter(k, c) ==
  [k EXCEPT !.c = c,
            !.at = CASE c = "BS" -> "test" [] c = "HT" -> "load x"
                     [] c \in {"CR", "LF"} -> "margin" [] OTHER -> "where"]

\* One access of putch to the cursor or to the text memory.
Step(k) ==
  CASE k.at = "test" -> Goto(k, IF k.x # 0 THEN "load x" ELSE "edge")
    [] k.at = "where" -> Load(k, k.y * Cols + k.x, "put")
    [] k.at = "put" -> [k EXCEPT !.cells = [i \in Cells |-> IF i = k.reg THEN k.c ELSE @[i]],
                                 !.wild = @ \/ k.reg \notin TextMemory, !.at = "load x"]
    [] k.at = "load x" -> Load(k, CASE k.c = "BS" -> k.x - 1
                                    [] k.c = "HT" -> ((k.x + Tab) \div Tab) * Tab
                                    [] OTHER -> k.x + 1, "store x")
    [] k.at = "store x" -> [k EXCEPT !.x = k.reg, !.at = "edge"]
    [] k.at = "margin" -> [k EXCEPT !.x = 0, !.at = IF k.c = "CR" THEN "edge" ELSE "load y"]
    [] k.at = "edge" -> Goto(k, IF AtEdge(k) THEN "wrap" ELSE "scroll")
    [] k.at = "wrap" -> [k EXCEPT !.x = 0, !.c = "wrap", !.at = "load y"]
    [] k.at = "load y" -> Load(k, k.y + 1, "store y")
    [] k.at = "store y" -> [k EXCEPT !.y = k.reg,
                                     !.at = IF k.c = "LF" THEN "edge" ELSE "scroll"]
    [] k.at = "scroll" -> IF k.y >= Rows THEN Load(k, k.y - Rows + 1, "move") ELSE Goto(k, "idle")
    [] k.at = "move" -> [k EXCEPT !.cells = Moved(k), !.wild = @ \/ k.reg > Rows, !.at = "clear"]
    [] k.at = "clear" -> [k EXCEPT !.cells = memsetw(@, (Rows - k.reg) * Cols, Cols),
                                   !.at = "bottom"]
    [] k.at = "bottom" -> [k EXCEPT !.y = Rows - 1, !.at = "idle"]

\* putch goes on, if it has not returned.
Go(k) == IF k.at = "idle" THEN k ELSE Step(k)
Go4(k) == Go(Go(Go(Go(k))))

\* putch without an interrupt: no character takes more than twelve accesses.
Finish(k) == Go4(Go4(Go4(k)))

\* puts of a handler's message, "!" and the end of the line, without an interrupt.
puts(k) == Finish(Enter(Finish(Enter(k, "!")), "LF"))

\* int2str and uint2str: all places from the last one, then the leading zeros
\* are skipped and the rest is turned round; at least one digit stays.
int2str(n) ==
  LET temp == [i \in 1..Places |-> (n \div Base ^ (i - 1)) % Base]
      last == CHOOSE i \in 0..Places : /\ i = 0 \/ temp[i] # 0
                                       /\ \A j \in (i + 1)..Places : temp[j] = 0
      first == IF last = 0 THEN 1 ELSE last
  IN  [j \in 1..first |-> Digits[temp[first + 1 - j] + 1]]

----------------------------------------------------------------------------
\* For the properties: an endless paper of lines, printed on in column col.
BlankLine == [i \in 0..(Cols - 1) |-> Blank]
NewLine(p) == [lines |-> Append(p.lines, BlankLine), col |-> 0]

Typed(p, c) ==
  LET n == Len(p.lines)
      wrap(q) == IF q.col = Cols THEN NewLine(q) ELSE q
  IN  CASE c = "BS" -> [p EXCEPT !.col = IF @ = 0 THEN 0 ELSE @ - 1]
        [] c = "HT" -> wrap([p EXCEPT !.col = @ + Tab - (@ % Tab)])
        [] c = "CR" -> [p EXCEPT !.col = 0]
        [] c = "LF" -> NewLine(p)
        [] OTHER -> wrap([lines |-> [p.lines EXCEPT ![n][p.col] = c], col |-> p.col + 1])

\* The numeral of n: no leading zero, and its digits stand for n.
Numeral(n) ==
  LET Value[s \in UNION {[1..len -> 0..(Base - 1)] : len \in 0..Places}] ==
        IF s = <<>> THEN 0 ELSE Base * Value[SubSeq(s, 1, Len(s) - 1)] + s[Len(s)]
      digits == CHOOSE s \in DOMAIN Value :
                  s # <<>> /\ (Len(s) > 1 => s[1] # 0) /\ Value[s] = n
  IN  [i \in 1..Len(digits) |-> Digits[digits[i] + 1]]

\* What the constants have to be: a screen of two lines or more, in which tab
\* stops divide the line, control characters that putch knows, among them no
\* backspace where handlers print, and numbers that int2str prints right.
ConsoleAssumption ==
  /\ Rows \in Nat /\ Rows >= 2 /\ Cols \in Nat \ {0} /\ Tab \in Nat \ {0} /\ Cols % Tab = 0
  /\ Stride \in 0..Cols
  /\ Base \in 2..10 /\ Places \in Nat /\ MaxCalls \in Nat /\ Interrupts \in BOOLEAN
  /\ Controls \subseteq {"BS", "HT", "CR", "LF"} /\ (Interrupts => "BS" \notin Controls)
  /\ 0 \in Numbers /\ Base \in Numbers
  /\ \A n \in Numbers : /\ int2str(n) \in Seq({Digits[d] : d \in 1..10})
                         /\ int2str(n) = Numeral(n)

----------------------------------------------------------------------------
ConsoleInit ==
  /\ con = Console_init /\ text = <<>> /\ calls = 0 /\ meant = <<>>
  /\ paper = [lines |-> <<BlankLine>>, col |-> 0]
  /\ disturbed = FALSE

Call(s, right) ==
  /\ Quiet /\ calls < MaxCalls
  /\ calls' = calls + 1
  /\ text' = s /\ meant' = right
  /\ UNCHANGED <<con, paper, disturbed>>

puti == \E n \in Numbers : Call(int2str(n), Numeral(n))
putui == \E n \in {0, Base} : Call(<<"<">> \o int2str(n) \o <<">">>,
                                   <<"<">> \o Numeral(n) \o <<">">>)
control == \E c \in Controls : Call(<<c>>, <<c>>)

\* putch is called with the next character ...
NextCharacter ==
  /\ con.at = "idle" /\ text # <<>>
  /\ con' = Enter(con, Head(text)) /\ text' = Tail(text)
  /\ IF meant = <<>> THEN UNCHANGED <<meant, paper>>
                     ELSE meant' = Tail(meant) /\ paper' = Typed(paper, Head(meant))
  /\ UNCHANGED <<calls, disturbed>>

\* ... and runs.
putch ==
  /\ con.at # "idle"
  /\ con' = Step(con)
  /\ UNCHANGED <<text, calls, meant, paper, disturbed>>

\* The handler of the timer or the disk prints its line; putch, if it was
\* interrupted, goes on with what it has in its registers.
HandlerPrints ==
  /\ Interrupts /\ calls < MaxCalls
  /\ calls' = calls + 1
  /\ LET k == puts(Goto(con, "idle"))
     IN  con' = [k EXCEPT !.at = con.at, !.c = con.c, !.reg = con.reg]
  /\ IF Quiet THEN paper' = Typed(Typed(paper, "!"), "LF") /\ disturbed' = disturbed
              ELSE paper' = paper /\ disturbed' = TRUE
  /\ UNCHANGED <<text, meant>>

\* All calls are made.
Rest == Quiet /\ calls = MaxCalls /\ UNCHANGED screenVars

ConsoleNext == puti \/ putui \/ control \/ NextCharacter \/ putch \/ HandlerPrints \/ Rest

ConsoleSpec == ConsoleInit /\ [][ConsoleNext]_screenVars
=============================================================================
