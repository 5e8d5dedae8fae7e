------------------------------- MODULE Screen -------------------------------
(***************************************************************************)
(* tty.c under kprintf.c: the cells of the screen and the cursor, written  *)
(* one statement of tty_putchar at a time.                                 *)
(*                                                                         *)
(* Everything is printed with IF clear, or while nothing that prints can   *)
(* interrupt, except the echo of keyboard_getchar: there a tick finds no   *)
(* process that can run, and schedule() prints why it halts in the middle  *)
(* of tty_putchar and never returns.  The colour, which never changes, is  *)
(* left out.                                                               *)
(***************************************************************************)
EXTENDS Printf

CONSTANTS
  VGA_WIDTH, VGA_HEIGHT,
  Calls,         \* calls of kprintf, by their directives
  Keys,          \* characters that are echoed
  HaltMessage,   \* what schedule() prints
  PanicMessage,  \* what kpanic prints when a division trapped
  MaxText        \* bound: characters that are printed before a halt

VARIABLES
  terminal_buffer,
  terminal_row,
  terminal_column,
  cursor,    \* the cell that the hardware cursor is at
  pc,        \* the statement of tty_putchar, or of what called it
  line,      \* the loop variable of tty_scroll, in lines
  todo,      \* characters of this call that are still to be put
  echo,      \* whether the call is the echo of keyboard_getchar
  text,      \* all that was printed since tty_init
  call,      \* the call of kprintf that is in progress, and what it gives
  halt       \* where the cursor was when a tick halted the system

screen == <<terminal_buffer, terminal_row, terminal_column, cursor, line>>
vars == <<screen, pc, todo, echo, text, call, halt>>

Cell(x, y) == y * VGA_WIDTH + x
Cells == 0 .. VGA_HEIGHT * VGA_WIDTH - 1

\* A call of kprintf; the stack above the words that were pushed holds anything.
Junk == {0, WORD - 1}
Printing(directives, junk) ==
  kprintf(FormatOf(directives), WordsOf(directives) \o [k \in 1 .. 5 |-> junk])

\* A character is a string of one.
ASSUME ScreenAssumption ==
  /\ VGA_WIDTH \in Nat \ {0} /\ VGA_HEIGHT \in Nat \ {0, 1} /\ MaxText \in Nat
  /\ Keys \subseteq STRING /\ {HaltMessage, PanicMessage} \subseteq Seq(STRING)

\* The calls print text: no %s takes a number for a string.
ASSUME CallsAssumption ==
  \A directives \in Calls, junk \in Junk : Printing(directives, junk).out \in Seq(STRING)

NoCall == [directives |-> <<>>, out |-> <<>>, trap |-> FALSE]
Running == [halted |-> FALSE, x |-> 0, y |-> 0]

\* tty_init; the hardware cursor is where the loader left it.
Init ==
  /\ terminal_buffer = [k \in Cells |-> " "]
  /\ terminal_row = 0 /\ terminal_column = 0
  /\ cursor = Cell(VGA_WIDTH - 1, VGA_HEIGHT - 1)
  /\ pc = "return"
  /\ line = 1
  /\ todo = <<>> /\ text = <<>>
  /\ echo = FALSE
  /\ call = NoCall
  /\ halt = Running

-----------------------------------------------------------------------------
(* Calls *)

Begin(characters, echoes) ==
  /\ pc = "return"
  /\ Len(text) + Len(characters) <= MaxText
  /\ todo' = characters
  /\ echo' = echoes
  /\ pc' = "putchar"
  /\ UNCHANGED <<screen, text, halt>>

CallKprintf(directives, p) ==
  /\ Begin(p.out \o (IF p.trap THEN PanicMessage ELSE <<>>), FALSE)
  /\ call' = [directives |-> directives, out |-> p.out, trap |-> p.trap]

\* Bound: a call of kprintf comes first, the rest of the text is echoed.
Kprintf(directives) ==
  text = <<>> /\ \E junk \in Junk : CallKprintf(directives, Printing(directives, junk))

keyboard_getchar == \E c \in Keys : Begin(<<c>>, TRUE) /\ UNCHANGED call

\* The tick: schedule() prints in the handler and stops there.
schedule_halt ==
  /\ echo /\ pc # "return" /\ ~halt.halted
  /\ halt' = [halted |-> TRUE, x |-> terminal_column, y |-> terminal_row]
  /\ todo' = HaltMessage
  /\ echo' = FALSE
  /\ pc' = "putchar"
  /\ UNCHANGED <<screen, text, call>>

Return ==
  /\ pc = "putchar" /\ todo = <<>>
  /\ pc' = IF halt.halted \/ call.trap THEN "halted" ELSE "return"
  /\ call' = IF call.trap THEN call ELSE NoCall
  /\ echo' = FALSE
  /\ UNCHANGED <<screen, todo, text, halt>>

-----------------------------------------------------------------------------
(* tty_putchar *)

\* The character is on the screen; the loop that called tty_putchar goes on.
Done ==
  /\ todo' = Tail(todo)
  /\ text' = Append(text, Head(todo))
  /\ pc' = "putchar"

NextStatement(label) == pc' = label /\ UNCHANGED <<todo, text>>

\* A cell behind the last one is memory that is not shown.
tty_putentryat ==
  /\ pc = "putchar" /\ todo # <<>> /\ Head(todo) # NL
  /\ terminal_buffer' = [k \in Cells |->
       IF k = Cell(terminal_column, terminal_row) THEN Head(todo) ELSE terminal_buffer[k]]
  /\ cursor' = Cell(terminal_column + 1, terminal_row)
  /\ NextStatement("advance")
  /\ UNCHANGED <<terminal_row, terminal_column, line, echo, call, halt>>

advance ==
  /\ pc = "advance"
  /\ terminal_column' = terminal_column + 1
  /\ IF terminal_column' = VGA_WIDTH THEN NextStatement("column") ELSE Done
  /\ UNCHANGED <<terminal_buffer, terminal_row, cursor, line, echo, call, halt>>

\* Mutant: the column stays where it is.
newline_line_feed ==
  /\ pc = "putchar" /\ todo # <<>> /\ Head(todo) = NL
  /\ NextStatement("row")
  /\ UNCHANGED <<screen, echo, call, halt>>

newline_character ==
  /\ pc = "putchar" /\ todo # <<>> /\ Head(todo) = NL
  /\ NextStatement("column")
  /\ UNCHANGED <<screen, echo, call, halt>>

new_line_column ==
  /\ pc = "column"
  /\ terminal_column' = 0
  /\ NextStatement("row")
  /\ UNCHANGED <<terminal_buffer, terminal_row, cursor, line, echo, call, halt>>

new_line_row ==
  /\ pc = "row"
  /\ terminal_row' = terminal_row + 1
  /\ NextStatement(IF terminal_row' >= VGA_HEIGHT THEN "bottom" ELSE "cursor")
  /\ UNCHANGED <<terminal_buffer, terminal_column, cursor, line, echo, call, halt>>

new_line_bottom ==
  /\ pc = "bottom"
  /\ terminal_row' = VGA_HEIGHT - 1
  /\ line' = 1
  /\ NextStatement("scroll")
  /\ UNCHANGED <<terminal_buffer, terminal_column, cursor, echo, call, halt>>

\* Mutant: the last line is not made blank.
scroll_keeping ==
  /\ pc = "scroll"
  /\ terminal_buffer' = [k \in Cells |->
       IF k \div VGA_WIDTH = line - 1 /\ line < VGA_HEIGHT THEN terminal_buffer[k + VGA_WIDTH]
       ELSE terminal_buffer[k]]
  /\ line' = line + 1
  /\ NextStatement(IF line = VGA_HEIGHT THEN "cursor" ELSE "scroll")
  /\ UNCHANGED <<terminal_row, terminal_column, cursor, echo, call, halt>>

\* tty_scroll(1), a line at a time: each is copied to the one above, and the
\* last one is made blank.
tty_scroll ==
  /\ pc = "scroll"
  /\ terminal_buffer' = [k \in Cells |->
       IF k \div VGA_WIDTH # line - 1 THEN terminal_buffer[k]
       ELSE IF line < VGA_HEIGHT THEN terminal_buffer[k + VGA_WIDTH] ELSE " "]
  /\ line' = line + 1
  /\ NextStatement(IF line = VGA_HEIGHT THEN "cursor" ELSE "scroll")
  /\ UNCHANGED <<terminal_row, terminal_column, cursor, echo, call, halt>>

new_line_cursor ==
  /\ pc = "cursor"
  /\ cursor' = Cell(terminal_column, terminal_row)
  /\ Done
  /\ UNCHANGED <<terminal_buffer, terminal_row, terminal_column, line, echo, call, halt>>

tty_putchar ==
  \/ tty_putentryat \/ advance \/ newline_character \/ new_line_column \/ new_line_row
  \/ new_line_bottom \/ tty_scroll \/ new_line_cursor

-----------------------------------------------------------------------------

Next ==
  \/ \E directives \in Calls : Kprintf(directives)
  \/ keyboard_getchar
  \/ schedule_halt
  \/ tty_putchar
  \/ Return

Spec == Init /\ [][Next]_vars

-----------------------------------------------------------------------------
(* A sheet of paper as long as it needs to be *)

PutOnPaper(paper, c) ==
  IF c = NL THEN [paper EXCEPT !.x = 0, !.y = @ + 1]
  ELSE [x     |-> (paper.x + 1) % VGA_WIDTH,
        y     |-> paper.y + (paper.x + 1) \div VGA_WIDTH,
        marks |-> paper.marks \union {[x |-> paper.x, y |-> paper.y, c |-> c]}]

Paper(x, y, characters) == FoldLeft(PutOnPaper, [x |-> x, y |-> y, marks |-> {}], characters)

\* Lines of the paper that are above the screen when the last one is on it.
Above(paper) == IF paper.y < VGA_HEIGHT THEN 0 ELSE paper.y - VGA_HEIGHT + 1

ShowsMarks(paper) ==
  \A m \in paper.marks : m.y >= Above(paper) =>
    terminal_buffer[Cell(m.x, m.y - Above(paper))] = m.c

BlankElsewhere(paper) ==
  \A x \in 0 .. VGA_WIDTH - 1, y \in 0 .. VGA_HEIGHT - 1 :
    (\A m \in paper.marks : <<m.x, m.y>> # <<x, y + Above(paper)>>) =>
      terminal_buffer[Cell(x, y)] = " "

-----------------------------------------------------------------------------
(* Properties *)

\* Between two calls the screen is the end of the paper that the same text
\* makes: nothing is lost or left over where lines wrap and the screen
\* scrolls, and the cursor is where the next character goes.  (tty.c:83-125)
ShowsText ==
  pc \in {"return", "halted"} /\ ~halt.halted =>
    /\ ShowsMarks(Paper(0, 0, text)) /\ BlankElsewhere(Paper(0, 0, text))
    /\ terminal_column = Paper(0, 0, text).x
    /\ terminal_row = Paper(0, 0, text).y - Above(Paper(0, 0, text))
    /\ text # <<>> => cursor = Cell(terminal_column, terminal_row)

\* The reason why the system halted can be read, wherever in tty_putchar the
\* tick fell, a half-scrolled screen included, unless it fell behind the last
\* column before the column is 0 again, or below the last row.  (tty.c:121,
\* scheduler.c:35)
HaltIsReadable ==
  pc = "halted" /\ halt.halted /\ halt.x < VGA_WIDTH /\ halt.y < VGA_HEIGHT =>
    ShowsMarks(Paper(halt.x, halt.y, HaltMessage))

\* kprintf prints what C says of the call, or traps, exactly when one of its
\* numbers is too long for the division; both as long as no conversion with
\* an l, which loses the place in the arguments, comes before another one.
\* (kprintf.c:10-110)
Placed(directives) ==
  \A k, n \in DOMAIN directives :
    k < n /\ LosesItsPlace(directives[k]) => directives[n].words = <<>>
PrintfIsExact ==
  Placed(call.directives) =>
    /\ call.trap = \E k \in DOMAIN call.directives : Traps(call.directives[k])
    /\ ~call.trap => call.out = Reference(call.directives)
=============================================================================
