------------------------------ MODULE Console ------------------------------
(***************************************************************************)
(* The console, src/src/console/console.c, between its two users: the      *)
(* keyboard interrupt, which edits the input line and echoes it, and the   *)
(* main loop of src/src/kernel/main.c, which takes finished lines and      *)
(* prints.  They share the cursor and the input line without a lock.       *)
(*                                                                         *)
(* IRQ 1 goes through an interrupt gate, so the handler is one step.  The  *)
(* main loop can be interrupted anywhere: each of its loads and stores of  *)
(* a shared variable is a step, in the order of the source; in newline     *)
(* also in that of the code which gcc generates with the Makefile's        *)
(* options, where the row is loaded before the column is stored.  What is  *)
(* drawn into the framebuffer is left out; nothing reads it back.          *)
(***************************************************************************)
EXTENDS Integers, SequencesExt

CONSTANTS
  Cols, Rows,  \* the size of the screen in characters
  BufSize,     \* INPUT_BUFFER_SIZE
  LineSize,    \* the size of the line buffer of the main loop
  Glyph,       \* the characters that take one cell
  Tab,         \* '\t'
  NUL,         \* '\0'
  MaxOut       \* bound of the model: characters printed by one command or poll

Char == Glyph \cup {Tab}

Index == 0 .. BufSize - 1

ASSUME ConsoleAssumption ==
  /\ Cols \in Nat \ {0} /\ Rows \in Nat \ {0}
  /\ BufSize \in Nat \ {0} /\ LineSize \in Nat \ {0}
  /\ NUL \notin Char
  /\ MaxOut \in Nat

VARIABLES
  cursor_x, cursor_y,
  input_buffer, input_length, line_ready,
  pc,    \* the next load or store of the main loop
  reg,   \* the cursor coordinate it holds in a register, 0 when it holds none
  todo,  \* how many characters it still prints before it goes on
  next,  \* where it goes on then
  line   \* its line buffer, up to the terminator

cursor == <<cursor_x, cursor_y>>
input  == <<input_buffer, input_length, line_ready>>
main   == <<pc, reg, todo, next, line>>
vars   == <<cursor_x, cursor_y, input_buffer, input_length, line_ready,
            pc, reg, todo, next, line>>

-----------------------------------------------------------------------------
(* The keyboard interrupt: putchar and push_input without interruption. *)

newline(at) ==
  [x |-> 0, y |-> IF at.y + 1 >= Rows THEN Rows - 1 ELSE at.y + 1]

backspace(at) == IF at.x = 0 THEN at ELSE [at EXCEPT !.x = @ - 1]

(* Mutant of draw: the cursor stays behind the last column. *)
draw_off_by_one(at) ==
  IF at.x + 1 > Cols THEN newline([at EXCEPT !.x = @ + 1])
                     ELSE [at EXCEPT !.x = @ + 1]

draw(at) ==
  IF at.x + 1 >= Cols THEN newline([at EXCEPT !.x = @ + 1])
                      ELSE [at EXCEPT !.x = @ + 1]

putchar(c, at) == IF c = Tab THEN draw(draw(draw(draw(at)))) ELSE draw(at)

At == [x |-> cursor_x, y |-> cursor_y]

MoveCursor(to) == cursor_x' = to.x /\ cursor_y' = to.y

PushNewline ==
  /\ ~line_ready
  /\ MoveCursor(newline(At))
  /\ input_buffer' = [input_buffer EXCEPT ![input_length] = NUL]
  /\ line_ready' = TRUE
  /\ UNCHANGED <<input_length, main>>

PushBackspace ==
  /\ ~line_ready
  /\ input_length # 0
  /\ input_length' = input_length - 1
  /\ input_buffer' = [input_buffer EXCEPT ![input_length - 1] = NUL]
  /\ MoveCursor(backspace(At))
  /\ UNCHANGED <<line_ready, main>>

(* Mutant of PushChar: no room is kept for the terminator. *)
PushCharOverEnd(c) ==
  /\ ~line_ready
  /\ input_length < BufSize
  /\ input_buffer' = [input_buffer EXCEPT ![input_length] = c]
  /\ input_length' = input_length + 1
  /\ MoveCursor(putchar(c, At))
  /\ UNCHANGED <<line_ready, main>>

PushChar(c) ==
  /\ ~line_ready
  /\ input_length + 1 < BufSize
  /\ input_buffer' = [input_buffer EXCEPT ![input_length] = c,
                                          ![input_length + 1] = NUL]
  /\ input_length' = input_length + 1
  /\ MoveCursor(putchar(c, At))
  /\ UNCHANGED <<line_ready, main>>

(* A key that finds a finished line, an empty line to erase from or a full
   buffer changes nothing. *)
Irq == PushNewline \/ PushBackspace \/ \E c \in Char : PushChar(c)

-----------------------------------------------------------------------------
(* The main loop. *)

Goto(label) == pc' = label

(* rtl8139_poll prints what it receives, an executed command its output: any
   characters, of at most MaxOut in a row. *)
StartPrinting(label) ==
  /\ todo' \in 0 .. MaxOut
  /\ next' = label
  /\ Goto("print")

rtl8139_poll ==
  /\ pc = "poll"
  /\ StartPrinting("test")
  /\ UNCHANGED <<cursor, input, reg, line>>

TestLineReady ==
  /\ pc = "test"
  /\ Goto(IF line_ready THEN "copy" ELSE "poll")
  /\ UNCHANGED <<cursor, input, reg, todo, next, line>>

(* wnu_console_readline in four steps: the interrupt handler leaves the input
   line alone as long as line_ready is set. *)
Text(n) == [k \in 1 .. n |-> input_buffer[k - 1]]

(* Mutant of ReadlineCopy: line_ready is reset before the buffer. *)
ReadlineCopyReleasing ==
  /\ pc = "copy"
  /\ line' = Text(IF input_length >= LineSize THEN LineSize - 1 ELSE input_length)
  /\ line_ready' = FALSE
  /\ Goto("clear_length")
  /\ UNCHANGED <<cursor, input_buffer, input_length, reg, todo, next>>

ReadlineCopy ==
  /\ pc = "copy"
  /\ line' = Text(IF input_length >= LineSize THEN LineSize - 1 ELSE input_length)
  /\ Goto("clear_length")
  /\ UNCHANGED <<cursor, input, reg, todo, next>>

ReadlineClearLength ==
  /\ pc = "clear_length"
  /\ input_length' = 0
  /\ Goto("clear_buffer")
  /\ UNCHANGED <<cursor, input_buffer, line_ready, reg, todo, next, line>>

ReadlineClearBuffer ==
  /\ pc = "clear_buffer"
  /\ input_buffer' = [input_buffer EXCEPT ![0] = NUL]
  /\ Goto("clear_ready")
  /\ UNCHANGED <<cursor, input_length, line_ready, reg, todo, next, line>>

ReadlineClearReady ==
  /\ pc = "clear_ready"
  /\ line_ready' = FALSE
  /\ Goto("execute")
  /\ UNCHANGED <<cursor, input_buffer, input_length, reg, todo, next, line>>

(* The command prints, or it is clear, which moves the cursor home first; the
   prompt follows. *)
Execute ==
  /\ pc = "execute"
  /\ \/ StartPrinting("poll")
     \/ Goto("home_x") /\ UNCHANGED <<todo, next>>
  /\ UNCHANGED <<cursor, input, reg, line>>

ClearX ==
  /\ pc = "home_x"
  /\ cursor_x' = 0
  /\ Goto("home_y")
  /\ UNCHANGED <<cursor_y, input, reg, todo, next, line>>

ClearY ==
  /\ pc = "home_y"
  /\ cursor_y' = 0
  /\ StartPrinting("poll")
  /\ UNCHANGED <<cursor_x, input, reg, line>>

-----------------------------------------------------------------------------
(* putchar, interruptible. *)

Printed ==
  /\ pc = "print" /\ todo = 0
  /\ Goto(next)
  /\ UNCHANGED <<cursor, input, reg, todo, next, line>>

Printing == pc = "print" /\ todo # 0 /\ todo' = todo - 1

(* A glyph is drawn at the cursor as it was before. *)
LoadGlyph ==
  /\ Printing
  /\ reg' = cursor_x + 1
  /\ Goto("advance")
  /\ UNCHANGED <<cursor, input, next, line>>

Advance ==
  /\ pc = "advance"
  /\ cursor_x' = reg
  /\ reg' = 0
  /\ Goto(IF reg >= Cols THEN "newline" ELSE "print")
  /\ UNCHANGED <<cursor_y, input, todo, next, line>>

PrintNewline ==
  /\ Printing
  /\ Goto("newline")
  /\ UNCHANGED <<cursor, input, reg, next, line>>

(* cursor_x = 0 and the load of cursor_y++ come in either order. *)
NewlineX ==
  /\ pc \in {"newline", "newline_x"}
  /\ cursor_x' = 0
  /\ Goto(IF pc = "newline" THEN "newline_load" ELSE "newline_y")
  /\ UNCHANGED <<cursor_y, input, reg, todo, next, line>>

NewlineLoad ==
  /\ pc \in {"newline", "newline_load"}
  /\ reg' = cursor_y + 1
  /\ Goto(IF pc = "newline" THEN "newline_x" ELSE "newline_y")
  /\ UNCHANGED <<cursor, input, todo, next, line>>

NewlineY ==
  /\ pc = "newline_y"
  /\ cursor_y' = reg
  /\ reg' = 0
  /\ Goto(IF reg >= Rows THEN "scroll" ELSE "print")
  /\ UNCHANGED <<cursor_x, input, todo, next, line>>

Scrolled ==
  /\ pc = "scroll"
  /\ cursor_y' = Rows - 1
  /\ Goto("print")
  /\ UNCHANGED <<cursor_x, input, reg, todo, next, line>>

PrintReturn ==
  /\ Printing
  /\ cursor_x' = 0
  /\ UNCHANGED <<cursor_y, input, pc, reg, next, line>>

LoadBackspace ==
  /\ Printing
  /\ IF cursor_x = 0 THEN UNCHANGED <<pc, reg>>
                     ELSE reg' = cursor_x - 1 /\ Goto("back")
  /\ UNCHANGED <<cursor, input, next, line>>

Back ==
  /\ pc = "back"
  /\ cursor_x' = reg
  /\ reg' = 0
  /\ Goto("print")
  /\ UNCHANGED <<cursor_y, input, todo, next, line>>

Putchar ==
  \/ LoadGlyph \/ Advance \/ PrintNewline \/ PrintReturn \/ LoadBackspace \/ Back
  \/ NewlineLoad \/ NewlineX \/ NewlineY \/ Scrolled

Main ==
  \/ rtl8139_poll \/ TestLineReady \/ Execute \/ ClearX \/ ClearY
  \/ ReadlineCopy \/ ReadlineClearLength \/ ReadlineClearBuffer
  \/ ReadlineClearReady
  \/ Printed \/ Putchar

-----------------------------------------------------------------------------
(* After wnu_sti: the boot messages have left the cursor somewhere. *)
Init ==
  /\ cursor_x \in 0 .. Cols - 1
  /\ cursor_y \in 0 .. Rows - 1
  /\ input_buffer = [k \in Index |-> NUL]
  /\ input_length = 0
  /\ line_ready = FALSE
  /\ pc = "poll"
  /\ reg = 0
  /\ todo = 0
  /\ next = "poll"
  /\ line = <<>>

Next == Irq \/ Main

Spec == Init /\ [][Next]_vars

(* Nothing waits and nothing is disabled but by the interrupt itself, so the
   main loop keeps running however often it is interrupted. *)
FairSpec == Spec /\ WF_vars(Main)

-----------------------------------------------------------------------------
(* Properties. *)

Label == {"poll", "test", "copy", "clear_length", "clear_buffer", "clear_ready",
          "execute", "home_x", "home_y", "print", "advance", "newline",
          "newline_x", "newline_load", "newline_y", "scroll", "back"}

(* The shared variables have their types and the string in the input buffer is
   terminated inside it; the cursor runs over by at most one. *)
TypeOK ==
  /\ cursor_x \in 0 .. Cols /\ cursor_y \in 0 .. Rows
  /\ input_buffer \in [Index -> Char \cup {NUL}]
  /\ input_length \in Index
  /\ line_ready \in BOOLEAN
  /\ pc \in Label
  /\ reg \in 0 .. (IF Cols > Rows THEN Cols ELSE Rows)
  /\ todo \in 0 .. MaxOut
  /\ next \in {"poll", "test"}
  /\ line \in Seq(Char)

(* The cursor stands on the screen whenever the main loop is not in the middle
   of moving it, although the interrupt moves it between any two of the main
   loop's loads and stores, and the main loop then overwrites what the
   interrupt stored with what it loaded before. *)
CursorAtRest ==
  /\ pc \notin {"newline", "newline_x"} => cursor_x < Cols
  /\ pc # "scroll" => cursor_y < Rows

(* The console implements a line editor: a line reaches the shell as it was
   when Enter was pressed, keys struck while readline copies and resets the
   buffer neither change it nor survive into the next line, and every line is
   taken. *)
Editor == INSTANCE LineEditor WITH
  MaxLine <- BufSize - 1,
  draft   <- IF line_ready THEN <<>> ELSE Text(input_length),
  entered <- IF line_ready /\ pc \notin {"clear_length", "clear_buffer", "clear_ready"}
               THEN {Text(input_length)} ELSE {},
  taken   <- line

ImplementsLineEditor == Editor!Spec
=============================================================================
