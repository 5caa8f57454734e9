--------------------------- MODULE ConsoleProofs ---------------------------
(***************************************************************************)
(* The cursor and the input line stay within their bounds whatever the     *)
(* size of the screen and of the buffer, and wherever the interrupt comes. *)
(* The bounds on what the main loop holds in a register between a load and *)
(* a store are what makes the invariant inductive.                         *)
(***************************************************************************)
EXTENDS Console, TLAPS

(* What the main loop stores after an interrupt is in bounds too. *)
RegisterInBounds ==
  /\ reg \in Nat
  /\ pc = "advance" => 0 < reg /\ reg <= Cols
  /\ pc = "back" => reg < Cols
  /\ pc = "newline_x" \/ pc = "newline_y" => 0 < reg /\ reg <= Rows
  /\ reg <= Cols \/ reg <= Rows

CursorInv ==
  /\ cursor_x \in Nat /\ cursor_x <= Cols
  /\ cursor_y \in Nat /\ cursor_y <= Rows
  /\ CursorAtRest
  /\ RegisterInBounds

(* The interrupt handler leaves the input line alone from the moment the main
   loop has seen line_ready until readline resets it. *)
ReadlineInv ==
  /\ pc \in {"copy", "clear_length", "clear_buffer", "clear_ready"} => line_ready
  /\ pc \in {"clear_buffer", "clear_ready"} => input_length = 0

BufferInv ==
  /\ input_buffer \in [Index -> Char \cup {NUL}]
  /\ input_length \in Index
  /\ \A k \in 0 .. input_length - 1 : input_buffer[k] \in Char
  /\ line_ready \in BOOLEAN
  /\ ReadlineInv

LineInv == line \in Seq(Char)

LoopInv ==
  /\ pc \in Label
  /\ todo \in 0 .. MaxOut
  /\ next \in {"poll", "test"}

IInv == CursorInv /\ BufferInv /\ LineInv /\ LoopInv

-----------------------------------------------------------------------------
(* The echo of a key takes a cursor that is on the screen, or one past it in
   the middle of the main loop's putchar, to a column of the screen. *)
Position == {at \in [x : Nat, y : Nat] : at.x <= Cols /\ at.y <= Rows}

Echoed(at, to) ==
  /\ to \in Position
  /\ to.x < Cols
  /\ at.y < Rows => to.y < Rows

LEMMA NewlineEchoed ==
  ASSUME NEW at \in Position
  PROVE  Echoed(at, newline(at))
  BY ConsoleAssumption DEF Position, Echoed, newline

LEMMA BackspaceEchoed ==
  ASSUME NEW at \in Position
  PROVE  Echoed(at, backspace(at))
  BY ConsoleAssumption DEF Position, Echoed, backspace

LEMMA DrawEchoed ==
  ASSUME NEW at \in Position
  PROVE  Echoed(at, draw(at))
  BY ConsoleAssumption DEF Position, Echoed, draw, newline

LEMMA PutcharEchoed ==
  ASSUME NEW at \in Position, NEW c
  PROVE  Echoed(at, putchar(c, at))
<1>1. \A p \in Position : Echoed(p, draw(p))
  BY DrawEchoed
<1>. QED
  BY <1>1 DEF putchar, Echoed

(* An echo preserves the invariant of the cursor wherever the main loop is. *)
LEMMA EchoKeepsCursor ==
  ASSUME CursorInv, UNCHANGED main,
         NEW to, Echoed(At, to), MoveCursor(to)
  PROVE  CursorInv'
  BY DEF CursorInv, CursorAtRest, RegisterInBounds, Echoed, Position, At,
         MoveCursor, main

LEMMA AtPosition ==
  ASSUME CursorInv
  PROVE  At \in Position
  BY DEF CursorInv, At, Position

-----------------------------------------------------------------------------
LEMMA IndexIs ==
  /\ BufSize \in Nat
  /\ \A n : n \in Index <=> n \in Nat /\ n < BufSize
  /\ 0 \in Index
  BY ConsoleAssumption DEF Index

Cell == Char \cup {NUL}

Buffer == [Index -> Cell]

LEMMA IrqKeepsBuffer ==
  ASSUME BufferInv, Irq
  PROVE  BufferInv'
<1>0. NUL \in Cell /\ Char \subseteq Cell
  BY DEF Cell
<1>1. /\ input_buffer \in Buffer
      /\ input_length \in Index /\ input_length \in Nat /\ input_length < BufSize
      /\ \A k \in 0 .. input_length - 1 : input_buffer[k] \in Char /\ k \in Index
      /\ ReadlineInv
  BY IndexIs DEF BufferInv, Buffer, Cell
<1>2. UNCHANGED pc /\ ~line_ready
  BY DEF Irq, PushNewline, PushBackspace, PushChar, main
<1>3. /\ input_buffer' \in Buffer
      /\ input_length' \in Index
      /\ \A k \in 0 .. input_length' - 1 : input_buffer'[k] \in Char
      /\ line_ready' \in BOOLEAN
  <2>1. CASE PushNewline
    <3>1. input_buffer' = [input_buffer EXCEPT ![input_length] = NUL]
          /\ input_length' = input_length /\ line_ready' = TRUE
      BY <2>1 DEF PushNewline
    <3>2. /\ input_buffer' \in Buffer
          /\ \A k \in Index : input_buffer'[k] =
               IF k = input_length THEN NUL ELSE input_buffer[k]
      BY <1>0, <1>1, <3>1, SMT DEF Buffer
    <3>. QED
      BY <1>1, <3>1, <3>2
  <2>2. CASE PushBackspace
    <3>1. input_buffer' = [input_buffer EXCEPT ![input_length - 1] = NUL]
          /\ input_length' = input_length - 1 /\ input_length # 0
          /\ line_ready' = line_ready
      BY <2>2 DEF PushBackspace
    <3>2. input_length - 1 \in Index
      BY <1>1, <3>1, IndexIs
    <3>3. /\ input_buffer' \in Buffer
          /\ \A k \in Index : input_buffer'[k] =
               IF k = input_length - 1 THEN NUL ELSE input_buffer[k]
      BY <1>0, <1>1, <3>1, <3>2, SMT DEF Buffer
    <3>. QED
      BY <1>1, <1>2, <3>1, <3>2, <3>3 DEF BufferInv
  <2>3. ASSUME NEW c \in Char, PushChar(c)
        PROVE  <1>3
    <3>. DEFINE mid == [input_buffer EXCEPT ![input_length] = c]
    <3>1. input_buffer' = [mid EXCEPT ![input_length + 1] = NUL]
          /\ input_length' = input_length + 1 /\ input_length + 1 < BufSize
          /\ line_ready' = line_ready
      BY <2>3 DEF PushChar
    <3>2. input_length + 1 \in Index
      BY <1>1, <3>1, IndexIs
    <3>3. c \in Cell
      BY <1>0, <2>3
    <3>4. mid \in Buffer
          /\ \A k \in Index : mid[k] = IF k = input_length THEN c ELSE input_buffer[k]
      BY <1>1, <3>3, SMT DEF Buffer
    <3>. HIDE DEF mid
    <3>5. input_buffer' \in Buffer
          /\ \A k \in Index : input_buffer'[k] =
               IF k = input_length + 1 THEN NUL ELSE mid[k]
      BY <1>0, <3>1, <3>2, <3>4, SMT DEF Buffer
    <3>6. \A k \in 0 .. input_length' - 1 : input_buffer'[k] \in Char
      BY <1>1, <2>3, <3>1, <3>4, <3>5, IndexIs
    <3>. QED
      BY <1>2, <3>1, <3>2, <3>5, <3>6 DEF BufferInv
  <2>. QED
    BY <2>1, <2>2, <2>3 DEF Irq
<1>4. ReadlineInv'
  BY <1>1, <1>2 DEF ReadlineInv
<1>. QED
  BY <1>3, <1>4 DEF BufferInv, Buffer, Cell

LEMMA IrqKeepsCursor ==
  ASSUME CursorInv, Irq
  PROVE  CursorInv'
<1>1. CASE PushNewline
  BY <1>1, AtPosition, NewlineEchoed, EchoKeepsCursor DEF PushNewline
<1>2. CASE PushBackspace
  BY <1>2, AtPosition, BackspaceEchoed, EchoKeepsCursor DEF PushBackspace
<1>3. ASSUME NEW c \in Char, PushChar(c)
      PROVE  CursorInv'
  BY <1>3, AtPosition, PutcharEchoed, EchoKeepsCursor DEF PushChar
<1>. QED
  BY <1>1, <1>2, <1>3 DEF Irq

LEMMA IrqKeeps ==
  ASSUME IInv, Irq
  PROVE  IInv'
<1>1. UNCHANGED main
  BY DEF Irq, PushNewline, PushBackspace, PushChar
<1>2. LineInv' /\ LoopInv'
  BY <1>1 DEF IInv, LineInv, LoopInv, main
<1>. QED
  BY <1>2, IrqKeepsBuffer, IrqKeepsCursor DEF IInv

-----------------------------------------------------------------------------
LEMMA TextIsLine ==
  ASSUME NEW n \in Nat, \A k \in 1 .. n : input_buffer[k - 1] \in Char
  PROVE  Text(n) \in Seq(Char)
  BY DEF Text

LEMMA ReadlineCopies ==
  ASSUME BufferInv, ReadlineCopy
  PROVE  LineInv'
<1>. DEFINE n == IF input_length >= LineSize THEN LineSize - 1 ELSE input_length
<1>1. n \in Nat /\ n <= input_length /\ input_length \in Nat
  BY IndexIs, ConsoleAssumption DEF BufferInv
<1>2. \A k \in 1 .. n : input_buffer[k - 1] \in Char
  BY <1>1 DEF BufferInv
<1>3. line' = Text(n)
  BY DEF ReadlineCopy
<1>. HIDE DEF n
<1>. QED
  BY <1>1, <1>2, <1>3, TextIsLine DEF LineInv

LEMMA MainKeepsLine ==
  ASSUME BufferInv, LineInv, Main
  PROVE  LineInv'
<1>1. CASE ReadlineCopy
  BY <1>1, ReadlineCopies
<1>2. CASE UNCHANGED line
  BY <1>2 DEF LineInv
<1>. QED
  BY <1>1, <1>2
     DEF Main, rtl8139_poll, TestLineReady, Execute, ClearX, ClearY,
     ReadlineClearLength, ReadlineClearBuffer, ReadlineClearReady, Printed,
     Putchar, LoadGlyph, Advance, PrintNewline, PrintReturn, LoadBackspace,
     Back, NewlineLoad, NewlineX, NewlineY, Scrolled

(* Only readline touches the input line, and it has seen line_ready. *)
LEMMA MainKeepsBuffer ==
  ASSUME BufferInv, LoopInv, Main
  PROVE  BufferInv'
<1>. USE DEF BufferInv, ReadlineInv, Goto
<1>1. CASE ReadlineCopy
  BY <1>1 DEF ReadlineCopy, input
<1>2. CASE ReadlineClearLength
  BY <1>2, IndexIs DEF ReadlineClearLength
<1>3. CASE ReadlineClearBuffer
  <2>1. input_length' = 0 /\ line_ready' /\ pc' = "clear_ready"
    BY <1>3 DEF ReadlineClearBuffer
  <2>2. input_buffer' \in [Index -> Char \cup {NUL}]
    BY <1>3 DEF ReadlineClearBuffer
  <2>3. \A k \in 0 .. input_length' - 1 : FALSE
    BY <2>1
  <2>. QED
    BY <2>1, <2>2, <2>3, IndexIs
<1>4. CASE ReadlineClearReady
  BY <1>4 DEF ReadlineClearReady
<1>5. CASE rtl8139_poll \/ TestLineReady \/ Execute \/ ClearX \/ ClearY \/ Printed
  BY <1>5 DEF rtl8139_poll, TestLineReady, Execute, ClearX, ClearY, Printed,
     StartPrinting, LoopInv, input
<1>6. CASE Putchar
  BY <1>6 DEF Putchar, LoadGlyph, Advance, PrintNewline, PrintReturn,
     LoadBackspace, Back, NewlineLoad, NewlineX, NewlineY, Scrolled,
     Printing, input
<1>. QED
  BY <1>1, <1>2, <1>3, <1>4, <1>5, <1>6 DEF Main

LEMMA MainKeepsLoop ==
  ASSUME LoopInv, Main
  PROVE  LoopInv'
<1>. USE ConsoleAssumption DEF LoopInv, Goto
<1>1. pc' \in Label
  BY DEF Label, Main, rtl8139_poll, TestLineReady, Execute, ClearX, ClearY,
     StartPrinting, ReadlineCopy, ReadlineClearLength, ReadlineClearBuffer,
     ReadlineClearReady, Printed, Putchar, LoadGlyph, Advance, PrintNewline,
     PrintReturn, LoadBackspace, Back, NewlineLoad, NewlineX, NewlineY, Scrolled
<1>2. todo' \in 0 .. MaxOut
  <2>1. CASE UNCHANGED todo \/ todo' \in 0 .. MaxOut
    BY <2>1
  <2>2. CASE Printing
    BY <2>2 DEF Printing
  <2>. QED
    BY <2>1, <2>2
    DEF Main, rtl8139_poll, TestLineReady, Execute, ClearX, ClearY,
     StartPrinting, ReadlineCopy, ReadlineClearLength, ReadlineClearBuffer,
     ReadlineClearReady, Printed, Putchar, LoadGlyph, Advance, PrintNewline,
     PrintReturn, LoadBackspace, Back, NewlineLoad, NewlineX, NewlineY, Scrolled
<1>3. next' \in {"poll", "test"}
  BY DEF Main, rtl8139_poll, TestLineReady, Execute, ClearX, ClearY,
     StartPrinting, ReadlineCopy, ReadlineClearLength, ReadlineClearBuffer,
     ReadlineClearReady, Printed, Putchar, LoadGlyph, Advance, PrintNewline,
     PrintReturn, LoadBackspace, Back, NewlineLoad, NewlineX, NewlineY, Scrolled
<1>. QED
  BY <1>1, <1>2, <1>3

LEMMA MainKeepsCursor ==
  ASSUME CursorInv, LoopInv, Main
  PROVE  CursorInv'
<1>. USE ConsoleAssumption DEF CursorInv, CursorAtRest, RegisterInBounds, Goto
<1>1. CASE rtl8139_poll
  BY <1>1 DEF rtl8139_poll, StartPrinting, cursor
<1>2. CASE TestLineReady
  BY <1>2 DEF TestLineReady, cursor
<1>3. CASE Execute
  BY <1>3 DEF Execute, StartPrinting, cursor
<1>4. CASE ClearX
  BY <1>4 DEF ClearX
<1>5. CASE ClearY
  BY <1>5 DEF ClearY, StartPrinting
<1>6. CASE ReadlineCopy
  BY <1>6 DEF ReadlineCopy, cursor
<1>7. CASE ReadlineClearLength
  BY <1>7 DEF ReadlineClearLength, cursor
<1>8. CASE ReadlineClearBuffer
  BY <1>8 DEF ReadlineClearBuffer, cursor
<1>9. CASE ReadlineClearReady
  BY <1>9 DEF ReadlineClearReady, cursor
<1>10. CASE Printed
  BY <1>10 DEF Printed, cursor, LoopInv
<1>11. CASE Putchar
  <2>1. CASE LoadGlyph
    BY <2>1 DEF LoadGlyph, Printing, cursor
  <2>2. CASE Advance
    BY <2>2 DEF Advance
  <2>3. CASE PrintNewline
    BY <2>3 DEF PrintNewline, Printing, cursor
  <2>4. CASE PrintReturn
    BY <2>4 DEF PrintReturn, Printing
  <2>5. CASE LoadBackspace
    BY <2>5 DEF LoadBackspace, Printing, cursor
  <2>6. CASE Back
    BY <2>6 DEF Back
  <2>7. CASE NewlineLoad
    BY <2>7 DEF NewlineLoad, cursor
  <2>8. CASE NewlineX
    BY <2>8 DEF NewlineX
  <2>9. CASE NewlineY
    BY <2>9 DEF NewlineY
  <2>10. CASE Scrolled
    BY <2>10 DEF Scrolled
  <2>. QED
    BY <1>11, <2>1, <2>2, <2>3, <2>4, <2>5, <2>6, <2>7, <2>8, <2>9, <2>10
       DEF Putchar
<1>. QED
  BY <1>1, <1>2, <1>3, <1>4, <1>5, <1>6, <1>7, <1>8, <1>9, <1>10, <1>11 DEF Main

LEMMA InitIInv == Init => IInv
<1>. SUFFICES ASSUME Init PROVE IInv
  OBVIOUS
<1>1. CursorInv
  BY ConsoleAssumption DEF Init, CursorInv, CursorAtRest, RegisterInBounds
<1>2. BufferInv
  <2>1. input_buffer \in [Index -> Char \cup {NUL}]
    BY DEF Init
  <2>2. input_length = 0 /\ line_ready = FALSE /\ pc = "poll"
    BY DEF Init
  <2>. QED
    <3>1. \A k \in 0 .. input_length - 1 : FALSE
      BY <2>2
    <3>. QED
      BY <2>1, <2>2, <3>1, IndexIs DEF BufferInv, ReadlineInv
<1>3. LineInv
  BY DEF Init, LineInv
<1>4. LoopInv
  BY ConsoleAssumption DEF Init, LoopInv, Label
<1>. QED
  BY <1>1, <1>2, <1>3, <1>4 DEF IInv

LEMMA Invariance == Spec => []IInv
<1>1. Init => IInv
  BY InitIInv
<1>2. IInv /\ [Next]_vars => IInv'
  <2>1. IInv /\ UNCHANGED vars => IInv'
    BY DEF vars, IInv, CursorInv, CursorAtRest, RegisterInBounds, BufferInv,
       ReadlineInv, LineInv, LoopInv
  <2>2. IInv /\ Main => IInv'
    BY MainKeepsCursor, MainKeepsBuffer, MainKeepsLine, MainKeepsLoop DEF IInv
  <2>. QED
    BY <2>1, <2>2, IrqKeeps DEF Next
<1>. QED
  BY <1>1, <1>2, PTL DEF Spec

(* The shared variables keep their types; the input line never outgrows its
   buffer and what the shell gets holds no terminator. *)
THEOREM TypeCorrect == Spec => []TypeOK
<1>1. IInv => TypeOK
  <2>. SUFFICES ASSUME IInv PROVE TypeOK
    OBVIOUS
  <2>1. reg \in 0 .. (IF Cols > Rows THEN Cols ELSE Rows)
    BY ConsoleAssumption DEF IInv, CursorInv, RegisterInBounds
  <2>. QED
    BY <2>1, ConsoleAssumption
       DEF IInv, CursorInv, BufferInv, LineInv, LoopInv, TypeOK
<1>. QED
  BY <1>1, Invariance, PTL

(* The cursor is on the screen except inside the main loop's newline. *)
THEOREM CursorStaysOnScreen == Spec => []CursorAtRest
<1>1. IInv => CursorAtRest
  BY DEF IInv, CursorInv
<1>. QED
  BY <1>1, Invariance, PTL
-----------------------------------------------------------------------------
(* The console is a line editor, as far as safety goes.  Every step of the
   console leaves the editor alone or is one of its steps: the interrupt types,
   erases and enters, and the copy of readline takes.  The line of the main
   loop must have room for whatever the input buffer holds: both are of 256
   characters. *)
LineFits == BufSize <= LineSize

Draft == IF line_ready THEN <<>> ELSE Text(input_length)

Entered ==
  IF line_ready /\ pc \notin {"clear_length", "clear_buffer", "clear_ready"}
    THEN {Text(input_length)} ELSE {}

LEMMA EditorActions ==
  /\ Editor!Init <=> Draft = <<>> /\ Entered = {} /\ line = <<>>
  /\ \A c : Editor!Type(c) <=>
       Entered = {} /\ Len(Draft) < BufSize - 1 /\ Draft' = Append(Draft, c)
       /\ Entered' = Entered /\ line' = line
  /\ Editor!Erase <=>
       Entered = {} /\ Draft # <<>> /\ Draft' = SubSeq(Draft, 1, Len(Draft) - 1)
       /\ Entered' = Entered /\ line' = line
  /\ Editor!Enter <=>
       Entered = {} /\ Entered' = {Draft} /\ Draft' = <<>> /\ line' = line
  /\ Editor!Take <=>
       line' \in Entered /\ Entered' = {} /\ Draft' = Draft
  /\ UNCHANGED Editor!vars <=>
       Draft' = Draft /\ Entered' = Entered /\ line' = line
  BY DEF Editor!Init, Editor!Type, Editor!Erase, Editor!Enter, Editor!Take,
     Editor!vars, Editor!Front, Draft, Entered

EditorStep == Editor!Next \/ UNCHANGED Editor!vars

LEMMA TextIs ==
  ASSUME NEW n \in Nat
  PROVE  /\ Text(n) = [k \in 1 .. n |-> input_buffer[k - 1]]
         /\ Len(Text(n)) = n
         /\ n = 0 <=> Text(n) = <<>>
  BY DEF Text

(* The rest of the text when the handler has written behind its end, at its
   last character, or before its new end. *)
LEMMA TextKept ==
  ASSUME NEW n \in Nat, \A k \in 0 .. n - 1 : input_buffer'[k] = input_buffer[k]
  PROVE  Text(n)' = Text(n)
<1>1. Text(n)' = [k \in 1 .. n |-> input_buffer'[k - 1]]
  BY DEF Text
<1>2. \A k \in 1 .. n : k - 1 \in 0 .. n - 1
  OBVIOUS
<1>. QED
  BY <1>1, <1>2, Zenon DEF Text

LEMMA TextExtended ==
  ASSUME NEW n \in Nat, NEW c, input_buffer'[n] = c,
         \A k \in 0 .. n - 1 : input_buffer'[k] = input_buffer[k]
  PROVE  Text(n + 1)' = Append(Text(n), c)
  BY DEF Text

LEMMA TextCut ==
  ASSUME NEW n \in Nat \ {0}
  PROVE  SubSeq(Text(n), 1, n - 1) = Text(n - 1)
  BY DEF Text

LEMMA IrqEdits ==
  ASSUME BufferInv, Irq
  PROVE  EditorStep
<1>1. /\ input_buffer \in [Index -> Cell]
      /\ input_length \in Nat /\ input_length < BufSize
      /\ ReadlineInv
  BY IndexIs DEF BufferInv, Cell
<1>2. /\ ~line_ready /\ pc' = pc /\ line' = line
      /\ pc \notin {"clear_length", "clear_buffer", "clear_ready"}
  BY <1>1 DEF Irq, PushNewline, PushBackspace, PushChar, main, ReadlineInv
<1>3. Draft = Text(input_length) /\ Entered = {}
  BY <1>2 DEF Draft, Entered
<1>4. CASE PushNewline
  <2>1. /\ input_buffer' = [input_buffer EXCEPT ![input_length] = NUL]
        /\ input_length' = input_length /\ line_ready' = TRUE
    BY <1>4 DEF PushNewline
  <2>2. \A k \in 0 .. input_length - 1 : input_buffer'[k] = input_buffer[k]
    BY <1>1, <2>1, IndexIs
  <2>3. Text(input_length)' = Text(input_length)
    <3>1. PICK n \in Nat : n = input_length
      BY <1>1
    <3>2. Text(n)' = Text(n)
      BY <2>2, <3>1, TextKept
    <3>3. Text(input_length)' = Text(n)'
      BY <2>1, <3>1 DEF Text
    <3>. QED
      BY <3>1, <3>2, <3>3
  <2>4. Draft' = <<>> /\ Entered' = {Draft}
    BY <1>2, <1>3, <2>1, <2>3 DEF Draft, Entered
  <2>. QED
    BY <1>2, <1>3, <2>4, EditorActions DEF EditorStep, Editor!Next
<1>5. CASE PushBackspace
  <2>1. /\ input_buffer' = [input_buffer EXCEPT ![input_length - 1] = NUL]
        /\ input_length' = input_length - 1 /\ input_length # 0
        /\ line_ready' = line_ready
    BY <1>5 DEF PushBackspace
  <2>2. PICK n \in Nat \ {0} : n = input_length
    BY <1>1, <2>1
  <2>3. n - 1 \in Nat /\ \A k \in 0 .. (n - 1) - 1 : input_buffer'[k] = input_buffer[k]
    BY <1>1, <2>1, <2>2, IndexIs
  <2>4. Text(n - 1)' = Text(n - 1)
    BY <2>3, TextKept
  <2>5. Draft' = Text(n - 1)' /\ Entered' = {}
    BY <1>2, <2>1, <2>2 DEF Draft, Entered, Text
  <2>6. Draft = Text(n) /\ Len(Text(n)) = n /\ Text(n) # <<>>
    BY <1>3, <2>2, TextIs
  <2>7. Draft' = SubSeq(Draft, 1, Len(Draft) - 1)
    BY <2>4, <2>5, <2>6, TextCut, Zenon
  <2>. QED
    BY <1>2, <1>3, <2>5, <2>6, <2>7, EditorActions, Zenon DEF EditorStep, Editor!Next
<1>6. ASSUME NEW c \in Char, PushChar(c)
      PROVE  EditorStep
  <2>1. /\ input_buffer' = [input_buffer EXCEPT ![input_length] = c,
                                                ![input_length + 1] = NUL]
        /\ input_length' = input_length + 1 /\ input_length + 1 < BufSize
        /\ line_ready' = line_ready
    BY <1>6 DEF PushChar
  <2>2. PICK n \in Nat : n = input_length
    BY <1>1
  <2>3. /\ input_buffer'[n] = c
        /\ \A k \in 0 .. n - 1 : input_buffer'[k] = input_buffer[k]
    BY <1>1, <2>1, <2>2, IndexIs
  <2>4. Text(n + 1)' = Append(Text(n), c)
    BY <2>3, TextExtended
  <2>5. Draft' = Text(n + 1)' /\ Entered' = {}
    BY <1>2, <2>1, <2>2 DEF Draft, Entered, Text
  <2>6. Draft = Text(n) /\ Len(Draft) < BufSize - 1
    BY <1>3, <2>1, <2>2, TextIs, IndexIs
  <2>7. Editor!Type(c)
    BY <1>2, <1>3, <2>4, <2>5, <2>6, EditorActions, Zenon
  <2>. QED
    BY <2>7 DEF EditorStep, Editor!Next
<1>. QED
  BY <1>4, <1>5, <1>6 DEF Irq

(* What the main loop does before and after readline is none of the editor's
   business. *)
LEMMA MainEdits ==
  ASSUME BufferInv, LoopInv, Main, LineFits
  PROVE  EditorStep
<1>1. input_length \in Nat /\ input_length < BufSize /\ ReadlineInv
  BY IndexIs DEF BufferInv
<1>2. CASE ReadlineCopy
  <2>1. line_ready /\ pc \notin {"clear_length", "clear_buffer", "clear_ready"}
    BY <1>1, <1>2 DEF ReadlineCopy, ReadlineInv
  <2>2. line_ready' /\ pc' = "clear_length"
    BY <1>2, <2>1 DEF ReadlineCopy, Goto, input
  <2>3. ~(input_length >= LineSize)
    BY <1>1, ConsoleAssumption DEF LineFits
  <2>4. line' = Text(input_length)
    BY <1>2, <2>3 DEF ReadlineCopy
  <2>5. Draft' = Draft /\ Entered' = {} /\ line' \in Entered
    BY <2>1, <2>2, <2>4 DEF Draft, Entered
  <2>. QED
    BY <2>5, EditorActions DEF EditorStep, Editor!Next
<1>3. CASE ReadlineClearLength \/ ReadlineClearBuffer
  <2>1. line_ready /\ line_ready' = line_ready /\ line' = line
    BY <1>1, <1>3 DEF ReadlineClearLength, ReadlineClearBuffer, ReadlineInv
  <2>2. Entered = {} /\ Entered' = {}
    BY <1>3 DEF Entered, ReadlineClearLength, ReadlineClearBuffer, Goto
  <2>. QED
    BY <2>1, <2>2, EditorActions DEF EditorStep, Draft
<1>4. CASE ReadlineClearReady
  <2>1. /\ line_ready /\ input_length = 0 /\ ~line_ready'
        /\ input_length' = 0 /\ line' = line /\ pc = "clear_ready"
    BY <1>1, <1>4 DEF ReadlineClearReady, ReadlineInv
  <2>2. Draft = <<>> /\ Entered = {} /\ Entered' = {}
    BY <2>1 DEF Draft, Entered
  <2>3. Draft' = <<>>
    BY <2>1 DEF Draft, Text
  <2>. QED
    BY <2>1, <2>2, <2>3, EditorActions DEF EditorStep
<1>5. CASE rtl8139_poll \/ TestLineReady \/ Execute \/ ClearX \/ ClearY
           \/ Printed \/ Putchar
  <2>1. UNCHANGED <<input, line>>
    BY <1>5 DEF rtl8139_poll, TestLineReady, Execute, ClearX, ClearY, Printed,
       Putchar, LoadGlyph, Advance, PrintNewline, PrintReturn, LoadBackspace,
       Back, NewlineLoad, NewlineX, NewlineY, Scrolled
  <2>2. /\ pc \notin {"clear_length", "clear_buffer", "clear_ready"}
        /\ pc' \notin {"clear_length", "clear_buffer", "clear_ready"}
    BY <1>5 DEF rtl8139_poll, TestLineReady, Execute, ClearX, ClearY, Printed,
       Putchar, LoadGlyph, Advance, PrintNewline, PrintReturn, LoadBackspace,
       Back, NewlineLoad, NewlineX, NewlineY, Scrolled, Goto, StartPrinting,
       Printing, LoopInv
  <2>3. Draft' = Draft /\ Entered' = Entered
    BY <2>1, <2>2 DEF Draft, Entered, Text, input
  <2>. QED
    BY <2>1, <2>3, EditorActions DEF EditorStep
<1>. QED
  BY <1>2, <1>3, <1>4, <1>5 DEF Main

(* A line reaches the shell as it was when Enter was pressed; keys struck while
   readline copies and resets the buffer neither change it nor survive into the
   next line: the console implements the line editor but for its fairness. *)
THEOREM ImplementsEditor == LineFits => (Spec => Editor!Safe)
<1>. SUFFICES ASSUME LineFits PROVE Spec => Editor!Safe
  OBVIOUS
<1>1. Init => Editor!Init
  <2>. SUFFICES ASSUME Init PROVE Editor!Init
    OBVIOUS
  <2>1. line_ready = FALSE /\ input_length = 0 /\ line = <<>>
    BY DEF Init
  <2>2. Draft = <<>> /\ Entered = {}
    BY <2>1 DEF Draft, Entered, Text
  <2>. QED
    BY <2>1, <2>2, EditorActions
<1>2. IInv /\ [Next]_vars => [Editor!Next]_(Editor!vars)
  <2>. SUFFICES ASSUME IInv, [Next]_vars PROVE EditorStep
    BY DEF EditorStep
  <2>1. CASE UNCHANGED vars
    <3>1. Draft' = Draft /\ Entered' = Entered /\ line' = line
      BY <2>1 DEF vars, Draft, Entered, Text
    <3>. QED
      BY <3>1, EditorActions DEF EditorStep
  <2>2. CASE Irq
    BY <2>2, IrqEdits DEF IInv
  <2>3. CASE Main
    BY <2>3, MainEdits DEF IInv
  <2>. QED
    BY <2>1, <2>2, <2>3 DEF Next
<1>. QED
  BY <1>1, <1>2, Invariance, PTL DEF Spec, Editor!Safe

-----------------------------------------------------------------------------
(* The way of a finished line to the shell. *)

Taking == {"copy", "clear_length", "clear_buffer", "clear_ready"}

(* The steps of a round that has nothing to execute: a poll, what it prints, at
   most seven steps for a character, and the test. *)
Round == 7 * MaxOut + 3

InPutchar(label) ==
  CASE label = "advance"   -> 5
    [] label = "newline"   -> 4
    [] label \in {"newline_x", "newline_load"} -> 3
    [] label = "newline_y" -> 2
    [] label \in {"scroll", "back"} -> 1
    [] OTHER -> 0

(* The steps that are left when the main loop is about to print the next of
   some characters, before it goes on to the test or to a poll. *)
Printout(chars, then) == 7 * chars + (IF then = "test" THEN 2 ELSE Round + 1)

(* How many steps of the main loop are left at most before it takes a line
   that is ready. *)
Left(label, chars, then) ==
  CASE label \in Taking   -> 0
    [] label = "test"      -> 1
    [] label = "poll"      -> Round
    [] label = "home_y"    -> 2 * Round
    [] label = "home_x"    -> 2 * Round + 1
    [] label = "execute"   -> 2 * Round + 2
    [] OTHER -> Printout(chars, then) + InPutchar(label)

StepsToTake == Left(pc, todo, next)

LEMMA LeftIs ==
  ASSUME NEW n \in 0 .. MaxOut, NEW g \in {"poll", "test"}
  PROVE  /\ \A label \in Taking : Left(label, n, g) = 0
         /\ Left("test", n, g) = 1 /\ Left("poll", n, g) = Round
         /\ Left("home_y", n, g) = 2 * Round
         /\ Left("home_x", n, g) = 2 * Round + 1
         /\ Left("execute", n, g) = 2 * Round + 2
         /\ Printout(n, g) \in Nat
         /\ g = "test" => Printout(n, g) = 7 * n + 2 /\ Printout(n, g) < Round
         /\ g = "poll" => Printout(n, g) = 7 * n + Round + 1 /\ Printout(n, g) < 2 * Round - 1
         /\ Left("print", n, g) = Printout(n, g)
         /\ Left("advance", n, g) = Printout(n, g) + 5
         /\ Left("newline", n, g) = Printout(n, g) + 4
         /\ Left("newline_x", n, g) = Printout(n, g) + 3
         /\ Left("newline_load", n, g) = Printout(n, g) + 3
         /\ Left("newline_y", n, g) = Printout(n, g) + 2
         /\ Left("scroll", n, g) = Printout(n, g) + 1
         /\ Left("back", n, g) = Printout(n, g) + 1
<1>1. Round \in Nat
  BY ConsoleAssumption DEF Round
<1>2. /\ Printout(n, g) \in Nat
      /\ g = "test" => Printout(n, g) = 7 * n + 2 /\ Printout(n, g) < Round
      /\ g = "poll" => Printout(n, g) = 7 * n + Round + 1 /\ Printout(n, g) < 2 * Round - 1
  <2>1. /\ MaxOut \in Nat /\ n \in Nat /\ 7 * n <= 7 * MaxOut
        /\ Round = 7 * MaxOut + 3
    BY ConsoleAssumption DEF Round
  <2>2. CASE g = "test"
    BY <2>1, <2>2 DEF Printout
  <2>3. CASE g = "poll"
    BY <2>1, <2>3 DEF Printout
  <2>. QED
    BY <2>2, <2>3
<1>. QED
  BY <1>1, <1>2 DEF Left, InPutchar, Taking

(* Once Enter has been pressed every step is one of the main loop that brings
   it nearer to taking the line, and the line stays as it is: no key and no
   output keeps a line from the shell for longer than two rounds.  Besides
   fairness this is what the promise that every line is taken rests on. *)
EveryStepNearsTheLine ==
  [][line_ready /\ pc \notin Taking =>
       Main /\ UNCHANGED input /\ StepsToTake' < StepsToTake]_vars

(* The measure stays below a bound that only the longest output decides, and goes
   down with every step after Enter: interrupts do not delay the main loop. *)
THEOREM LinesAreTakenSoon ==
  Spec => [](StepsToTake \in 0 .. 2 * Round + 4) /\ EveryStepNearsTheLine
<1>1. ASSUME LoopInv PROVE StepsToTake \in 0 .. 2 * Round + 4
  <2>1. todo \in 0 .. MaxOut /\ next \in {"poll", "test"} /\ pc \in Label
        /\ MaxOut \in Nat
    BY <1>1, ConsoleAssumption DEF LoopInv
  <2>2. /\ Printout(todo, next) \in Nat /\ Printout(todo, next) < 2 * Round - 1
        /\ Round \in Nat /\ Round >= 3
    BY <2>1, LeftIs DEF Round
  <2>3. PICK n \in Nat : n = Printout(todo, next) /\ n < 2 * Round - 1
    BY <2>2
  <2>4. \A d \in 0 .. 5 : n + d \in 0 .. 2 * Round + 4
    BY <2>2, <2>3
  <2>. QED
    BY <2>1, <2>2, <2>3, <2>4, LeftIs DEF StepsToTake, Label, Taking
<1>2. ASSUME LoopInv, LoopInv', Next, line_ready, pc \notin Taking
      PROVE  Main /\ UNCHANGED input /\ StepsToTake' < StepsToTake
  <2>1. Main
    BY <1>2 DEF Next, Irq, PushNewline, PushBackspace, PushChar
  <2>2. UNCHANGED input
    BY <1>2, <2>1
    DEF Main, rtl8139_poll, TestLineReady, Execute, ClearX, ClearY,
       StartPrinting, ReadlineCopy, ReadlineClearLength, ReadlineClearBuffer,
       ReadlineClearReady, Printed, Putchar, LoadGlyph, Advance, PrintNewline,
       PrintReturn, LoadBackspace, Back, NewlineLoad, NewlineX, NewlineY, Scrolled,
       Taking, Printing, Goto, input, cursor
  <2>. DEFINE p == Printout(todo, next)
              q == Printout(todo', next')
  <2>3. /\ todo \in 0 .. MaxOut /\ todo' \in 0 .. MaxOut
        /\ next \in {"poll", "test"} /\ next' \in {"poll", "test"}
        /\ MaxOut \in Nat /\ Round \in Nat /\ Round = 7 * MaxOut + 3
    BY <1>2, ConsoleAssumption DEF LoopInv, Round
  <2>4. /\ p \in Nat /\ q \in Nat
        /\ next = "test" => p = 7 * todo + 2
        /\ next = "poll" => p = 7 * todo + Round + 1
        /\ next' = "test" => q = 7 * todo' + 2 /\ q < Round
        /\ next' = "poll" => q = 7 * todo' + Round + 1 /\ q < 2 * Round
    BY <2>3, LeftIs
  <2>5. StepsToTake = Left(pc, todo, next) /\ StepsToTake' = Left(pc', todo', next')
    BY DEF StepsToTake, Left, InPutchar, Printout
  <2>. HIDE DEF StepsToTake, p, q
  <2>6. CASE rtl8139_poll
    <3>1. /\ pc = "poll"
          /\ pc' = "print" /\ next' = "test"
      BY <1>2, <2>3, <2>6 DEF rtl8139_poll, StartPrinting, Goto
    <3>2. /\ StepsToTake = Round
          /\ StepsToTake' = q /\ next' = "test"
      BY <2>3, <2>5, <3>1, LeftIs DEF p, q, Taking
    <3>. QED
      BY <2>1, <2>2, <2>3, <2>4, <3>2
  <2>7. CASE TestLineReady
    <3>1. /\ pc = "test"
          /\ pc' = "copy" /\ todo' = todo /\ next' = next
      BY <1>2, <2>3, <2>7 DEF TestLineReady, Goto
    <3>2. /\ StepsToTake = 1
          /\ StepsToTake' = 0 /\ todo' = todo /\ next' = next
      BY <2>3, <2>5, <3>1, LeftIs DEF p, q, Taking
    <3>. QED
      BY <2>1, <2>2, <2>3, <2>4, <3>2
  <2>8. CASE Execute
    <3>1. /\ pc = "execute"
          /\ \/ pc' = "print" /\ next' = "poll"
             \/ pc' = "home_x"
      BY <1>2, <2>3, <2>8 DEF Execute, StartPrinting, Goto
    <3>2. /\ StepsToTake = 2 * Round + 2
          /\ \/ StepsToTake' = q /\ next' = "poll"
             \/ StepsToTake' = 2 * Round + 1
      BY <2>3, <2>5, <3>1, LeftIs DEF p, q, Taking
    <3>3. CASE StepsToTake' = q /\ next' = "poll"
      <4>1. q < 2 * Round /\ q \in Nat /\ Round \in Nat
        BY <2>3, <2>4, <3>3
      <4>2. q < 2 * Round + 2
        BY <4>1
      <4>. QED
        BY <2>1, <2>2, <3>2, <3>3, <4>2
    <3>4. CASE StepsToTake' = 2 * Round + 1
      BY <2>1, <2>2, <2>3, <2>4, <3>2, <3>4
    <3>. QED
      BY <3>2, <3>3, <3>4
  <2>9. CASE ClearX
    <3>1. /\ pc = "home_x"
          /\ pc' = "home_y" /\ todo' = todo /\ next' = next
      BY <1>2, <2>3, <2>9 DEF ClearX, Goto
    <3>2. /\ StepsToTake = 2 * Round + 1
          /\ StepsToTake' = 2 * Round /\ todo' = todo /\ next' = next
      BY <2>3, <2>5, <3>1, LeftIs DEF p, q, Taking
    <3>. QED
      BY <2>1, <2>2, <2>3, <2>4, <3>2
  <2>10. CASE ClearY
    <3>1. /\ pc = "home_y"
          /\ pc' = "print" /\ next' = "poll"
      BY <1>2, <2>3, <2>10 DEF ClearY, StartPrinting, Goto
    <3>2. /\ StepsToTake = 2 * Round
          /\ StepsToTake' = q /\ next' = "poll"
      BY <2>3, <2>5, <3>1, LeftIs DEF p, q, Taking
    <3>. QED
      BY <2>1, <2>2, <2>3, <2>4, <3>2
  <2>11. CASE Printed
    <3>1. /\ pc = "print"
          /\ \/ pc' = "poll" /\ next = "poll"
             \/ pc' = "test" /\ next = "test"
      BY <1>2, <2>3, <2>11 DEF Printed, Goto
    <3>2. /\ StepsToTake = p
          /\ \/ StepsToTake' = Round /\ next = "poll"
             \/ StepsToTake' = 1 /\ next = "test"
      BY <2>3, <2>5, <3>1, LeftIs DEF p, q, Taking
    <3>3. CASE StepsToTake' = Round /\ next = "poll"
      BY <2>1, <2>2, <2>3, <2>4, <3>2, <3>3
    <3>4. CASE StepsToTake' = 1 /\ next = "test"
      BY <2>1, <2>2, <2>3, <2>4, <3>2, <3>4
    <3>. QED
      BY <3>2, <3>3, <3>4
  <2>12. CASE LoadGlyph
    <3>1. /\ pc = "print"
          /\ pc' = "advance" /\ todo # 0 /\ todo' = todo - 1 /\ next' = next
      BY <1>2, <2>3, <2>12 DEF LoadGlyph, Printing, Goto
    <3>2. /\ StepsToTake = p
          /\ StepsToTake' = q + 5 /\ todo # 0 /\ todo' = todo - 1 /\ next' = next
      BY <2>3, <2>5, <3>1, LeftIs DEF p, q, Taking
    <3>. QED
      BY <2>1, <2>2, <2>3, <2>4, <3>2
  <2>13. CASE PrintNewline
    <3>1. /\ pc = "print"
          /\ pc' = "newline" /\ todo # 0 /\ todo' = todo - 1 /\ next' = next
      BY <1>2, <2>3, <2>13 DEF PrintNewline, Printing, Goto
    <3>2. /\ StepsToTake = p
          /\ StepsToTake' = q + 4 /\ todo # 0 /\ todo' = todo - 1 /\ next' = next
      BY <2>3, <2>5, <3>1, LeftIs DEF p, q, Taking
    <3>. QED
      BY <2>1, <2>2, <2>3, <2>4, <3>2
  <2>14. CASE PrintReturn
    <3>1. /\ pc = "print"
          /\ pc' = "print" /\ todo # 0 /\ todo' = todo - 1 /\ next' = next
      BY <1>2, <2>3, <2>14 DEF PrintReturn, Printing, Goto
    <3>2. /\ StepsToTake = p
          /\ StepsToTake' = q /\ todo # 0 /\ todo' = todo - 1 /\ next' = next
      BY <2>3, <2>5, <3>1, LeftIs DEF p, q, Taking
    <3>. QED
      BY <2>1, <2>2, <2>3, <2>4, <3>2
  <2>15. CASE LoadBackspace
    <3>1. /\ pc = "print"
          /\ \/ pc' = "print" /\ todo # 0 /\ todo' = todo - 1 /\ next' = next
             \/ pc' = "back" /\ todo # 0 /\ todo' = todo - 1 /\ next' = next
      BY <1>2, <2>3, <2>15 DEF LoadBackspace, Printing, Goto
    <3>2. /\ StepsToTake = p
          /\ \/ StepsToTake' = q /\ todo # 0 /\ todo' = todo - 1 /\ next' = next
             \/ StepsToTake' = q + 1 /\ todo # 0 /\ todo' = todo - 1 /\ next' = next
      BY <2>3, <2>5, <3>1, LeftIs DEF p, q, Taking
    <3>3. CASE StepsToTake' = q /\ todo # 0 /\ todo' = todo - 1 /\ next' = next
      BY <2>1, <2>2, <2>3, <2>4, <3>2, <3>3
    <3>4. CASE StepsToTake' = q + 1 /\ todo # 0 /\ todo' = todo - 1 /\ next' = next
      BY <2>1, <2>2, <2>3, <2>4, <3>2, <3>4
    <3>. QED
      BY <3>2, <3>3, <3>4
  <2>16. CASE Advance
    <3>1. /\ pc = "advance"
          /\ \/ pc' = "newline" /\ todo' = todo /\ next' = next
             \/ pc' = "print" /\ todo' = todo /\ next' = next
      BY <1>2, <2>3, <2>16 DEF Advance, Goto
    <3>2. /\ StepsToTake = p + 5
          /\ \/ StepsToTake' = q + 4 /\ todo' = todo /\ next' = next
             \/ StepsToTake' = q /\ todo' = todo /\ next' = next
      BY <2>3, <2>5, <3>1, LeftIs DEF p, q, Taking
    <3>3. CASE StepsToTake' = q + 4 /\ todo' = todo /\ next' = next
      BY <2>1, <2>2, <2>3, <2>4, <3>2, <3>3
    <3>4. CASE StepsToTake' = q /\ todo' = todo /\ next' = next
      BY <2>1, <2>2, <2>3, <2>4, <3>2, <3>4
    <3>. QED
      BY <3>2, <3>3, <3>4
  <2>17. CASE Back
    <3>1. /\ pc = "back"
          /\ pc' = "print" /\ todo' = todo /\ next' = next
      BY <1>2, <2>3, <2>17 DEF Back, Goto
    <3>2. /\ StepsToTake = p + 1
          /\ StepsToTake' = q /\ todo' = todo /\ next' = next
      BY <2>3, <2>5, <3>1, LeftIs DEF p, q, Taking
    <3>. QED
      BY <2>1, <2>2, <2>3, <2>4, <3>2
  <2>18. CASE NewlineLoad
    <3>1. /\ todo' = todo /\ next' = next
          /\ \/ pc = "newline" /\ pc' = "newline_x"
             \/ pc \in {"newline_x", "newline_load"} /\ pc' = "newline_y"
      BY <1>2, <2>3, <2>18 DEF NewlineLoad, Goto
    <3>2. CASE pc = "newline" /\ pc' = "newline_x"
      <4>1. StepsToTake = p + 4 /\ StepsToTake' = q + 3
        BY <2>3, <2>5, <3>1, <3>2, LeftIs DEF p, q, Taking
      <4>. QED
        BY <2>1, <2>2, <2>3, <2>4, <3>1, <4>1
    <3>3. CASE pc \in {"newline_x", "newline_load"} /\ pc' = "newline_y"
      <4>1. StepsToTake = p + 3 /\ StepsToTake' = q + 2
        BY <2>3, <2>5, <3>1, <3>3, LeftIs DEF p, q, Taking
      <4>. QED
        BY <2>1, <2>2, <2>3, <2>4, <3>1, <4>1
    <3>. QED
      BY <3>1, <3>2, <3>3
  <2>19. CASE NewlineX
    <3>1. /\ todo' = todo /\ next' = next
          /\ \/ pc = "newline" /\ pc' = "newline_load"
             \/ pc \in {"newline_x", "newline_load"} /\ pc' = "newline_y"
      BY <1>2, <2>3, <2>19 DEF NewlineX, Goto
    <3>2. CASE pc = "newline" /\ pc' = "newline_load"
      <4>1. StepsToTake = p + 4 /\ StepsToTake' = q + 3
        BY <2>3, <2>5, <3>1, <3>2, LeftIs DEF p, q, Taking
      <4>. QED
        BY <2>1, <2>2, <2>3, <2>4, <3>1, <4>1
    <3>3. CASE pc \in {"newline_x", "newline_load"} /\ pc' = "newline_y"
      <4>1. StepsToTake = p + 3 /\ StepsToTake' = q + 2
        BY <2>3, <2>5, <3>1, <3>3, LeftIs DEF p, q, Taking
      <4>. QED
        BY <2>1, <2>2, <2>3, <2>4, <3>1, <4>1
    <3>. QED
      BY <3>1, <3>2, <3>3
  <2>20. CASE NewlineY
    <3>1. /\ pc = "newline_y"
          /\ \/ pc' = "scroll" /\ todo' = todo /\ next' = next
             \/ pc' = "print" /\ todo' = todo /\ next' = next
      BY <1>2, <2>3, <2>20 DEF NewlineY, Goto
    <3>2. /\ StepsToTake = p + 2
          /\ \/ StepsToTake' = q + 1 /\ todo' = todo /\ next' = next
             \/ StepsToTake' = q /\ todo' = todo /\ next' = next
      BY <2>3, <2>5, <3>1, LeftIs DEF p, q, Taking
    <3>3. CASE StepsToTake' = q + 1 /\ todo' = todo /\ next' = next
      BY <2>1, <2>2, <2>3, <2>4, <3>2, <3>3
    <3>4. CASE StepsToTake' = q /\ todo' = todo /\ next' = next
      BY <2>1, <2>2, <2>3, <2>4, <3>2, <3>4
    <3>. QED
      BY <3>2, <3>3, <3>4
  <2>21. CASE Scrolled
    <3>1. /\ pc = "scroll"
          /\ pc' = "print" /\ todo' = todo /\ next' = next
      BY <1>2, <2>3, <2>21 DEF Scrolled, Goto
    <3>2. /\ StepsToTake = p + 1
          /\ StepsToTake' = q /\ todo' = todo /\ next' = next
      BY <2>3, <2>5, <3>1, LeftIs DEF p, q, Taking
    <3>. QED
      BY <2>1, <2>2, <2>3, <2>4, <3>2
  <2>22. CASE ReadlineCopy \/ ReadlineClearLength \/ ReadlineClearBuffer
             \/ ReadlineClearReady
    BY <1>2, <2>22 DEF ReadlineCopy, ReadlineClearLength, ReadlineClearBuffer,
                     ReadlineClearReady, Taking
  <2>. QED
    BY <2>1, <2>6, <2>7, <2>8, <2>9, <2>10, <2>11, <2>12, <2>13, <2>14, <2>15,
       <2>16, <2>17, <2>18, <2>19, <2>20, <2>21,
       <2>22 DEF Main, Putchar
<1>3. IInv /\ [Next]_vars => LoopInv /\ (Next => LoopInv')
  BY MainKeepsLoop, IrqKeeps DEF IInv, Next
<1>4. IInv /\ [Next]_vars =>
        [line_ready /\ pc \notin Taking =>
           Main /\ UNCHANGED input /\ StepsToTake' < StepsToTake]_vars
  BY <1>2, <1>3
<1>5. IInv => StepsToTake \in 0 .. 2 * Round + 4
  BY <1>1 DEF IInv
<1>. QED
  BY <1>4, <1>5, Invariance, PTL DEF Spec, EveryStepNearsTheLine
=============================================================================
