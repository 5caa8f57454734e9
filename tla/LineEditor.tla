----------------------------- MODULE LineEditor -----------------------------
(***************************************************************************)
(* What the console promises the shell about keyboard input: the user      *)
(* edits one line at a time, Enter hands it over exactly as it reads then, *)
(* and no key changes it any more.  Console.tla implements this with an    *)
(* interrupt handler and a main loop that share four variables.            *)
(***************************************************************************)
EXTENDS Naturals, SequencesExt

CONSTANTS
  Char,     \* the characters a key can put into the line
  MaxLine   \* the longest line

VARIABLES
  draft,    \* the line being edited
  entered,  \* the finished line the shell has not taken yet, if any
  taken     \* the line the shell took last

vars == <<draft, entered, taken>>

Init == draft = <<>> /\ entered = {} /\ taken = <<>>

Type(c) ==
  /\ entered = {}
  /\ Len(draft) < MaxLine
  /\ draft' = Append(draft, c)
  /\ UNCHANGED <<entered, taken>>

Erase ==
  /\ entered = {}
  /\ draft # <<>>
  /\ draft' = Front(draft)
  /\ UNCHANGED <<entered, taken>>

Enter ==
  /\ entered = {}
  /\ entered' = {draft}
  /\ draft' = <<>>
  /\ UNCHANGED taken

Take ==
  /\ taken' \in entered
  /\ entered' = {}
  /\ UNCHANGED draft

Next == (\E c \in Char : Type(c)) \/ Erase \/ Enter \/ Take

Safe == Init /\ [][Next]_vars

(* Every line is taken in the end. *)
Spec == Safe /\ WF_vars(Take)
=============================================================================
