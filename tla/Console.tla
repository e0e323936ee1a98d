------------------------------ MODULE Console -------------------------------
(***************************************************************************)
(* From the key to the command: the keyboard, the queue of characters and  *)
(* the shell, which alone reads it.  The queue is what module IoQueue was  *)
(* shown to implement.                                                     *)
(***************************************************************************)
EXTENDS Shell

CONSTANT Capacity   \* of the queue, BUF_SIZE - 1

VARIABLES queue, last

Char == 1..58 \cup {Ctrl_l, Ctrl_u}
Fifo == INSTANCE CharFifo

consoleVars == <<keyboardVars, shellVars, queue, last>>

ConsoleInit == KeyboardInit /\ ShellInit /\ Fifo!FifoInit

\* The interrupt for byte b; a character is dropped if the queue is full.
Interrupt(b) ==
  /\ intr_keyboard_handler(b)
  /\ IF Typed(b) # << >> /\ Len(queue) < Capacity THEN Fifo!Put(Typed(b)[1]) ELSE UNCHANGED <<queue, last>>
  /\ UNCHANGED shellVars

Press(k) == press(k) /\ Interrupt(Head(Bytes(k)))
Release(k) == release(k) /\ Interrupt(Head(Bytes(k + Break)))
NextByte == next_byte /\ Interrupt(Head(bytes))

\* read(stdin_no, pos, 1)
Read == Fifo!Get /\ readline(Head(queue)) /\ UNCHANGED keyboardVars

RunProgram == \E forks \in BOOLEAN : run_program(forks)
ShellStep ==
  /\ prompt \/ cmd_parse \/ run_buildin \/ RunProgram \/ child_ends
  /\ UNCHANGED <<keyboardVars, queue, last>>

ConsoleNext == (\E k \in Key : Press(k) \/ Release(k)) \/ NextByte \/ Read \/ ShellStep

ConsoleSpec == ConsoleInit /\ [][ConsoleNext]_consoleVars
=============================================================================
