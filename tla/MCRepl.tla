------------------------------- MODULE MCRepl -------------------------------
(***************************************************************************)
(* Repl with short lines of two bytes, a letter and the line feed of       *)
(* Ctrl-J, and a history of two.                                           *)
(***************************************************************************)
EXTENDS Repl

X == <<"x">>
N == <<"lf">>

\* A pipe; walks through the history; and lines of three characters.
MCKeyboards ==
  {[tty |-> FALSE, keys |-> {}, chars |-> {X}, limit |-> 0],
   [tty |-> TRUE, keys |-> {"enter", "ctrl_c", "ctrl_d", "up", "down"},
    chars |-> {X, N}, limit |-> 1],
   [tty |-> TRUE, keys |-> {"enter", "ctrl_d"}, chars |-> {X, N}, limit |-> 3]}

\* One repeats a line, one outgrows the history and ends within a line.
MCFiles == {<<>>, X \o N \o X \o N \o N, X \o N \o N \o X \o N \o N \o X}
=============================================================================
