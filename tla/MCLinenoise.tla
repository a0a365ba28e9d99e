---------------------------- MODULE MCLinenoise -----------------------------
(***************************************************************************)
(* Linenoise with small keyboards, and its refinement of LineEditor.       *)
(***************************************************************************)
EXTENDS LineCharacters

\* A pipe; words with every key; lines up to a full buffer; and mixtures of
\* wide characters and marks without Ctrl-T.
MCKeyboards ==
  {[tty |-> FALSE, keys |-> {}, chars |-> {Letter}, limit |-> 0],
   [tty |-> TRUE, keys |-> Key, chars |-> {Letter, Space}, limit |-> 2],
   [tty |-> TRUE, keys |-> Key, chars |-> {Letter}, limit |-> MaxLine],
   [tty |-> TRUE, keys |-> Key \ {"ctrl_t"}, chars |-> {Letter, Mark}, limit |-> 3],
   [tty |-> TRUE, keys |-> Key \ {"ctrl_t"}, chars |-> {Wide, Mark}, limit |-> 4]}

\* One kind of character.
PlainKeyboards == {[tty |-> TRUE, keys |-> Key, chars |-> {Letter}, limit |-> MaxLine]}

\* One repeats a line, outgrows the history and ends within a line.
MCFiles == {<<>>, <<"x", "lf", "x", "lf", "lf", "x", "lf", "lf", "x">>}

\* What the proofs suppose of the input.
ASSUME MCInputAssumption == WholeInput /\ SingleCharacters
=============================================================================
