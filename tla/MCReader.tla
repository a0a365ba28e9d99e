------------------------------ MODULE MCReader ------------------------------
(***************************************************************************)
(* Reader on every small buffer, its refinement of SExpr, and its          *)
(* locations looked up in the line index.                                  *)
(***************************************************************************)
EXTENDS Diagnosis, ReaderForest

CONSTANTS
  MaxAny,   \* the length up to which every buffer over Char is read
  MaxFew,   \* and over the characters that decide nesting and locations
  MaxNum    \* and over the characters that decide numbers

Few == {"(", ")", "newline", "alpha"}
Num == {"minus", "digit", "dot", "alpha", "space"}

UpTo(S, n) == UNION {[1 .. k -> S] : k \in 0 .. n}

MCBuffers == UpTo(Char, MaxAny) \cup UpTo(Few, MaxFew) \cup UpTo(Num, MaxNum)

MCWidths == <<4, 16>>

\* The reader implements SExpr: whatever the text, it takes the maximal
\* tokens one by one, builds the forest of their parentheses, fails with the
\* error SExpr names and only then, and in the end returns.
ImplementsSExpr == Promise!Spec
=============================================================================
