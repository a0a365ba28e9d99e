---------------------------- MODULE ReaderForest ----------------------------
(***************************************************************************)
(* The refinement mapping from Reader to SExpr: the text that has become   *)
(* tokens, and the nodes with their owners.                                *)
(***************************************************************************)
EXTENDS Reader

\* An error throws everything away.
failed == result.status \in ErrorType

\* Up to where the text has become tokens, with the spaces behind them.
consumed ==
  IF pc \in {"symbol", "number", "readNumber"} /\ word.text # <<>>
  THEN word.text[1] - 1
  ELSE nextNonSpace - 1

\* The list that has the node, or will get it when it is closed.
ownerOf(n) ==
  LET lists == {m \in DOMAIN heap : \E k \in DOMAIN heap[m].elems : heap[m].elems[k] = n}
      place == {k \in DOMAIN stack : stack[k] = n}
  IN IF lists # {} THEN CHOOSE m \in lists : TRUE
     ELSE IF place = {} \/ place = {1} THEN 0
     ELSE stack[(CHOOSE k \in place : TRUE) - 1]

\* A node as SExpr lists it.
entry(x, owner) ==
  [kind |-> x.kind, parent |-> owner,
   from |-> IF x.text = <<>> THEN 0 ELSE x.text[1],
   to   |-> IF x.text = <<>> THEN 0 ELSE x.text[Len(x.text)]]

forest == [n \in DOMAIN heap |-> entry(heap[n], ownerOf(n))]

textRead  == IF failed THEN 0 ELSE consumed
treeBuilt == IF failed THEN <<>> ELSE forest
listsOpen == IF failed THEN <<>> ELSE stack

Promise == INSTANCE SExpr WITH
  Texts   <- Buffers,
  text    <- buf,
  at      <- textRead,
  nodes   <- treeBuilt,
  open    <- listsOpen,
  verdict <- result.status
=============================================================================
